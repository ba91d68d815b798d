------------------------- MODULE PipelineFlowProofs -------------------------
(***************************************************************************)
(* What is sent arrives: once everything in the channels has been worked    *)
(* off, every sink that is not paused has the ack of the last batch of its  *)
(* sources (DrainedIsCaughtUp), and a run that ends by itself ends with its *)
(* cursors at the end of their ranges (FinishedIsComplete), for every       *)
(* graph, every capacity and every interleaving.                            *)
(***************************************************************************)
EXTENDS PipelineTypeProofs

-----------------------------------------------------------------------------
(* The branches of a node and what it holds.                                 *)

\* A node that is up has all its consumers that are up among its branches; one
\* that is down has none.  What it holds comes from a source above it.
WiredNode(cfg, nd, m) ==
    /\ Range(nd[m].live) \subseteq Feeds(cfg, m)
    /\ \A c \in Feeds(cfg, m) : nd[c].up => c \in Range(nd[m].live)
    /\ nd[m].up \/ nd[m].live = <<>>
    /\ nd[m].out = <<>> => nd[m].pos = 1
    /\ \A i \in DOMAIN nd[m].inbox : Below(cfg, nd[m].inbox[i].source, m)
    /\ \A i \in DOMAIN nd[m].out : nd[m].out[i].source = m \/ Below(cfg, nd[m].out[i].source, m)
WiredNodes(cfg, nd) == \A m \in NodesOf(cfg) : WiredNode(cfg, nd, m)

\* Queues and branches are sequences; a node that is down holds nothing, and
\* a sink sends nothing.
QueuedNode(cfg, nd, m) ==
    /\ IsSeq(nd[m].inbox) /\ IsSeq(nd[m].out) /\ IsSeq(nd[m].live)
    /\ nd[m].pos = 1 \/ nd[m].pos \in 1 .. Len(nd[m].live)
    /\ nd[m].up \/ (nd[m].inbox = <<>> /\ nd[m].out = <<>>)
    /\ m \in SinksOf(cfg) => nd[m].out = <<>>
QueuedNodes(cfg, nd) == \A m \in NodesOf(cfg) : QueuedNode(cfg, nd, m)

-----------------------------------------------------------------------------
(* What is on its way.                                                       *)

\* A batch of s that moves a watermark to a at least: any, or only a control
\* batch, which no processor ever skips.
Good(b, s, a, kind) ==
    b.source = s /\ AckBlock(b) >= a /\ ~IsRollback(b) /\ (kind = "control" => IsControl(b))

\* A rollback that takes a watermark below a.
Low(b, s, a) == b.source = s /\ IsRollback(b) /\ b.control.at + 1 < a

GoodAfter(q, i, s, a, kind) == \E j \in DOMAIN q : i < j /\ Good(q[j], s, a, kind)

\* The fan-out of a node has a good batch still to send to c: the first one
\* goes to the branches from pos on, the others to all of them.
ToSend(me, c, s, a, kind) ==
    \E i \in DOMAIN me.out : /\ Good(me.out[i], s, a, kind)
                             /\ \E j \in DOMAIN me.live : me.live[j] = c /\ (i = 1 => me.pos <= j)

\* A set of nodes that holds all that a good batch will still reach, and the
\* nodes that are down.
Cover(cfg, nd, s, a, kind, S) ==
    /\ Closed(cfg, S)
    /\ \A m \in NodesOf(cfg) :
          /\ ~nd[m].up => m \in S
          /\ \A i \in DOMAIN nd[m].inbox : Good(nd[m].inbox[i], s, a, kind) => m \in S
          /\ \A c \in NodesOf(cfg) : ToSend(nd[m], c, s, a, kind) => c \in S

\* Another good batch will still come to m: from a branch that has one in hand
\* or will get one.
Coming(cfg, nd, m, s, a, kind, S) ==
    \E p \in NodesOf(cfg) : ToSend(nd[p], m, s, a, kind) \/ (p \in S /\ nd[p].up /\ m \in Feeds(cfg, p))

\* Every rollback that would take a watermark below a has a good batch behind.
LowsFollowed(cfg, nd, s, a, kind, S) ==
    \A m \in NodesOf(cfg) : nd[m].up =>
        /\ \A i \in DOMAIN nd[m].inbox : Low(nd[m].inbox[i], s, a) =>
              GoodAfter(nd[m].inbox, i, s, a, kind) \/ Coming(cfg, nd, m, s, a, kind, S)
        /\ \A i \in DOMAIN nd[m].out : Low(nd[m].out[i], s, a) =>
              GoodAfter(nd[m].out, i, s, a, kind) \/ m \in S

\* Every sink below s that is up has its watermark at a or will be reached.
SinksServed(cfg, nd, mk, s, a, S) ==
    \A n \in Reachable(cfg, s) : nd[n].up => n \in S \/ (<<s, n>> \in DOMAIN mk /\ mk[<<s, n>>] >= a)

Promised(cfg, nd, mk, s, a, kind) ==
    \A S \in SUBSET NodesOf(cfg) :
        Cover(cfg, nd, s, a, kind, S) => SinksServed(cfg, nd, mk, s, a, S) /\ LowsFollowed(cfg, nd, s, a, kind, S)

-----------------------------------------------------------------------------
(* The inductive invariant.                                                  *)

\* The last ack of a source is owed to its sinks while no processor has failed
\* on a batch; that of a source which has come to its end, in any case.
Owed(s, kind) ==
    src[s].sent # None /\ IF kind = "any" THEN past.skipped = {} ELSE src[s].loop = "done" /\ ~run.stop

SourceFlow(s) ==
    /\ src[s].sent \in OptNat
    /\ src[s].loop = "done" /\ ~run.stop =>
          src[s].sent # None /\ SourceCfg(s).to_block # None /\ src[s].sent >= SourceCfg(s).to_block
    /\ \A kind \in {"any", "control"} : Owed(s, kind) => Promised(run.cfg, node, mark, s, src[s].sent, kind)

\* What a source has stopped for: a source that is down.
StoppedBy == run.phase = "running" /\ run.stop => \E s \in SourcesOf(run.cfg) : ~node[s].up

\* A run that has ended by itself has all its cursors at the end.
CursorsAtEnd(table) ==
    (\A s \in SourcesOf(run.cfg) : Reachable(run.cfg, s) \ run.paused # {})
    => \A s \in SourcesOf(run.cfg) : \A n \in Reachable(run.cfg, s) \ run.paused :
          <<s, n>> \in DOMAIN table /\ table[<<s, n>>] >= SourceCfg(s).to_block

FlowInv ==
    /\ run.phase \in {"open", "load"} =>
          \A n \in DOMAIN node : node[n].inbox = <<>> /\ node[n].out = <<>> /\ node[n].pos = 1 /\ node[n].up
                                 /\ node[n].live = ConsumersOf(run.cfg, n)
    /\ run.phase \in {"open", "load"} => ~run.stop /\ ~run.eof
    /\ run.phase = "running" => ~run.eof
    /\ run.phase \in {"running", "stopping"} =>
          /\ WiredNodes(run.cfg, node)
          /\ \A s \in SourcesOf(run.cfg) : SourceFlow(s)
          /\ \A n \in SinksOf(run.cfg) : node[n].up \/ n \in run.paused
          /\ StoppedBy
          /\ run.eof => /\ CursorsAtEnd(mark)
                        /\ \A n \in DOMAIN node : Idle(n)
                        /\ \A s \in SourcesOf(run.cfg) : src[s].loop = "done"
    /\ run.phase = "ended" /\ run.eof /\ run.saved => CursorsAtEnd(disk)

-----------------------------------------------------------------------------
(* The graph.                                                                *)

\* A sink feeds nobody, and nobody feeds a node that is not there.
LEMMA FeedsOk ==
    ASSUME NEW cfg, CfgOk(cfg), NEW n
    PROVE  /\ Feeds(cfg, n) \subseteq NodesOf(cfg) /\ n \notin Feeds(cfg, n)
           /\ n \in SinksOf(cfg) => Feeds(cfg, n) = {}
           /\ IsSeq(ConsumersOf(cfg, n))
<1>1. NamesOf(Consumers(cfg)) = NamesOf(cfg.processors) \cup NamesOf(cfg.sinks)
  BY NamesOfBoth DEF CfgOk, Consumers
<1>2. /\ IsSeq(ConsumersOf(cfg, n)) /\ n \notin Range(ConsumersOf(cfg, n))
      /\ Range(ConsumersOf(cfg, n)) \subseteq NamesOf(Consumers(cfg))
  BY ConsumersTyped
<1>3. ASSUME n \in SinksOf(cfg)  PROVE Feeds(cfg, n) = {}
  <2>1. ASSUME NEW k \in DOMAIN Consumers(cfg), n \in Range(Consumers(cfg)[k].inputs)  PROVE FALSE
    BY <1>3, <2>1 DEF CfgOk, SinksOf
  <2>2. ConsumersOf(cfg, n) \in Seq({})
    BY <2>1, ConsumersAmong
  <2>3. QED  BY <2>2, SeqIsSeq DEF Feeds
<1>4. QED  BY <1>1, <1>2, <1>3 DEF Feeds, NodesOf

\* What a source reaches lies in every closed set that holds the source.
LEMMA ReachableWithin ==
    ASSUME NEW cfg, CfgOk(cfg), NEW s, NEW S, Closed(cfg, S), s \in S
    PROVE  Reachable(cfg, s) \subseteq S \cap SinksOf(cfg)
<1> DEFINE N == Len(Consumers(cfg))
           below(T) == UNION {Range(ConsumersOf(cfg, n)) : n \in T}
           Step(g, k) == IF k = 0 THEN {s} ELSE g[k - 1] \cup below(g[k - 1])
           f == CHOOSE g : g = [k \in 0 .. N |-> Step(g, k)]
<1>1. N \in Nat
  <2>1. IsSeq(Consumers(cfg))
    BY RangeOfBoth DEF CfgOk, Consumers
  <2>2. QED  BY <2>1 DEF IsSeq
<1>2. Reachable(cfg, s) = f[N] \cap NamesOf(cfg.sinks)
  BY Zenon DEF Reachable
<1>3. \A T : T \subseteq S => below(T) \subseteq S
  BY DEF Closed, Feeds
<1> HIDE DEF N, f, below
<1>4. \A g : Step(g, 0) = {s} /\ \A k \in 1 .. N : Step(g, k) = g[k - 1] \cup below(g[k - 1])
  <2>1. \A k \in 1 .. N : k # 0
    BY <1>1
  <2>2. QED  BY <2>1
<1>5. \A g, h : \A k \in 0 .. N : (k = 0 \/ g[k - 1] = h[k - 1]) => Step(g, k) = Step(h, k)
  OBVIOUS
<1> HIDE DEF Step
<1> DEFINE Defined == {n \in 0 .. N : \E g : g = [k \in 0 .. n |-> g[k]] /\ \A k \in 0 .. n : g[k] = Step(g, k)}
<1>6. 0 \in Defined
  <2> DEFINE g == [k \in 0 .. 0 |-> {s}]
  <2>1. g = [k \in 0 .. 0 |-> g[k]] /\ g[0] = {s} /\ 0 .. 0 = {0}
    OBVIOUS
  <2>2. Step(g, 0) = {s}
    BY DEF Step
  <2> HIDE DEF g
  <2>3. QED  BY <2>1, <2>2, <1>1
<1>7. ASSUME NEW n \in 0 .. N - 1, n \in Defined
      PROVE  n + 1 \in Defined
  <2>1. PICK g : g = [k \in 0 .. n |-> g[k]] /\ \A k \in 0 .. n : g[k] = Step(g, k)
    BY <1>7
  <2> DEFINE h == [k \in 0 .. n + 1 |-> IF k = n + 1 THEN Step(g, n + 1) ELSE g[k]]
  <2>2. h = [k \in 0 .. n + 1 |-> h[k]]
    OBVIOUS
  <2>3. ASSUME NEW k \in 0 .. n + 1  PROVE h[k] = Step(h, k)
    <3>1. k \in 0 .. N /\ (k = 0 \/ h[k - 1] = g[k - 1])
      BY <1>1
    <3>2. h[k] = Step(g, k)
      BY <2>1, <1>1
    <3> HIDE DEF h
    <3>3. QED  BY <3>1, <3>2, <1>5
  <2> HIDE DEF h
  <2>4. n + 1 \in 0 .. N
    BY <1>1
  <2>5. QED  BY <2>2, <2>3, <2>4, Zenon
<1>8. N \in Defined
  <2> HIDE DEF Defined
  <2>1. QED  BY <1>6, <1>7, <1>1, UpTo
<1>9. PICK g : g = [k \in 0 .. N |-> g[k]] /\ \A k \in 0 .. N : g[k] = Step(g, k)
  BY <1>8
<1>10. f = [k \in 0 .. N |-> Step(f, k)]
  <2>1. g = [k \in 0 .. N |-> Step(g, k)]
    BY <1>9
  <2>2. QED  BY <2>1, Zenon DEF f
<1>11. \A k \in 0 .. N : f[k] = Step(f, k)
  BY <1>10, Zenon
<1> DEFINE Within == {n \in 0 .. N : f[n] \subseteq S}
<1>12. 0 \in Within
  BY <1>1, <1>4, <1>11
<1>13. ASSUME NEW n \in 0 .. N - 1, n \in Within PROVE n + 1 \in Within
  <2>1. n + 1 \in 1 .. N /\ n + 1 \in 0 .. N /\ (n + 1) - 1 = n /\ f[n] \subseteq S
    BY <1>1, <1>13
  <2>2. f[n + 1] = f[n] \cup below(f[n])
    BY <2>1, <1>4, <1>11
  <2>3. QED  BY <2>1, <2>2, <1>3
<1>14. N \in Within
  <2> HIDE DEF Within
  <2>1. QED  BY <1>12, <1>13, <1>1, UpTo
<1>15. QED  BY <1>14, <1>2 DEF SinksOf


\* Only sinks are reached.
LEMMA ReachesSinks ==
    ASSUME NEW cfg, NEW s
    PROVE  Reachable(cfg, s) \subseteq SinksOf(cfg)
BY Zenon DEF Reachable, SinksOf

\* What is in a queue, by position.
LEMMA QueuePositions ==
    ASSUME NEW q, IsSeq(q)
    PROVE  Len(q) \in Nat /\ DOMAIN q = 1 .. Len(q) /\ (q = <<>> <=> Len(q) = 0) /\ Range(q) = {q[i] : i \in DOMAIN q}
<1>1. q \in Seq(Range(q))
  BY DEF IsSeq
<1>2. QED  BY <1>1 DEF Range

\* A sequence without elements is empty.
LEMMA SequenceEmpty ==
    ASSUME NEW q, IsSeq(q), Range(q) = {}
    PROVE  q = <<>>
<1>1. q \in Seq({})
  BY DEF IsSeq
<1>2. QED  BY <1>1

\* The same of a queue without its first batch.
LEMMA TailPositions ==
    ASSUME NEW q, IsSeq(q), q # <<>>
    PROVE  /\ IsSeq(Tail(q)) /\ Len(q) \in Nat \ {0} /\ DOMAIN q = 1 .. Len(q)
           /\ Len(Tail(q)) = Len(q) - 1 /\ DOMAIN Tail(q) = 1 .. Len(q) - 1
           /\ Head(q) = q[1] /\ \A i \in 1 .. Len(q) - 1 : Tail(q)[i] = q[i + 1]
<1>1. q \in Seq(Range(q)) /\ Len(q) \in Nat \ {0} /\ DOMAIN q = 1 .. Len(q)
  BY DEF IsSeq
<1> DEFINE r == Tail(q)
<1>2. /\ r \in Seq(Range(q)) /\ DOMAIN r = 1 .. Len(q) - 1 /\ Len(r) = Len(q) - 1
      /\ \A i \in 1 .. Len(q) - 1 : r[i] = q[i + 1]
  BY <1>1
<1>3. Head(q) = q[1]
  BY <1>1
<1> HIDE DEF r
<1>4. IsSeq(r)
  BY <1>2, SeqIsSeq
<1>5. QED  BY <1>1, <1>2, <1>3, <1>4 DEF r

\* And with batches added at the end.
LEMMA JoinPositions ==
    ASSUME NEW p, NEW q, IsSeq(p), IsSeq(q)
    PROVE  /\ IsSeq(p \o q) /\ Len(p) \in Nat /\ Len(q) \in Nat /\ DOMAIN p = 1 .. Len(p) /\ DOMAIN q = 1 .. Len(q)
           /\ DOMAIN (p \o q) = 1 .. Len(p) + Len(q) /\ Len(p \o q) = Len(p) + Len(q)
           /\ \A i \in 1 .. Len(p) : (p \o q)[i] = p[i]
           /\ \A i \in 1 .. Len(q) : (p \o q)[Len(p) + i] = q[i]
<1>1. /\ p \in Seq(Range(p) \cup Range(q)) /\ Len(p) \in Nat /\ DOMAIN p = 1 .. Len(p)
      /\ q \in Seq(Range(p) \cup Range(q)) /\ Len(q) \in Nat /\ DOMAIN q = 1 .. Len(q)
  BY DEF IsSeq
<1>2. p \o q \in Seq(Range(p) \cup Range(q))
  BY <1>1
<1>3. IsSeq(p \o q)
  BY <1>2, SeqIsSeq
<1>4. QED  BY <1>1, <1>3, Concatenated

\* One batch added at the end.
LEMMA AppendPositions ==
    ASSUME NEW q, IsSeq(q), NEW b
    PROVE  /\ IsSeq(Append(q, b)) /\ Len(q) \in Nat /\ DOMAIN q = 1 .. Len(q)
           /\ DOMAIN Append(q, b) = 1 .. Len(q) + 1
           /\ \A i \in 1 .. Len(q) : Append(q, b)[i] = q[i]
           /\ Append(q, b)[Len(q) + 1] = b
<1>1. q \in Seq(Range(q) \cup {b}) /\ Len(q) \in Nat /\ DOMAIN q = 1 .. Len(q)
  BY DEF IsSeq
<1>2. /\ Append(q, b) \in Seq(Range(q) \cup {b}) /\ DOMAIN Append(q, b) = 1 .. Len(q) + 1
      /\ \A i \in 1 .. Len(q) : Append(q, b)[i] = q[i]
      /\ Append(q, b)[Len(q) + 1] = b
  BY <1>1
<1>3. IsSeq(Append(q, b))
  BY <1>2, SeqIsSeq
<1>4. QED  BY <1>1, <1>2, <1>3


\* What is good and what is behind what, without the first batch.
LEMMA TailFollows ==
    ASSUME NEW q, IsSeq(q), q # <<>>, NEW s, NEW a, NEW kind
    PROVE  /\ IsSeq(Tail(q)) /\ 1 \in DOMAIN q /\ Head(q) = q[1]
           /\ \A i \in DOMAIN q : i = 1 \/ (i - 1 \in DOMAIN Tail(q) /\ Tail(q)[i - 1] = q[i])
           /\ \A i \in DOMAIN Tail(q) : i + 1 \in DOMAIN q /\ Tail(q)[i] = q[i + 1] /\ i + 1 # 1 /\ (i + 1) - 1 = i
           /\ \A i \in DOMAIN Tail(q) : GoodAfter(q, i + 1, s, a, kind) => GoodAfter(Tail(q), i, s, a, kind)
           /\ GoodAfter(q, 1, s, a, kind) => \E j \in DOMAIN Tail(q) : Good(Tail(q)[j], s, a, kind)
<1> DEFINE r == Tail(q)
<1>1. /\ IsSeq(r) /\ Len(q) \in Nat \ {0} /\ DOMAIN q = 1 .. Len(q) /\ DOMAIN r = 1 .. Len(q) - 1
      /\ Head(q) = q[1] /\ \A i \in 1 .. Len(q) - 1 : r[i] = q[i + 1]
  BY TailPositions
<1> HIDE DEF r
<1>2. \A i \in DOMAIN q : i = 1 \/ (i - 1 \in DOMAIN r /\ r[i - 1] = q[i])
  BY <1>1
<1>3. \A i \in DOMAIN r : i + 1 \in DOMAIN q /\ r[i] = q[i + 1] /\ i + 1 # 1 /\ (i + 1) - 1 = i
  BY <1>1
<1>4. ASSUME NEW i \in DOMAIN r, GoodAfter(q, i + 1, s, a, kind)  PROVE GoodAfter(r, i, s, a, kind)
  <2>1. PICK j \in DOMAIN q : i + 1 < j /\ Good(q[j], s, a, kind)
    BY <1>4 DEF GoodAfter
  <2>2. j - 1 \in DOMAIN r /\ r[j - 1] = q[j] /\ i < j - 1
    BY <2>1, <1>1
  <2>3. QED  BY <2>1, <2>2 DEF GoodAfter
<1>5. ASSUME GoodAfter(q, 1, s, a, kind)  PROVE \E j \in DOMAIN r : Good(r[j], s, a, kind)
  <2>1. PICK j \in DOMAIN q : 1 < j /\ Good(q[j], s, a, kind)
    BY <1>5 DEF GoodAfter
  <2>2. j - 1 \in DOMAIN r /\ r[j - 1] = q[j]
    BY <2>1, <1>1
  <2>3. QED  BY <2>1, <2>2
<1>6. 1 \in DOMAIN q
  BY <1>1
<1>7. QED  BY <1>1, <1>2, <1>3, <1>4, <1>5, <1>6 DEF r

-----------------------------------------------------------------------------
(* A processor works on a batch.                                             *)

Processed(cfg, nd, new, p, sent) ==
    /\ \A m \in NodesOf(cfg) \ {p} : new[m] = nd[m]
    /\ new[p].inbox = Tail(nd[p].inbox) /\ new[p].out = sent
    /\ new[p].live = nd[p].live /\ new[p].pos = nd[p].pos /\ new[p].up = nd[p].up

\* Its branches stay, and what it sends comes from where the batch came from.
LEMMA ProcessedWired ==
    ASSUME NEW cfg, CfgOk(cfg), NEW nd, NEW new, QueuedNodes(cfg, nd), WiredNodes(cfg, nd),
           NEW p \in NodesOf(cfg), NEW sent, Processed(cfg, nd, new, p, sent), nd[p].inbox # <<>>, nd[p].out = <<>>,
           \A i \in DOMAIN sent : sent[i].source = Head(nd[p].inbox).source
    PROVE  WiredNodes(cfg, new)
<1> USE DEF Processed
<1>1. \A c \in NodesOf(cfg) : new[c].up = nd[c].up
  OBVIOUS
<1>2. \A m \in NodesOf(cfg) : Feeds(cfg, m) \subseteq NodesOf(cfg)
  BY FeedsOk
<1>3. ASSUME NEW m \in NodesOf(cfg), m # p  PROVE WiredNode(cfg, new, m)
  BY <1>1, <1>2, <1>3 DEF WiredNodes, WiredNode
<1>4. WiredNode(cfg, new, p)
  <2>1. WiredNode(cfg, nd, p) /\ IsSeq(nd[p].inbox)
    BY DEF WiredNodes, QueuedNodes, QueuedNode
  <2> DEFINE q == nd[p].inbox
             r == Tail(q)
  <2>2. /\ 1 \in DOMAIN q /\ Head(q) = q[1]
        /\ \A i \in DOMAIN r : i + 1 \in DOMAIN q /\ r[i] = q[i + 1]
    BY <2>1, TailFollows
  <2> HIDE DEF r
  <2>3. new[p].inbox = r
    BY DEF r
  <2> HIDE DEF q
  <2>4. \A i \in DOMAIN q : Below(cfg, q[i].source, p)
    BY <2>1 DEF WiredNode, q
  <2>5. \A i \in DOMAIN r : Below(cfg, r[i].source, p)
    BY <2>2, <2>4
  <2>6. \A i \in DOMAIN sent : Below(cfg, sent[i].source, p)
    BY <2>2, <2>4 DEF q
  <2>7. nd[p].pos = 1
    BY <2>1 DEF WiredNode
  <2>8. QED  BY <2>1, <2>3, <2>5, <2>6, <2>7, <1>1, <1>2 DEF WiredNode
<1>5. QED  BY <1>3, <1>4 DEF WiredNodes

\* A set that covers what is on its way afterwards covers, with the processor,
\* what was on its way before.
LEMMA ProcessedCover ==
    ASSUME NEW cfg, CfgOk(cfg), NEW nd, NEW new, QueuedNodes(cfg, nd), WiredNodes(cfg, nd),
           NEW p \in NodesOf(cfg), NEW sent, Processed(cfg, nd, new, p, sent), nd[p].inbox # <<>>, nd[p].out = <<>>,
           nd[p].up, NEW s, NEW a, NEW kind, NEW S, Cover(cfg, new, s, a, kind, S),
           Good(Head(nd[p].inbox), s, a, kind) => \E i \in DOMAIN sent : Good(sent[i], s, a, kind)
    PROVE  /\ Cover(cfg, nd, s, a, kind, IF Good(Head(nd[p].inbox), s, a, kind) THEN S \cup {p} ELSE S)
           /\ Good(Head(nd[p].inbox), s, a, kind) =>
                 \A c \in Feeds(cfg, p) : c \in S /\ (nd[c].up => ToSend(new[p], c, s, a, kind))
<1> DEFINE q == nd[p].inbox
           r == Tail(q)
           good == Good(Head(q), s, a, kind)
           T == IF good THEN S \cup {p} ELSE S
<1>1. /\ \A m \in NodesOf(cfg) \ {p} : new[m] = nd[m]
      /\ new[p].inbox = r /\ new[p].out = sent
      /\ new[p].live = nd[p].live /\ new[p].pos = nd[p].pos /\ new[p].up = nd[p].up
  BY DEF Processed
<1>2. /\ 1 \in DOMAIN q /\ Head(q) = q[1]
      /\ \A i \in DOMAIN q : i = 1 \/ (i - 1 \in DOMAIN r /\ r[i - 1] = q[i])
  BY TailFollows DEF QueuedNodes, QueuedNode
<1> HIDE DEF r
<1>3. ASSUME good, NEW c \in Feeds(cfg, p)
      PROVE  c \in S /\ (nd[c].up => ToSend(new[p], c, s, a, kind))
  <2>1. c \in NodesOf(cfg)
    BY FeedsOk
  <2>2. nd[c].up => ToSend(new[p], c, s, a, kind)
    <3>1. WiredNode(cfg, nd, p) /\ IsSeq(nd[p].live)
      BY DEF WiredNodes, QueuedNodes, QueuedNode
    <3>2. nd[p].pos = 1 /\ (nd[c].up => c \in Range(nd[p].live))
      BY <3>1 DEF WiredNode
    <3>3. \A j \in DOMAIN nd[p].live : 1 <= j
      BY <3>1, QueuePositions
    <3>4. PICK i \in DOMAIN sent : Good(sent[i], s, a, kind)
      BY <1>3
    <3>5. QED  BY <1>1, <3>2, <3>3, <3>4 DEF ToSend, Range
  <2>3. ~nd[c].up => c \in S
    BY <1>1, <2>1 DEF Cover
  <2>4. ToSend(new[p], c, s, a, kind) => c \in S
    BY <2>1 DEF Cover
  <2>5. QED  BY <2>2, <2>3, <2>4
<1>4. Closed(cfg, T)
  BY <1>3 DEF Cover, Closed
<1>5. ASSUME NEW m \in NodesOf(cfg)
      PROVE  /\ ~nd[m].up => m \in T
             /\ \A i \in DOMAIN nd[m].inbox : Good(nd[m].inbox[i], s, a, kind) => m \in T
             /\ \A c \in NodesOf(cfg) : ToSend(nd[m], c, s, a, kind) => c \in T
  <2>1. CASE m # p
    BY <1>1, <2>1 DEF Cover
  <2>2. CASE m = p
    <3>1. \A c : ~ToSend(nd[p], c, s, a, kind)
      BY DEF ToSend
    <3>2. ASSUME NEW i \in DOMAIN q, Good(q[i], s, a, kind)  PROVE p \in T
      <4>1. CASE i = 1
        BY <4>1, <1>2, <3>2
      <4>2. CASE i # 1
        BY <4>2, <1>1, <1>2, <3>2 DEF Cover
      <4>3. QED  BY <4>1, <4>2
    <3>3. QED  BY <2>2, <3>1, <3>2
  <2>3. QED  BY <2>1, <2>2
<1>6. QED  BY <1>3, <1>4, <1>5 DEF Cover


\* A rollback it takes from its queue has behind it what it had before.
LEMMA ProcessedLows ==
    ASSUME NEW cfg, CfgOk(cfg), NEW nd, NEW new, QueuedNodes(cfg, nd), WiredNodes(cfg, nd),
           NEW p \in NodesOf(cfg), NEW sent, Processed(cfg, nd, new, p, sent), nd[p].inbox # <<>>, nd[p].out = <<>>,
           nd[p].up, NEW s, NEW a, NEW kind, NEW S, Cover(cfg, new, s, a, kind, S),
           Good(Head(nd[p].inbox), s, a, kind) => \E i \in DOMAIN sent : Good(sent[i], s, a, kind),
           \A i \in DOMAIN sent : Low(sent[i], s, a) => Low(Head(nd[p].inbox), s, a),
           LowsFollowed(cfg, nd, s, a, kind, IF Good(Head(nd[p].inbox), s, a, kind) THEN S \cup {p} ELSE S)
    PROVE  LowsFollowed(cfg, new, s, a, kind, S)
<1> DEFINE q == nd[p].inbox
           r == Tail(q)
           good == Good(Head(q), s, a, kind)
           T == IF good THEN S \cup {p} ELSE S
<1>1. /\ \A m \in NodesOf(cfg) \ {p} : new[m] = nd[m]
      /\ new[p].inbox = r /\ new[p].out = sent
      /\ new[p].live = nd[p].live /\ new[p].pos = nd[p].pos /\ new[p].up = nd[p].up
  BY DEF Processed
<1>2. /\ 1 \in DOMAIN q /\ Head(q) = q[1]
      /\ \A i \in DOMAIN r : i + 1 \in DOMAIN q /\ r[i] = q[i + 1]
      /\ \A i \in DOMAIN r : GoodAfter(q, i + 1, s, a, kind) => GoodAfter(r, i, s, a, kind)
      /\ GoodAfter(q, 1, s, a, kind) => \E j \in DOMAIN r : Good(r[j], s, a, kind)
  BY TailFollows DEF QueuedNodes, QueuedNode
<1> HIDE DEF r
<1>3. \A c : ~ToSend(nd[p], c, s, a, kind)
  BY DEF ToSend
<1>4. good => \A c \in Feeds(cfg, p) : c \in S /\ (nd[c].up => ToSend(new[p], c, s, a, kind))
  BY ProcessedCover
<1> HIDE DEF good
<1>5. ASSUME NEW m \in NodesOf(cfg), nd[m].up, Coming(cfg, nd, m, s, a, kind, T)
      PROVE  Coming(cfg, new, m, s, a, kind, S)
  <2>1. PICK x \in NodesOf(cfg) : ToSend(nd[x], m, s, a, kind) \/ (x \in T /\ nd[x].up /\ m \in Feeds(cfg, x))
    BY <1>5 DEF Coming
  <2>2. CASE x # p
    BY <2>1, <2>2, <1>1 DEF Coming
  <2>3. CASE x = p
    <3>1. p \in T /\ m \in Feeds(cfg, p)
      BY <2>1, <2>3, <1>3
    <3>2. CASE good
      BY <3>1, <3>2, <1>4, <1>5 DEF Coming
    <3>3. CASE ~good
      BY <3>1, <3>3, <1>1 DEF Coming
    <3>4. QED  BY <3>2, <3>3
  <2>4. QED  BY <2>2, <2>3
<1>6. LowsFollowed(cfg, nd, s, a, kind, T)
  BY DEF good
<1> HIDE DEF T
<1>7. ASSUME NEW m \in NodesOf(cfg), new[m].up, m # p
      PROVE  /\ \A i \in DOMAIN new[m].inbox : Low(new[m].inbox[i], s, a) =>
                   GoodAfter(new[m].inbox, i, s, a, kind) \/ Coming(cfg, new, m, s, a, kind, S)
             /\ \A i \in DOMAIN new[m].out : Low(new[m].out[i], s, a) =>
                   GoodAfter(new[m].out, i, s, a, kind) \/ m \in S
  BY <1>1, <1>5, <1>6, <1>7 DEF LowsFollowed, T
<1>8. /\ \A i \in DOMAIN q : Low(q[i], s, a) => GoodAfter(q, i, s, a, kind) \/ Coming(cfg, new, p, s, a, kind, S)
      /\ Closed(cfg, S) /\ \A x \in NodesOf(cfg) : ToSend(new[x], p, s, a, kind) => p \in S
      /\ \A j \in DOMAIN r : Good(r[j], s, a, kind) => p \in S
  BY <1>1, <1>5, <1>6 DEF LowsFollowed, Cover
<1>9. Coming(cfg, new, p, s, a, kind, S) => p \in S
  BY <1>8 DEF Coming, Closed
<1>10. /\ \A i \in DOMAIN r : Low(r[i], s, a) => GoodAfter(r, i, s, a, kind) \/ Coming(cfg, new, p, s, a, kind, S)
       /\ \A i \in DOMAIN sent : Low(sent[i], s, a) => p \in S
  <2>1. Low(Head(q), s, a) => p \in S
    BY <1>2, <1>8, <1>9
  <2>2. QED  BY <2>1, <1>2, <1>8
<1>11. QED  BY <1>1, <1>7, <1>10 DEF LowsFollowed

\* What was promised before a processor's step is promised after it.
LEMMA ProcessedPromised ==
    ASSUME NEW cfg, CfgOk(cfg), NEW nd, NEW new, QueuedNodes(cfg, nd), WiredNodes(cfg, nd),
           NEW p \in NodesOf(cfg), p \notin SinksOf(cfg), NEW sent, Processed(cfg, nd, new, p, sent),
           nd[p].inbox # <<>>, nd[p].out = <<>>, nd[p].up,
           NEW mk, NEW s \in NodesOf(cfg), NEW a, NEW kind, Promised(cfg, nd, mk, s, a, kind),
           Good(Head(nd[p].inbox), s, a, kind) => \E i \in DOMAIN sent : Good(sent[i], s, a, kind),
           \A i \in DOMAIN sent : Low(sent[i], s, a) => Low(Head(nd[p].inbox), s, a)
    PROVE  Promised(cfg, new, mk, s, a, kind)
<1> SUFFICES ASSUME NEW S \in SUBSET NodesOf(cfg), Cover(cfg, new, s, a, kind, S)
             PROVE  SinksServed(cfg, new, mk, s, a, S) /\ LowsFollowed(cfg, new, s, a, kind, S)
  BY DEF Promised
<1> DEFINE T == IF Good(Head(nd[p].inbox), s, a, kind) THEN S \cup {p} ELSE S
<1>1. Cover(cfg, nd, s, a, kind, T)
  BY ProcessedCover
<1>2. SinksServed(cfg, nd, mk, s, a, T) /\ LowsFollowed(cfg, nd, s, a, kind, T)
  BY <1>1 DEF Promised
<1>3. LowsFollowed(cfg, new, s, a, kind, S)
  BY <1>2, ProcessedLows
<1>4. Reachable(cfg, s) \subseteq SinksOf(cfg)
  BY ReachesSinks
<1>5. \A n \in Reachable(cfg, s) : new[n] = nd[n] /\ n # p
  BY <1>4 DEF Processed, SinksOf, NodesOf
<1>6. SinksServed(cfg, new, mk, s, a, S)
  BY <1>2, <1>5 DEF SinksServed
<1>7. QED  BY <1>3, <1>6


-----------------------------------------------------------------------------
(* A sink takes a batch, or pauses.                                          *)

SinkChanged(cfg, nd, new, n) ==
    /\ \A m \in NodesOf(cfg) \ {n} : new[m] = nd[m]
    /\ new[n].out = nd[n].out /\ new[n].live = nd[n].live /\ new[n].pos = nd[n].pos

\* The watermark of s at sink m is at a.
At(mk, s, m, a) == <<s, m>> \in DOMAIN mk /\ mk[<<s, m>>] >= a

\* A sink has no branches and sends nothing.
LEMMA SinkIsLast ==
    ASSUME NEW cfg, CfgOk(cfg), NEW nd, QueuedNodes(cfg, nd), WiredNodes(cfg, nd), NEW n \in SinksOf(cfg)
    PROVE  /\ n \in NodesOf(cfg) /\ nd[n].live = <<>> /\ nd[n].out = <<>> /\ Feeds(cfg, n) = {}
           /\ \A c, s, a, kind : ~ToSend(nd[n], c, s, a, kind)
<1>1. n \in NodesOf(cfg) /\ Feeds(cfg, n) = {}
  BY FeedsOk DEF SinksOf, NodesOf
<1>2. WiredNode(cfg, nd, n) /\ IsSeq(nd[n].live) /\ nd[n].out = <<>>
  BY <1>1 DEF WiredNodes, QueuedNodes, QueuedNode
<1>3. nd[n].live = <<>>
  <2>1. Range(nd[n].live) = {}
    BY <1>1, <1>2 DEF WiredNode
  <2>2. QED  BY <1>2, <2>1, SequenceEmpty
<1>4. \A c, s, a, kind : ~ToSend(nd[n], c, s, a, kind)
  BY <1>2 DEF ToSend
<1>5. QED  BY <1>1, <1>2, <1>3, <1>4

\* What a sink does to its queue leaves the graph as it is.
LEMMA SinkKeepsWired ==
    ASSUME NEW cfg, CfgOk(cfg), NEW nd, NEW new, QueuedNodes(cfg, nd), WiredNodes(cfg, nd),
           NEW n \in SinksOf(cfg), nd[n].up, SinkChanged(cfg, nd, new, n),
           new[n].inbox = nd[n].inbox \/ (new[n].inbox = Tail(nd[n].inbox) /\ nd[n].inbox # <<>>) \/ new[n].inbox = <<>>
    PROVE  WiredNodes(cfg, new)
<1>1. n \in NodesOf(cfg) /\ nd[n].live = <<>> /\ nd[n].out = <<>> /\ Feeds(cfg, n) = {}
  BY SinkIsLast
<1>2. \A m \in NodesOf(cfg) : Feeds(cfg, m) \subseteq NodesOf(cfg)
  BY FeedsOk
<1>3. ASSUME NEW m \in NodesOf(cfg), m # n  PROVE WiredNode(cfg, new, m)
  <2>1. \A c \in NodesOf(cfg) : new[c].up => nd[c].up
    BY DEF SinkChanged
  <2>2. QED  BY <2>1, <1>2, <1>3 DEF WiredNodes, WiredNode, SinkChanged
<1>4. WiredNode(cfg, new, n)
  <2>1. WiredNode(cfg, nd, n) /\ IsSeq(nd[n].inbox)
    BY <1>1 DEF WiredNodes, QueuedNodes, QueuedNode
  <2> DEFINE q == nd[n].inbox
             r == new[n].inbox
  <2>2. \A i \in DOMAIN q : Below(cfg, q[i].source, n)
    BY <2>1 DEF WiredNode
  <2>3. \A i \in DOMAIN r : Below(cfg, r[i].source, n)
    <3> HIDE DEF q, r
    <3>1. CASE r = q
      BY <3>1, <2>2
    <3>2. CASE r = Tail(q) /\ q # <<>>
      BY <3>2, <2>1, <2>2, TailFollows DEF q
    <3>3. CASE r = <<>>
      BY <3>3
    <3>4. QED  BY <3>1, <3>2, <3>3 DEF q, r
  <2>4. QED  BY <2>1, <2>3, <1>1 DEF WiredNode, SinkChanged
<1>5. QED  BY <1>3, <1>4 DEF WiredNodes

\* A sink that pauses is out of the promise; the others keep theirs.
LEMMA PausedPromised ==
    ASSUME NEW cfg, CfgOk(cfg), NEW nd, NEW new, QueuedNodes(cfg, nd), WiredNodes(cfg, nd),
           NEW n \in SinksOf(cfg), SinkChanged(cfg, nd, new, n), ~new[n].up,
           NEW mk, NEW new_mk, NEW s \in NodesOf(cfg), NEW a, NEW kind, Promised(cfg, nd, mk, s, a, kind),
           \A m \in SinksOf(cfg) \ {n} : At(mk, s, m, a) => At(new_mk, s, m, a)
    PROVE  Promised(cfg, new, new_mk, s, a, kind)
<1> SUFFICES ASSUME NEW S \in SUBSET NodesOf(cfg), Cover(cfg, new, s, a, kind, S)
             PROVE  SinksServed(cfg, new, new_mk, s, a, S) /\ LowsFollowed(cfg, new, s, a, kind, S)
  BY DEF Promised
<1>1. n \in NodesOf(cfg) /\ Feeds(cfg, n) = {} /\ \A c : ~ToSend(nd[n], c, s, a, kind)
  BY SinkIsLast
<1>2. \A m \in NodesOf(cfg) \ {n} : new[m] = nd[m]
  BY DEF SinkChanged
<1>3. Cover(cfg, nd, s, a, kind, S)
  <2>1. n \in S
    BY <1>1 DEF Cover
  <2>2. QED  BY <2>1, <1>1, <1>2 DEF Cover
<1>4. SinksServed(cfg, nd, mk, s, a, S) /\ LowsFollowed(cfg, nd, s, a, kind, S)
  BY <1>3 DEF Promised
<1>5. SinksServed(cfg, new, new_mk, s, a, S)
  <2>1. Reachable(cfg, s) \subseteq SinksOf(cfg) /\ SinksOf(cfg) \subseteq NodesOf(cfg)
    BY ReachesSinks DEF SinksOf, NodesOf
  <2>2. QED  BY <2>1, <1>2, <1>4 DEF SinksServed, At
<1>6. \A m \in NodesOf(cfg) \ {n} : Coming(cfg, nd, m, s, a, kind, S) => Coming(cfg, new, m, s, a, kind, S)
  BY <1>1, <1>2 DEF Coming
<1>7. LowsFollowed(cfg, new, s, a, kind, S)
  BY <1>2, <1>4, <1>6 DEF LowsFollowed
<1>8. QED  BY <1>5, <1>7

\* A sink that has written a batch has acked it, or has gone back with it.
LEMMA TakenPromised ==
    ASSUME NEW cfg, CfgOk(cfg), NEW nd, NEW new, QueuedNodes(cfg, nd), WiredNodes(cfg, nd),
           NEW n \in SinksOf(cfg), SinkChanged(cfg, nd, new, n), nd[n].up, new[n].up,
           nd[n].inbox # <<>>, new[n].inbox = Tail(nd[n].inbox),
           NEW mk, NEW new_mk, NEW s \in NodesOf(cfg), NEW a, NEW kind, Promised(cfg, nd, mk, s, a, kind),
           \A m \in SinksOf(cfg) \ {n} : At(mk, s, m, a) => At(new_mk, s, m, a),
           Good(Head(nd[n].inbox), s, a, kind) => At(new_mk, s, n, a),
           ~Low(Head(nd[n].inbox), s, a) /\ At(mk, s, n, a) => At(new_mk, s, n, a)
    PROVE  Promised(cfg, new, new_mk, s, a, kind)
<1> SUFFICES ASSUME NEW S \in SUBSET NodesOf(cfg), Cover(cfg, new, s, a, kind, S)
             PROVE  SinksServed(cfg, new, new_mk, s, a, S) /\ LowsFollowed(cfg, new, s, a, kind, S)
  BY DEF Promised
<1> DEFINE q == nd[n].inbox
           r == Tail(q)
           good == Good(Head(q), s, a, kind)
           T == IF good THEN S \cup {n} ELSE S
<1>1. n \in NodesOf(cfg) /\ nd[n].out = <<>> /\ Feeds(cfg, n) = {} /\ \A c : ~ToSend(nd[n], c, s, a, kind)
  BY SinkIsLast
<1>2. /\ \A m \in NodesOf(cfg) \ {n} : new[m] = nd[m]
      /\ new[n].inbox = r /\ new[n].out = nd[n].out
  BY DEF SinkChanged
<1>3. /\ 1 \in DOMAIN q /\ Head(q) = q[1]
      /\ \A i \in DOMAIN q : i = 1 \/ (i - 1 \in DOMAIN r /\ r[i - 1] = q[i])
      /\ \A i \in DOMAIN r : i + 1 \in DOMAIN q /\ r[i] = q[i + 1]
      /\ \A i \in DOMAIN r : GoodAfter(q, i + 1, s, a, kind) => GoodAfter(r, i, s, a, kind)
      /\ GoodAfter(q, 1, s, a, kind) => \E j \in DOMAIN r : Good(r[j], s, a, kind)
  BY <1>1, TailFollows DEF QueuedNodes, QueuedNode
<1> HIDE DEF r
<1>4. Cover(cfg, nd, s, a, kind, T)
  <2>1. Closed(cfg, T)
    BY <1>1 DEF Cover, Closed
  <2>2. \A i \in DOMAIN q : Good(q[i], s, a, kind) => n \in T
    <3>1. \A i \in DOMAIN r : Good(r[i], s, a, kind) => n \in S
      BY <1>1, <1>2 DEF Cover
    <3>2. QED  BY <3>1, <1>3
  <2>3. ASSUME NEW m \in NodesOf(cfg), m # n
        PROVE  /\ ~nd[m].up => m \in T
               /\ \A i \in DOMAIN nd[m].inbox : Good(nd[m].inbox[i], s, a, kind) => m \in T
               /\ \A c \in NodesOf(cfg) : ToSend(nd[m], c, s, a, kind) => c \in T
    BY <1>2, <2>3 DEF Cover
  <2> HIDE DEF T
  <2>4. QED  BY <1>1, <2>1, <2>2, <2>3 DEF Cover
<1>5. SinksServed(cfg, nd, mk, s, a, T) /\ LowsFollowed(cfg, nd, s, a, kind, T)
  <2> HIDE DEF T
  <2>1. T \in SUBSET NodesOf(cfg)
    BY <1>1 DEF T
  <2>2. QED  BY <1>4, <2>1 DEF Promised
<1>6. \A m \in NodesOf(cfg) : Coming(cfg, nd, m, s, a, kind, T) => Coming(cfg, new, m, s, a, kind, S)
  <2>1. T \subseteq S \cup {n}
    OBVIOUS
  <2> HIDE DEF T
  <2>2. QED  BY <2>1, <1>1, <1>2 DEF Coming
<1>7. Coming(cfg, new, n, s, a, kind, S) => n \in S
  BY <1>1 DEF Coming, Cover, Closed
<1>8. \A j \in DOMAIN r : Good(r[j], s, a, kind) => n \in S
  BY <1>1, <1>2 DEF Cover
<1>9. Low(Head(q), s, a) => n \in S
  BY <1>1, <1>3, <1>5, <1>6, <1>7, <1>8 DEF LowsFollowed
<1>10. ASSUME NEW m \in Reachable(cfg, s), new[m].up
       PROVE  m \in S \/ At(new_mk, s, m, a)
  <2>1. m \in SinksOf(cfg) /\ m \in NodesOf(cfg)
    BY ReachesSinks DEF SinksOf, NodesOf
  <2>2. nd[m].up => m \in T \/ At(mk, s, m, a)
    BY <1>5 DEF SinksServed, At
  <2>3. CASE m # n
    BY <2>1, <2>2, <2>3, <1>2, <1>10
  <2>4. CASE m = n
    BY <2>2, <2>4, <1>9
  <2>5. QED  BY <2>3, <2>4
<1>11. LowsFollowed(cfg, new, s, a, kind, S)
  <2> HIDE DEF T
  <2>1. \A i \in DOMAIN r : Low(r[i], s, a) => GoodAfter(r, i, s, a, kind) \/ Coming(cfg, new, n, s, a, kind, S)
    BY <1>1, <1>3, <1>5, <1>6 DEF LowsFollowed
  <2>2. ASSUME NEW m \in NodesOf(cfg), new[m].up, m # n
        PROVE  /\ \A i \in DOMAIN new[m].inbox : Low(new[m].inbox[i], s, a) =>
                     GoodAfter(new[m].inbox, i, s, a, kind) \/ Coming(cfg, new, m, s, a, kind, S)
               /\ \A i \in DOMAIN new[m].out : Low(new[m].out[i], s, a) =>
                     GoodAfter(new[m].out, i, s, a, kind) \/ m \in S
    <3>1. T \subseteq S \cup {n}
      BY DEF T
    <3>2. QED  BY <1>2, <1>5, <1>6, <2>2, <3>1 DEF LowsFollowed
  <2>3. QED  BY <1>1, <1>2, <2>1, <2>2 DEF LowsFollowed
<1>12. QED  BY <1>10, <1>11 DEF SinksServed, At


-----------------------------------------------------------------------------
(* A fan-out sends a batch to one branch.                                    *)

\* The branches without the one at pos, by position.
LEMMA WithoutPositions ==
    ASSUME NEW live, IsSeq(live), NEW pos \in 1 .. Len(live)
    PROVE  /\ Len(live) \in Nat \ {0} /\ DOMAIN live = 1 .. Len(live)
           /\ IsSeq(Without(live, pos)) /\ Len(Without(live, pos)) = Len(live) - 1
           /\ DOMAIN Without(live, pos) = 1 .. Len(live) - 1
           /\ \A j \in 1 .. Len(live) - 1 : Without(live, pos)[j] = IF j < pos THEN live[j] ELSE live[j + 1]
<1>1. live \in Seq(Range(live)) /\ Len(live) \in Nat \ {0} /\ DOMAIN live = 1 .. Len(live)
  BY QueuePositions DEF IsSeq
<1> DEFINE a == SubSeq(live, 1, pos - 1)
           b == SubSeq(live, pos + 1, Len(live))
<1>2. /\ a \in Seq(Range(live)) /\ Len(a) = pos - 1 /\ \A j \in 1 .. pos - 1 : a[j] = live[j]
      /\ b \in Seq(Range(live)) /\ Len(b) = Len(live) - pos /\ \A j \in 1 .. Len(live) - pos : b[j] = live[pos + j]
  <2>1. \A m \in 1 .. Len(live) + 1, n \in 0 .. Len(live) : m <= n + 1 =>
           /\ SubSeq(live, m, n) \in Seq(Range(live)) /\ Len(SubSeq(live, m, n)) = n - m + 1
           /\ \A j \in 1 .. n - m + 1 : SubSeq(live, m, n)[j] = live[m + j - 1]
    BY <1>1
  <2>2. a \in Seq(Range(live)) /\ Len(a) = pos - 1 /\ \A j \in 1 .. pos - 1 : a[j] = live[j]
    <3>1. 1 \in 1 .. Len(live) + 1 /\ pos - 1 \in 0 .. Len(live) /\ 1 <= (pos - 1) + 1 /\ (pos - 1) - 1 + 1 = pos - 1
      BY <1>1
    <3>2. \A j \in 1 .. pos - 1 : 1 + j - 1 = j
      OBVIOUS
    <3>3. QED  BY <2>1, <3>1, <3>2
  <2>3. b \in Seq(Range(live)) /\ Len(b) = Len(live) - pos /\ \A j \in 1 .. Len(live) - pos : b[j] = live[pos + j]
    <3> DEFINE m == pos + 1
               n == Len(live)
    <3>1. m \in 1 .. Len(live) + 1 /\ n \in 0 .. Len(live) /\ m <= n + 1 /\ n - m + 1 = n - pos
      BY <1>1
    <3>2. \A j \in 1 .. n - m + 1 : m + j - 1 = pos + j
      BY <1>1
    <3> HIDE DEF m, n
    <3>3. /\ SubSeq(live, m, n) \in Seq(Range(live)) /\ Len(SubSeq(live, m, n)) = n - m + 1
          /\ \A j \in 1 .. n - m + 1 : SubSeq(live, m, n)[j] = live[m + j - 1]
      BY <2>1, <3>1
    <3>4. b = SubSeq(live, m, n)
      BY DEF m, n
    <3> HIDE DEF b
    <3>5. b \in Seq(Range(live)) /\ Len(b) = n - pos /\ \A j \in 1 .. n - pos : b[j] = live[pos + j]
      BY <3>1, <3>2, <3>3, <3>4
    <3>6. QED  BY <3>5 DEF n
  <2>4. QED  BY <2>2, <2>3
<1> HIDE DEF a, b
<1> DEFINE ab == a \o b
<1>3. /\ ab \in Seq(Range(live)) /\ DOMAIN ab = 1 .. Len(live) - 1 /\ Len(ab) = Len(live) - 1
      /\ \A j \in 1 .. pos - 1 : ab[j] = a[j]
      /\ \A j \in 1 .. Len(live) - pos : ab[(pos - 1) + j] = b[j]
  <2>1. /\ ab \in Seq(Range(live)) /\ DOMAIN ab = 1 .. Len(a) + Len(b) /\ Len(ab) = Len(a) + Len(b)
        /\ \A j \in 1 .. Len(a) : ab[j] = a[j]
        /\ \A j \in 1 .. Len(b) : ab[Len(a) + j] = b[j]
    <3> DEFINE S == Range(live)
    <3>1. a \in Seq(S) /\ b \in Seq(S)
      BY <1>2
    <3> HIDE DEF S
    <3>2. ab \in Seq(S) /\ DOMAIN ab = 1 .. Len(a) + Len(b) /\ Len(ab) = Len(a) + Len(b)
      BY <3>1, Concatenated
    <3>3. \A j \in 1 .. Len(a) : ab[j] = a[j]
      BY <3>1, Concatenated
    <3>4. \A j \in 1 .. Len(b) : ab[Len(a) + j] = b[j]
      BY <3>1, Concatenated
    <3> HIDE DEF ab
    <3>5. QED  BY <3>2, <3>3, <3>4 DEF S
  <2> HIDE DEF ab
  <2>2. Len(a) + Len(b) = Len(live) - 1
    BY <1>1, <1>2
  <2>3. QED  BY <2>1, <2>2, <1>2
<1> HIDE DEF ab
<1>4. ASSUME NEW j \in 1 .. Len(live) - 1  PROVE ab[j] = IF j < pos THEN live[j] ELSE live[j + 1]
  <2>1. CASE j < pos
    <3>1. j \in 1 .. pos - 1
      BY <2>1
    <3>2. QED  BY <3>1, <2>1, <1>2, <1>3
  <2>2. CASE ~(j < pos)
    <3> DEFINE k == j - (pos - 1)
    <3>1. k \in 1 .. Len(live) - pos /\ (pos - 1) + k = j /\ pos + k = j + 1
      BY <2>2, <1>1
    <3> HIDE DEF k
    <3>2. ab[(pos - 1) + k] = b[k] /\ b[k] = live[pos + k]
      BY <3>1, <1>2, <1>3
    <3>3. QED  BY <3>1, <3>2, <2>2
  <2>3. QED  BY <2>1, <2>2
<1>5. Without(live, pos) = ab
  BY DEF Without, a, b, ab
<1>6. QED  BY <1>1, <1>3, <1>4, <1>5, SeqIsSeq

\* The sender of a batch, before and after.
SenderAfter(me, mine, gone) ==
    /\ mine.live = LiveAfter(me, gone)
    /\ mine.pos = IF LastAfter(me, gone) THEN 1 ELSE PosAfter(me, gone)
    /\ mine.out = IF LiveAfter(me, gone) = <<>> THEN <<>> ELSE IF LastAfter(me, gone) THEN Tail(me.out) ELSE me.out
    /\ mine.inbox = IF LiveAfter(me, gone) = <<>> THEN <<>> ELSE me.inbox
    /\ mine.up = (LiveAfter(me, gone) # <<>>)
Sending(me) ==
    /\ IsSeq(me.live) /\ IsSeq(me.out) /\ me.out # <<>> /\ me.live # <<>> /\ me.pos \in 1 .. Len(me.live)

\* The branches that are left: all but one that is gone.
LEMMA BranchesLeft ==
    ASSUME NEW me, NEW mine, NEW gone \in BOOLEAN, Sending(me), SenderAfter(me, mine, gone)
    PROVE  /\ IsSeq(mine.live) /\ Range(mine.live) \subseteq Range(me.live)
           /\ \A c \in Range(me.live) : (c = me.live[me.pos] /\ gone) \/ c \in Range(mine.live)
           /\ me.live[me.pos] \in Range(me.live)
           /\ mine.pos = 1 \/ mine.pos \in 1 .. Len(mine.live)
           /\ mine.out = <<>> => mine.pos = 1
<1> USE DEF SenderAfter, Sending
<1> DEFINE live == me.live
           pos == me.pos
<1>1. Len(live) \in Nat /\ DOMAIN live = 1 .. Len(live) /\ pos \in 1 .. Len(live)
  BY QueuePositions
<1>2. live[pos] \in Range(live)
  BY <1>1 DEF Range
<1>3. CASE ~gone
  <2>1. mine.live = live /\ PosAfter(me, gone) = pos + 1
    BY <1>3 DEF LiveAfter, PosAfter
  <2>2. mine.pos = 1 \/ mine.pos \in 1 .. Len(mine.live)
    BY <1>1, <1>3, <2>1 DEF LastAfter, LiveAfter
  <2>3. mine.out = <<>> => LastAfter(me, gone)
    BY <2>1
  <2>4. QED  BY <1>2, <1>3, <2>1, <2>2, <2>3
<1>4. CASE gone
  <2> DEFINE r == Without(live, pos)
  <2>1. /\ IsSeq(r) /\ Len(r) = Len(live) - 1 /\ DOMAIN r = 1 .. Len(live) - 1
        /\ \A j \in 1 .. Len(live) - 1 : r[j] = IF j < pos THEN live[j] ELSE live[j + 1]
    BY WithoutPositions
  <2> HIDE DEF r
  <2>2. mine.live = r /\ PosAfter(me, gone) = pos /\ LiveAfter(me, gone) = r
    BY <1>4 DEF LiveAfter, PosAfter, r
  <2>3. ASSUME NEW j \in DOMAIN r  PROVE r[j] \in Range(live)
    BY <2>1, <1>1 DEF Range
  <2>4. ASSUME NEW j \in DOMAIN live, j # pos  PROVE live[j] \in Range(r)
    <3>1. CASE j < pos
      <4>1. j \in DOMAIN r /\ r[j] = live[j]
        BY <3>1, <2>1, <1>1
      <4>2. QED  BY <4>1 DEF Range
    <3>2. CASE j > pos
      <4>1. j - 1 \in DOMAIN r /\ r[j - 1] = live[j]
        BY <3>2, <2>1, <1>1
      <4>2. QED  BY <4>1 DEF Range
    <3>3. QED  BY <3>1, <3>2, <1>1, <2>4
  <2>5. Range(r) \subseteq Range(live) /\ \A c \in Range(live) : c = live[pos] \/ c \in Range(r)
    BY <2>3, <2>4 DEF Range
  <2>6. mine.pos = 1 \/ mine.pos \in 1 .. Len(r)
    BY <2>1, <2>2, <1>1 DEF LastAfter
  <2>7. mine.out = <<>> => LastAfter(me, gone)
    <3>1. r = <<>> => LastAfter(me, gone)
      BY <2>1, <2>2, <1>1 DEF LastAfter
    <3>2. QED  BY <3>1, <2>2
  <2>8. QED  BY <1>2, <1>4, <2>1, <2>2, <2>5, <2>6, <2>7
<1>5. QED  BY <1>3, <1>4


\* What a fan-out still has to send after one send: what it had, but for what
\* the branch got, or no longer gets.
LEMMA SenderSends ==
    ASSUME NEW me, NEW mine, NEW gone \in BOOLEAN, Sending(me), SenderAfter(me, mine, gone),
           NEW c, NEW s, NEW a, NEW kind, ToSend(me, c, s, a, kind)
    PROVE  ToSend(mine, c, s, a, kind) \/ (c = me.live[me.pos] /\ (gone \/ Good(Head(me.out), s, a, kind)))
<1> DEFINE live == me.live
           pos == me.pos
           out == me.out
           rest == Tail(out)
           last == LastAfter(me, gone)
           after == LiveAfter(me, gone)
<1>1. PICK i \in DOMAIN out, j \in DOMAIN live : Good(out[i], s, a, kind) /\ live[j] = c /\ (i = 1 => pos <= j)
  BY DEF ToSend
<1>2. /\ Len(live) \in Nat /\ DOMAIN live = 1 .. Len(live) /\ pos \in 1 .. Len(live)
      /\ Head(out) = out[1]
      /\ i = 1 \/ (i - 1 \in DOMAIN rest /\ rest[i - 1] = out[i])
  BY QueuePositions, TailFollows DEF Sending
<1> HIDE DEF rest
<1>3. ASSUME i = 1, j = pos, ~gone  PROVE Good(Head(out), s, a, kind)
  BY <1>1, <1>2, <1>3
<1>4. ASSUME after # <<>>, NEW k \in DOMAIN after, after[k] = c, i = 1 => PosAfter(me, gone) <= k /\ ~last
      PROVE  ToSend(mine, c, s, a, kind)
  <2>1. mine.live = after
    BY DEF SenderAfter
  <2>2. CASE last
    <3>1. i # 1 /\ mine.pos = 1 /\ mine.out = rest
      BY <1>4, <2>2 DEF SenderAfter, rest
    <3>2. 1 <= k
      <4>1. IsSeq(after)
        BY BranchesLeft, <2>1
      <4>2. QED  BY <4>1, QueuePositions
    <3>3. QED  BY <1>1, <1>2, <1>4, <2>1, <3>1, <3>2 DEF ToSend
  <2>3. CASE ~last
    <3>1. mine.pos = PosAfter(me, gone) /\ mine.out = out
      BY <1>4, <2>3 DEF SenderAfter
    <3>2. QED  BY <1>1, <1>4, <2>1, <3>1 DEF ToSend
  <2>4. QED  BY <2>2, <2>3
<1>5. CASE gone
  <2>1. CASE j = pos
    BY <1>1, <1>5, <2>1
  <2>2. CASE j # pos
    <3> DEFINE k == IF j < pos THEN j ELSE j - 1
    <3>1. /\ IsSeq(after) /\ Len(after) = Len(live) - 1 /\ DOMAIN after = 1 .. Len(live) - 1
          /\ \A x \in 1 .. Len(live) - 1 : after[x] = IF x < pos THEN live[x] ELSE live[x + 1]
      BY <1>5, WithoutPositions DEF Sending, LiveAfter
    <3> HIDE DEF after
    <3>2. k \in DOMAIN after /\ after[k] = live[j]
      BY <1>2, <2>2, <3>1
    <3>3. after # <<>>
      BY <3>1, <3>2, QueuePositions
    <3>4. ASSUME i = 1  PROVE PosAfter(me, gone) <= k /\ ~last
      <4>1. pos <= k /\ k <= Len(after)
        BY <1>1, <1>2, <2>2, <3>1, <3>4
      <4>2. PosAfter(me, gone) = pos
        BY <1>5 DEF PosAfter
      <4>3. QED  BY <1>2, <3>1, <3>2, <4>1, <4>2 DEF LastAfter, after
    <3> HIDE DEF k, last
    <3>5. QED  BY <1>1, <1>4, <3>2, <3>3, <3>4
  <2>3. QED  BY <2>1, <2>2
<1>6. CASE ~gone
  <2>1. after = live /\ PosAfter(me, gone) = pos + 1
    BY <1>6 DEF LiveAfter, PosAfter
  <2>2. CASE i = 1 /\ j = pos
    BY <1>1, <1>3, <1>6, <2>2
  <2>3. CASE ~(i = 1 /\ j = pos)
    <3>1. i = 1 => PosAfter(me, gone) <= j /\ ~last
      BY <1>1, <1>2, <2>1, <2>3 DEF LastAfter
    <3>2. live # <<>>
      BY DEF Sending
    <3> HIDE DEF after, last
    <3>3. QED  BY <1>1, <1>4, <2>1, <3>1, <3>2
  <2>4. QED  BY <2>2, <2>3
<1>7. QED  BY <1>5, <1>6


\* What it still holds was there before, with as much behind it.
LEMMA SenderHolds ==
    ASSUME NEW me, NEW mine, NEW gone \in BOOLEAN, Sending(me), SenderAfter(me, mine, gone), NEW s, NEW a, NEW kind
    PROVE  /\ \A i \in DOMAIN mine.out :
                 \E k \in DOMAIN me.out : /\ me.out[k] = mine.out[i]
                                          /\ GoodAfter(me.out, k, s, a, kind) => GoodAfter(mine.out, i, s, a, kind)
           /\ \A i \in DOMAIN mine.inbox : mine.inbox = me.inbox
           /\ 1 \in DOMAIN me.out /\ Head(me.out) = me.out[1]
<1> DEFINE out == me.out
           rest == Tail(out)
<1>1. /\ 1 \in DOMAIN out /\ Head(out) = out[1]
      /\ \A i \in DOMAIN rest : i + 1 \in DOMAIN out /\ rest[i] = out[i + 1]
      /\ \A i \in DOMAIN rest : GoodAfter(out, i + 1, s, a, kind) => GoodAfter(rest, i, s, a, kind)
  BY TailFollows DEF Sending
<1>2. mine.out = <<>> \/ mine.out = rest \/ mine.out = out
  BY DEF SenderAfter
<1>3. mine.inbox = <<>> \/ mine.inbox = me.inbox
  BY DEF SenderAfter
<1> HIDE DEF rest
<1>4. ASSUME NEW i \in DOMAIN mine.out
      PROVE  \E k \in DOMAIN out : out[k] = mine.out[i] /\ (GoodAfter(out, k, s, a, kind) => GoodAfter(mine.out, i, s, a, kind))
  <2>1. CASE mine.out = <<>>
    BY <2>1, <1>4
  <2>2. CASE mine.out = rest
    BY <2>2, <1>1, <1>4
  <2>3. CASE mine.out = out
    BY <2>3, <1>4
  <2>4. QED  BY <1>2, <2>1, <2>2, <2>3
<1>5. QED  BY <1>1, <1>3, <1>4

\* What is good behind the batch that was sent goes to the same branch.
LEMMA SenderFollows ==
    ASSUME NEW me, NEW mine, NEW gone \in BOOLEAN, Sending(me), SenderAfter(me, mine, gone), NEW s, NEW a, NEW kind,
           ~gone, GoodAfter(me.out, 1, s, a, kind)
    PROVE  ToSend(mine, me.live[me.pos], s, a, kind)
<1> DEFINE out == me.out
<1>1. PICK i \in DOMAIN out : 1 < i /\ Good(out[i], s, a, kind)
  BY DEF GoodAfter
<1>2. me.pos \in DOMAIN me.live
  BY QueuePositions DEF Sending
<1>3. \A j \in DOMAIN me.live : 1 <= j
  BY QueuePositions DEF Sending
<1>4. /\ mine.live = me.live
      /\ mine.out = out \/ (mine.out = Tail(out) /\ mine.pos = 1)
  BY DEF SenderAfter, LiveAfter, Sending
<1>5. CASE mine.out = out
  BY <1>1, <1>2, <1>4, <1>5 DEF ToSend
<1>6. CASE mine.out = Tail(out) /\ mine.pos = 1
  <2>1. i - 1 \in DOMAIN Tail(out) /\ Tail(out)[i - 1] = out[i]
    <3>1. i = 1 \/ (i - 1 \in DOMAIN Tail(out) /\ Tail(out)[i - 1] = out[i])
      BY TailFollows DEF Sending
    <3>2. i # 1
      BY <1>1
    <3>3. QED  BY <3>1, <3>2
  <2>2. QED  BY <1>1, <1>2, <1>3, <1>4, <1>6, <2>1 DEF ToSend
<1>7. QED  BY <1>4, <1>5, <1>6

\* One send in the graph: n sends to a branch, or finds it gone.
FanSent(cfg, nd, new, n, to, gone) ==
    /\ to = nd[n].live[nd[n].pos] /\ to # n /\ gone = ~nd[to].up
    /\ SenderAfter(nd[n], new[n], gone)
    /\ \A m \in NodesOf(cfg) \ {n, to} : new[m] = nd[m]
    /\ new[to].inbox = IF gone THEN nd[to].inbox ELSE Append(nd[to].inbox, Head(nd[n].out))
    /\ new[to].out = nd[to].out /\ new[to].live = nd[to].live /\ new[to].pos = nd[to].pos /\ new[to].up = nd[to].up

\* Who is up after a send: all that were, but for a sender without branches,
\* whose branches are all down.
LEMMA UpAfterSend ==
    ASSUME NEW cfg, CfgOk(cfg), NEW nd, NEW new, QueuedNodes(cfg, nd), WiredNodes(cfg, nd),
           NEW n \in NodesOf(cfg), NEW to, NEW gone \in BOOLEAN, FanSent(cfg, nd, new, n, to, gone), Sending(nd[n]), nd[n].up
    PROVE  /\ to \in Feeds(cfg, n) /\ to \in NodesOf(cfg) /\ n \notin Feeds(cfg, n)
           /\ \A m \in NodesOf(cfg) : new[m].up => nd[m].up
           /\ \A m \in NodesOf(cfg) \ {n} : nd[m].up => new[m].up
           /\ ~gone => new[n].up
           /\ \A c \in Feeds(cfg, n) : nd[c].up => new[n].up
<1>1. /\ IsSeq(new[n].live) /\ Range(new[n].live) \subseteq Range(nd[n].live)
      /\ \A c \in Range(nd[n].live) : (c = to /\ gone) \/ c \in Range(new[n].live)
      /\ to \in Range(nd[n].live)
  BY BranchesLeft DEF FanSent
<1>2. WiredNode(cfg, nd, n)
  BY DEF WiredNodes
<1>3. to \in Feeds(cfg, n) /\ to \in NodesOf(cfg) /\ n \notin Feeds(cfg, n) /\ Feeds(cfg, n) \subseteq NodesOf(cfg)
  BY <1>1, <1>2, FeedsOk DEF WiredNode
<1>4. new[n].up = (new[n].live # <<>>)
  BY DEF FanSent, SenderAfter
<1>5. \A m \in NodesOf(cfg) \ {n} : new[m].up = nd[m].up
  BY DEF FanSent
<1>6. ~gone => new[n].up
  <2>1. ~gone => to \in Range(new[n].live)
    BY <1>1
  <2>2. new[n].live = <<>> => Range(new[n].live) = {}
    BY <1>1, QueuePositions
  <2>3. QED  BY <1>4, <2>1, <2>2
<1>7. ASSUME NEW c \in Feeds(cfg, n), nd[c].up  PROVE new[n].up
  <2>1. c \in Range(nd[n].live)
    BY <1>2, <1>7 DEF WiredNode
  <2>2. c = to => ~gone
    BY <1>7 DEF FanSent
  <2>3. c \in Range(new[n].live)
    BY <1>1, <2>1, <2>2
  <2>4. new[n].live # <<>>
    BY <2>3, <1>1, QueuePositions
  <2>5. QED  BY <2>4, <1>4
<1>8. QED  BY <1>3, <1>5, <1>6, <1>7


\* A send leaves the graph wired.
LEMMA SentWired ==
    ASSUME NEW cfg, CfgOk(cfg), NEW nd, NEW new, QueuedNodes(cfg, nd), WiredNodes(cfg, nd),
           NEW n \in NodesOf(cfg), NEW to, NEW gone \in BOOLEAN, FanSent(cfg, nd, new, n, to, gone), Sending(nd[n]), nd[n].up
    PROVE  WiredNodes(cfg, new)
<1>1. /\ to \in Feeds(cfg, n) /\ to \in NodesOf(cfg) /\ n \notin Feeds(cfg, n)
      /\ \A m \in NodesOf(cfg) : new[m].up => nd[m].up
      /\ \A m \in NodesOf(cfg) \ {n} : nd[m].up => new[m].up
      /\ ~gone => new[n].up
      /\ \A c \in Feeds(cfg, n) : nd[c].up => new[n].up
  BY UpAfterSend
<1>2. \A m \in NodesOf(cfg) : Feeds(cfg, m) \subseteq NodesOf(cfg)
  BY FeedsOk
<1>3. \A m \in NodesOf(cfg) : WiredNode(cfg, nd, m) /\ IsSeq(nd[m].inbox)
  BY DEF WiredNodes, QueuedNodes, QueuedNode
<1>4. ASSUME NEW m \in NodesOf(cfg), m \notin {n, to}  PROVE WiredNode(cfg, new, m)
  BY <1>1, <1>2, <1>3, <1>4 DEF WiredNode, FanSent
<1>5. /\ \A i \in DOMAIN new[n].out : \E k \in DOMAIN nd[n].out : nd[n].out[k] = new[n].out[i]
      /\ \A i \in DOMAIN new[n].inbox : new[n].inbox = nd[n].inbox
      /\ 1 \in DOMAIN nd[n].out /\ Head(nd[n].out) = nd[n].out[1]
  <2>1. SenderAfter(nd[n], new[n], gone)
    BY DEF FanSent
  <2>2. \A s, a, kind :
           /\ \A i \in DOMAIN new[n].out :
                 \E k \in DOMAIN nd[n].out :
                    /\ nd[n].out[k] = new[n].out[i]
                    /\ GoodAfter(nd[n].out, k, s, a, kind) => GoodAfter(new[n].out, i, s, a, kind)
           /\ \A i \in DOMAIN new[n].inbox : new[n].inbox = nd[n].inbox
           /\ 1 \in DOMAIN nd[n].out /\ Head(nd[n].out) = nd[n].out[1]
    BY <2>1, SenderHolds
  <2>3. QED  BY <2>2, Zenon
<1>6. WiredNode(cfg, new, n)
  <2>1. /\ Range(new[n].live) \subseteq Range(nd[n].live)
        /\ \A c \in Range(nd[n].live) : (c = to /\ gone) \/ c \in Range(new[n].live)
        /\ new[n].out = <<>> => new[n].pos = 1
    BY BranchesLeft DEF FanSent
  <2>2. Range(new[n].live) \subseteq Feeds(cfg, n)
    BY <1>3, <2>1 DEF WiredNode
  <2>3. ASSUME NEW c \in Feeds(cfg, n), new[c].up  PROVE c \in Range(new[n].live)
    <3>1. nd[c].up /\ c \in Range(nd[n].live)
      BY <1>1, <1>2, <1>3, <2>3 DEF WiredNode
    <3>2. QED  BY <3>1, <2>1 DEF FanSent
  <2>4. new[n].up \/ new[n].live = <<>>
    BY DEF FanSent, SenderAfter
  <2>5. \A i \in DOMAIN new[n].inbox : Below(cfg, new[n].inbox[i].source, n)
    BY <1>3, <1>5 DEF WiredNode
  <2>6. \A i \in DOMAIN new[n].out : new[n].out[i].source = n \/ Below(cfg, new[n].out[i].source, n)
    BY <1>3, <1>5 DEF WiredNode
  <2>7. QED  BY <2>1, <2>2, <2>3, <2>4, <2>5, <2>6 DEF WiredNode
<1> DEFINE h == Head(nd[n].out)
<1>7. Below(cfg, h.source, to)
  <2>1. h.source = n \/ Below(cfg, h.source, n)
    BY <1>3, <1>5 DEF WiredNode
  <2>2. QED  BY <2>1, <1>1 DEF Below, Closed
<1>8. WiredNode(cfg, new, to)
  <2> DEFINE q == nd[to].inbox
             r == Append(q, h)
  <2>1. \A i \in DOMAIN q : Below(cfg, q[i].source, to)
    BY <1>1, <1>3 DEF WiredNode
  <2>2. /\ DOMAIN r = 1 .. Len(q) + 1 /\ DOMAIN q = 1 .. Len(q) /\ Len(q) \in Nat
        /\ (\A i \in 1 .. Len(q) : r[i] = q[i]) /\ r[Len(q) + 1] = h
    BY <1>1, <1>3, AppendPositions
  <2> HIDE DEF r
  <2>3. ASSUME NEW i \in DOMAIN r  PROVE Below(cfg, r[i].source, to)
    <3>1. CASE i = Len(q) + 1
      BY <3>1, <2>2, <1>7
    <3>2. CASE i # Len(q) + 1
      BY <3>2, <2>1, <2>2
    <3>3. QED  BY <3>1, <3>2
  <2>4. new[to].inbox = q \/ new[to].inbox = r
    BY DEF FanSent, r
  <2>5. \A i \in DOMAIN new[to].inbox : Below(cfg, new[to].inbox[i].source, to)
    <3> HIDE DEF q
    <3>1. QED  BY <2>1, <2>3, <2>4
  <2>6. WiredNode(cfg, nd, to)
    BY <1>1, <1>3
  <2>7. \A c \in Feeds(cfg, to) : new[c].up => nd[c].up
    BY <1>1, <1>2
  <2>8. QED  BY <2>5, <2>6, <2>7 DEF WiredNode, FanSent
<1>9. QED  BY <1>4, <1>6, <1>8 DEF WiredNodes


\* A set that covers what is on its way after a send covers what was before.
LEMMA SentCover ==
    ASSUME NEW cfg, CfgOk(cfg), NEW nd, NEW new, QueuedNodes(cfg, nd), WiredNodes(cfg, nd),
           NEW n \in NodesOf(cfg), NEW to, NEW gone \in BOOLEAN, FanSent(cfg, nd, new, n, to, gone), Sending(nd[n]), nd[n].up,
           NEW s, NEW a, NEW kind, NEW S, Cover(cfg, new, s, a, kind, S)
    PROVE  Cover(cfg, nd, s, a, kind, S)
<1>1. /\ to \in Feeds(cfg, n) /\ to \in NodesOf(cfg) /\ n \notin Feeds(cfg, n)
      /\ \A m \in NodesOf(cfg) : new[m].up => nd[m].up
      /\ \A m \in NodesOf(cfg) \ {n} : nd[m].up => new[m].up
      /\ ~gone => new[n].up
      /\ \A c \in Feeds(cfg, n) : nd[c].up => new[n].up
  BY UpAfterSend
<1>2. SenderAfter(nd[n], new[n], gone) /\ to = nd[n].live[nd[n].pos] /\ to # n /\ gone = ~nd[to].up
  BY DEF FanSent
<1> DEFINE h == Head(nd[n].out)
           q == nd[to].inbox
           r == Append(q, h)
<1>3. /\ DOMAIN r = 1 .. Len(q) + 1 /\ DOMAIN q = 1 .. Len(q) /\ Len(q) \in Nat
      /\ (\A i \in 1 .. Len(q) : r[i] = q[i]) /\ r[Len(q) + 1] = h
  BY <1>1, AppendPositions DEF QueuedNodes, QueuedNode
<1>4. new[to].inbox = IF gone THEN q ELSE r
  BY DEF FanSent
<1> HIDE DEF r
<1>5. \A i \in DOMAIN q : i \in DOMAIN new[to].inbox /\ new[to].inbox[i] = q[i]
  <2> HIDE DEF q
  <2>1. \A i \in DOMAIN q : i \in DOMAIN r /\ r[i] = q[i]
    BY <1>3
  <2>2. QED  BY <2>1, <1>4
<1>6. ~gone /\ Good(h, s, a, kind) => to \in S
  <2>1. Len(q) + 1 \in DOMAIN r /\ r[Len(q) + 1] = h
    BY <1>3
  <2> HIDE DEF q, h
  <2>2. QED  BY <2>1, <1>1, <1>4 DEF Cover
<1>7. gone => to \in S
  BY <1>1, <1>2 DEF Cover
<1>8. ASSUME NEW c \in NodesOf(cfg), ToSend(nd[n], c, s, a, kind)  PROVE c \in S
  <2>1. ToSend(new[n], c, s, a, kind) \/ (c = to /\ (gone \/ Good(h, s, a, kind)))
    BY <1>2, <1>8, SenderSends
  <2>2. ToSend(new[n], c, s, a, kind) => c \in S
    BY DEF Cover
  <2> HIDE DEF h
  <2>3. QED  BY <2>1, <2>2, <1>6, <1>7
<1>9. ~nd[n].up => n \in S
  BY <1>1 DEF Cover
<1>10. \A i \in DOMAIN nd[n].inbox : Good(nd[n].inbox[i], s, a, kind) => n \in S
  <2>1. new[n].inbox = nd[n].inbox \/ ~new[n].up
    BY <1>2 DEF SenderAfter
  <2>2. QED  BY <2>1 DEF Cover
<1>11. ASSUME NEW m \in NodesOf(cfg), m # n
       PROVE  /\ ~nd[m].up => m \in S
              /\ \A i \in DOMAIN nd[m].inbox : Good(nd[m].inbox[i], s, a, kind) => m \in S
              /\ \A c \in NodesOf(cfg) : ToSend(nd[m], c, s, a, kind) => c \in S
  <2>1. ~nd[m].up => m \in S
    BY <1>1, <1>11 DEF Cover
  <2>2. \A i \in DOMAIN nd[m].inbox : Good(nd[m].inbox[i], s, a, kind) => m \in S
    <3>1. CASE m = to
      BY <3>1, <1>5 DEF Cover
    <3>2. CASE m # to
      BY <3>2, <1>11 DEF Cover, FanSent
    <3>3. QED  BY <3>1, <3>2
  <2>3. \A c \in NodesOf(cfg) : ToSend(nd[m], c, s, a, kind) => ToSend(new[m], c, s, a, kind)
    BY <1>11 DEF ToSend, FanSent
  <2>4. QED  BY <2>1, <2>2, <2>3 DEF Cover
<1>12. QED  BY <1>8, <1>9, <1>10, <1>11 DEF Cover

\* What was still to come to a node that is up is so after a send, or has just
\* come to it.
LEMMA SentComing ==
    ASSUME NEW cfg, CfgOk(cfg), NEW nd, NEW new, QueuedNodes(cfg, nd), WiredNodes(cfg, nd),
           NEW n \in NodesOf(cfg), NEW to, NEW gone \in BOOLEAN, FanSent(cfg, nd, new, n, to, gone), Sending(nd[n]), nd[n].up,
           NEW s, NEW a, NEW kind, NEW S
    PROVE  \A c \in NodesOf(cfg) : nd[c].up /\ Coming(cfg, nd, c, s, a, kind, S) =>
              Coming(cfg, new, c, s, a, kind, S) \/ (c = to /\ ~gone /\ Good(Head(nd[n].out), s, a, kind))
<1>1. /\ to \in Feeds(cfg, n) /\ to \in NodesOf(cfg) /\ n \notin Feeds(cfg, n)
      /\ \A m \in NodesOf(cfg) : new[m].up => nd[m].up
      /\ \A m \in NodesOf(cfg) \ {n} : nd[m].up => new[m].up
      /\ ~gone => new[n].up
      /\ \A c \in Feeds(cfg, n) : nd[c].up => new[n].up
  BY UpAfterSend
<1> SUFFICES ASSUME NEW c \in NodesOf(cfg), nd[c].up, Coming(cfg, nd, c, s, a, kind, S)
             PROVE  Coming(cfg, new, c, s, a, kind, S) \/ (c = to /\ ~gone /\ Good(Head(nd[n].out), s, a, kind))
  OBVIOUS
<1>2. SenderAfter(nd[n], new[n], gone) /\ to = nd[n].live[nd[n].pos] /\ to # n /\ gone = ~nd[to].up
  BY DEF FanSent
<1>3. PICK p \in NodesOf(cfg) : ToSend(nd[p], c, s, a, kind) \/ (p \in S /\ nd[p].up /\ c \in Feeds(cfg, p))
  BY DEF Coming
<1>4. CASE ToSend(nd[p], c, s, a, kind) /\ p # n
  <2>1. ToSend(new[p], c, s, a, kind)
    BY <1>4 DEF ToSend, FanSent
  <2>2. QED  BY <2>1 DEF Coming
<1>5. CASE ToSend(nd[p], c, s, a, kind) /\ p = n
  <2>1. ToSend(new[n], c, s, a, kind) \/ (c = to /\ (gone \/ Good(Head(nd[n].out), s, a, kind)))
    BY <1>2, <1>5, SenderSends
  <2>2. c = to => ~gone
    BY <1>2
  <2>3. QED  BY <2>1, <2>2 DEF Coming
<1>6. CASE p \in S /\ nd[p].up /\ c \in Feeds(cfg, p)
  <2>1. new[p].up
    BY <1>1, <1>6
  <2>2. QED  BY <2>1, <1>6 DEF Coming
<1>7. QED  BY <1>3, <1>4, <1>5, <1>6


\* What was promised before a send is promised after it.
LEMMA SentPromised ==
    ASSUME NEW cfg, CfgOk(cfg), NEW nd, NEW new, QueuedNodes(cfg, nd), WiredNodes(cfg, nd),
           NEW n \in NodesOf(cfg), NEW to, NEW gone \in BOOLEAN, FanSent(cfg, nd, new, n, to, gone), Sending(nd[n]), nd[n].up,
           n \notin SinksOf(cfg), NEW mk, NEW s, NEW a, NEW kind, Promised(cfg, nd, mk, s, a, kind)
    PROVE  Promised(cfg, new, mk, s, a, kind)
<1>1. /\ to \in Feeds(cfg, n) /\ to \in NodesOf(cfg) /\ n \notin Feeds(cfg, n)
      /\ \A m \in NodesOf(cfg) : new[m].up => nd[m].up
      /\ \A m \in NodesOf(cfg) \ {n} : nd[m].up => new[m].up
      /\ ~gone => new[n].up
      /\ \A c \in Feeds(cfg, n) : nd[c].up => new[n].up
  BY UpAfterSend
<1>2. SenderAfter(nd[n], new[n], gone) /\ to = nd[n].live[nd[n].pos] /\ to # n /\ gone = ~nd[to].up
  BY DEF FanSent
<1> SUFFICES ASSUME NEW S \in SUBSET NodesOf(cfg), Cover(cfg, new, s, a, kind, S)
             PROVE  SinksServed(cfg, new, mk, s, a, S) /\ LowsFollowed(cfg, new, s, a, kind, S)
  BY DEF Promised
<1>3. SinksServed(cfg, nd, mk, s, a, S) /\ LowsFollowed(cfg, nd, s, a, kind, S)
  BY SentCover DEF Promised
<1>4. SinksServed(cfg, new, mk, s, a, S)
  <2>1. \A m \in Reachable(cfg, s) : m \in NodesOf(cfg)
    BY ReachesSinks DEF SinksOf, NodesOf
  <2>2. QED  BY <1>1, <1>3, <2>1 DEF SinksServed
<1> DEFINE h == Head(nd[n].out)
<1>5. \A c \in NodesOf(cfg) : nd[c].up /\ Coming(cfg, nd, c, s, a, kind, S) =>
         Coming(cfg, new, c, s, a, kind, S) \/ (c = to /\ ~gone /\ Good(h, s, a, kind))
  BY SentComing
<1>6. /\ \A i \in DOMAIN new[n].out :
            \E k \in DOMAIN nd[n].out :
               /\ nd[n].out[k] = new[n].out[i]
               /\ GoodAfter(nd[n].out, k, s, a, kind) => GoodAfter(new[n].out, i, s, a, kind)
      /\ \A i \in DOMAIN new[n].inbox : new[n].inbox = nd[n].inbox
      /\ 1 \in DOMAIN nd[n].out /\ h = nd[n].out[1]
  <2> DEFINE me == nd[n]
             mine == new[n]
  <2>1. Sending(me) /\ SenderAfter(me, mine, gone)
    BY <1>2
  <2> HIDE DEF me, mine
  <2>2. /\ \A i \in DOMAIN mine.out :
              \E k \in DOMAIN me.out : /\ me.out[k] = mine.out[i]
                                       /\ GoodAfter(me.out, k, s, a, kind) => GoodAfter(mine.out, i, s, a, kind)
        /\ \A i \in DOMAIN mine.inbox : mine.inbox = me.inbox
        /\ 1 \in DOMAIN me.out /\ Head(me.out) = me.out[1]
    BY <2>1, SenderHolds
  <2>3. QED  BY <2>2 DEF me, mine
<1>7. ASSUME new[n].up
      PROVE  /\ \A i \in DOMAIN new[n].inbox : Low(new[n].inbox[i], s, a) =>
                   GoodAfter(new[n].inbox, i, s, a, kind) \/ Coming(cfg, new, n, s, a, kind, S)
             /\ \A i \in DOMAIN new[n].out : Low(new[n].out[i], s, a) =>
                   GoodAfter(new[n].out, i, s, a, kind) \/ n \in S
  <2>1. \A i \in DOMAIN nd[n].inbox : Low(nd[n].inbox[i], s, a) =>
           GoodAfter(nd[n].inbox, i, s, a, kind) \/ Coming(cfg, new, n, s, a, kind, S)
    BY <1>2, <1>3, <1>5 DEF LowsFollowed
  <2>2. \A k \in DOMAIN nd[n].out : Low(nd[n].out[k], s, a) => GoodAfter(nd[n].out, k, s, a, kind) \/ n \in S
    BY <1>3 DEF LowsFollowed
  <2> HIDE DEF h
  <2>3. \A i \in DOMAIN new[n].inbox : Low(new[n].inbox[i], s, a) =>
           GoodAfter(new[n].inbox, i, s, a, kind) \/ Coming(cfg, new, n, s, a, kind, S)
    BY <1>6, <2>1
  <2>4. ASSUME NEW i \in DOMAIN new[n].out, Low(new[n].out[i], s, a)
        PROVE  GoodAfter(new[n].out, i, s, a, kind) \/ n \in S
    BY <1>6, <2>2, <2>4
  <2>5. QED  BY <2>3, <2>4
<1>8. ASSUME NEW m \in NodesOf(cfg), new[m].up, m # n, m # to
      PROVE  /\ \A i \in DOMAIN new[m].inbox : Low(new[m].inbox[i], s, a) =>
                   GoodAfter(new[m].inbox, i, s, a, kind) \/ Coming(cfg, new, m, s, a, kind, S)
             /\ \A i \in DOMAIN new[m].out : Low(new[m].out[i], s, a) =>
                   GoodAfter(new[m].out, i, s, a, kind) \/ m \in S
  <2>1. new[m] = nd[m]
    BY <1>8 DEF FanSent
  <2> HIDE DEF h
  <2>2. QED  BY <1>3, <1>5, <1>8, <2>1 DEF LowsFollowed
<1>9. ASSUME new[to].up
      PROVE  /\ \A i \in DOMAIN new[to].inbox : Low(new[to].inbox[i], s, a) =>
                   GoodAfter(new[to].inbox, i, s, a, kind) \/ Coming(cfg, new, to, s, a, kind, S)
             /\ \A i \in DOMAIN new[to].out : Low(new[to].out[i], s, a) =>
                   GoodAfter(new[to].out, i, s, a, kind) \/ to \in S
  <2> DEFINE q == nd[to].inbox
             r == Append(q, h)
  <2>1. nd[to].up /\ ~gone /\ new[n].up
    BY <1>1, <1>2, <1>9
  <2>2. new[to].inbox = r /\ new[to].out = nd[to].out
    BY <2>1 DEF FanSent
  <2>3. /\ DOMAIN r = 1 .. Len(q) + 1 /\ DOMAIN q = 1 .. Len(q) /\ Len(q) \in Nat
        /\ (\A i \in 1 .. Len(q) : r[i] = q[i]) /\ r[Len(q) + 1] = h
    BY <1>1, AppendPositions DEF QueuedNodes, QueuedNode
  <2> HIDE DEF r
  <2>4. \A i \in DOMAIN q : GoodAfter(q, i, s, a, kind) => GoodAfter(r, i, s, a, kind)
    BY <2>3 DEF GoodAfter
  <2>5. Good(h, s, a, kind) => \A i \in DOMAIN q : GoodAfter(r, i, s, a, kind)
    <3>1. Len(q) + 1 \in DOMAIN r /\ \A i \in DOMAIN q : i < Len(q) + 1
      BY <2>3
    <3>2. QED  BY <2>3, <3>1 DEF GoodAfter
  <2>6. ASSUME NEW i \in DOMAIN q, Low(q[i], s, a)
        PROVE  GoodAfter(r, i, s, a, kind) \/ Coming(cfg, new, to, s, a, kind, S)
    <3>1. GoodAfter(q, i, s, a, kind) \/ Coming(cfg, nd, to, s, a, kind, S)
      BY <1>1, <1>3, <2>1, <2>6 DEF LowsFollowed
    <3> HIDE DEF h, q
    <3>2. QED  BY <1>1, <1>5, <2>1, <2>4, <2>5, <2>6, <3>1
  <2>7. ASSUME Low(h, s, a)  PROVE Coming(cfg, new, to, s, a, kind, S)
    <3>1. GoodAfter(nd[n].out, 1, s, a, kind) \/ n \in S
      BY <1>3, <1>6, <2>7 DEF LowsFollowed
    <3>2. CASE GoodAfter(nd[n].out, 1, s, a, kind)
      <4>1. ToSend(new[n], to, s, a, kind)
        BY <1>2, <2>1, <3>2, SenderFollows
      <4>2. QED  BY <4>1 DEF Coming
    <3>3. CASE n \in S
      BY <1>1, <2>1, <3>3 DEF Coming
    <3>4. QED  BY <3>1, <3>2, <3>3
  <2> HIDE DEF h
  <2>8. \A i \in DOMAIN r : Low(r[i], s, a) => GoodAfter(r, i, s, a, kind) \/ Coming(cfg, new, to, s, a, kind, S)
    <3>1. \A i \in DOMAIN r : (i \in DOMAIN q /\ r[i] = q[i]) \/ r[i] = h
      BY <2>3
    <3> HIDE DEF q
    <3>2. QED  BY <2>6, <2>7, <3>1
  <2>9. \A i \in DOMAIN nd[to].out : Low(nd[to].out[i], s, a) => GoodAfter(nd[to].out, i, s, a, kind) \/ to \in S
    BY <1>1, <1>3, <2>1 DEF LowsFollowed
  <2>10. QED  BY <2>2, <2>8, <2>9
<1> HIDE DEF h
<1>10. LowsFollowed(cfg, new, s, a, kind, S)
  BY <1>7, <1>8, <1>9 DEF LowsFollowed
<1>11. QED  BY <1>4, <1>10


-----------------------------------------------------------------------------
(* A source emits batches.                                                   *)

Emits(cfg, nd, new, s, bs) ==
    /\ \A m \in NodesOf(cfg) \ {s} : new[m] = nd[m]
    /\ new[s].out = nd[s].out \o bs
    /\ new[s].inbox = nd[s].inbox /\ new[s].live = nd[s].live /\ new[s].pos = nd[s].pos /\ new[s].up = nd[s].up

\* What is in the queue of a source that has emitted.
LEMMA EmittedQueue ==
    ASSUME NEW cfg, NEW nd, NEW new, QueuedNodes(cfg, nd), NEW s \in NodesOf(cfg), NEW bs, IsSeq(bs), Emits(cfg, nd, new, s, bs)
    PROVE  /\ IsSeq(nd[s].out) /\ Len(nd[s].out) \in Nat /\ Len(bs) \in Nat
           /\ DOMAIN nd[s].out = 1 .. Len(nd[s].out) /\ DOMAIN bs = 1 .. Len(bs)
           /\ DOMAIN new[s].out = 1 .. Len(nd[s].out) + Len(bs)
           /\ \A i \in 1 .. Len(nd[s].out) : new[s].out[i] = nd[s].out[i]
           /\ \A i \in 1 .. Len(bs) : new[s].out[Len(nd[s].out) + i] = bs[i]
           /\ \A i \in DOMAIN new[s].out :
                 (i \in DOMAIN nd[s].out /\ new[s].out[i] = nd[s].out[i]) \/ \E k \in DOMAIN bs : new[s].out[i] = bs[k]
<1> DEFINE p == nd[s].out
           r == new[s].out
<1>1. IsSeq(p) /\ r = p \o bs
  BY DEF QueuedNodes, QueuedNode, Emits
<1> HIDE DEF p, r
<1>2. /\ Len(p) \in Nat /\ Len(bs) \in Nat /\ DOMAIN p = 1 .. Len(p) /\ DOMAIN bs = 1 .. Len(bs)
      /\ DOMAIN r = 1 .. Len(p) + Len(bs)
      /\ \A i \in 1 .. Len(p) : r[i] = p[i]
      /\ \A i \in 1 .. Len(bs) : r[Len(p) + i] = bs[i]
  BY <1>1, JoinPositions
<1>3. ASSUME NEW i \in DOMAIN r, i \notin DOMAIN p  PROVE \E k \in DOMAIN bs : r[i] = bs[k]
  <2> DEFINE k == i - Len(p)
  <2>1. k \in 1 .. Len(bs) /\ Len(p) + k = i
    BY <1>2, <1>3
  <2> HIDE DEF k
  <2>2. r[Len(p) + k] = bs[k]
    BY <1>2, <2>1
  <2>3. QED  BY <1>2, <2>1, <2>2
<1>4. \A i \in DOMAIN r : i \in DOMAIN p => r[i] = p[i]
  BY <1>2
<1>5. QED  BY <1>1, <1>2, <1>3, <1>4 DEF p, r

\* The graph stays wired.
LEMMA EmittedWired ==
    ASSUME NEW cfg, CfgOk(cfg), NEW nd, NEW new, QueuedNodes(cfg, nd), WiredNodes(cfg, nd), NEW s \in NodesOf(cfg),
           NEW bs, IsSeq(bs), Emits(cfg, nd, new, s, bs), \A k \in DOMAIN bs : bs[k].source = s
    PROVE  WiredNodes(cfg, new)
<1>1. \A m \in NodesOf(cfg) : new[m].up = nd[m].up
  BY DEF Emits
<1>2. \A m \in NodesOf(cfg) : Feeds(cfg, m) \subseteq NodesOf(cfg)
  BY FeedsOk
<1>3. \A m \in NodesOf(cfg) : WiredNode(cfg, nd, m)
  BY DEF WiredNodes
<1>4. ASSUME NEW m \in NodesOf(cfg), m # s  PROVE WiredNode(cfg, new, m)
  BY <1>1, <1>2, <1>3, <1>4 DEF WiredNode, Emits
<1>5. WiredNode(cfg, new, s)
  <2>1. /\ \A i \in DOMAIN new[s].out :
              (i \in DOMAIN nd[s].out /\ new[s].out[i] = nd[s].out[i]) \/ \E k \in DOMAIN bs : new[s].out[i] = bs[k]
        /\ Len(nd[s].out) \in Nat /\ DOMAIN nd[s].out = 1 .. Len(nd[s].out)
        /\ Len(bs) \in Nat /\ DOMAIN new[s].out = 1 .. Len(nd[s].out) + Len(bs)
        /\ IsSeq(nd[s].out)
    BY EmittedQueue
  <2>2. \A i \in DOMAIN new[s].out : new[s].out[i].source = s \/ Below(cfg, new[s].out[i].source, s)
    BY <1>3, <2>1 DEF WiredNode
  <2>3. new[s].out = <<>> => nd[s].out = <<>>
    <3>1. DOMAIN <<>> = {}
      OBVIOUS
    <3>2. ASSUME new[s].out = <<>>, Len(nd[s].out) # 0  PROVE FALSE
      <4>1. 1 \in DOMAIN new[s].out
        BY <2>1, <3>2
      <4>2. QED  BY <3>1, <3>2, <4>1
    <3>3. QED  BY <2>1, <3>2, QueuePositions
  <2>4. QED  BY <1>1, <1>2, <1>3, <2>2, <2>3 DEF WiredNode, Emits
<1>6. QED  BY <1>4, <1>5 DEF WiredNodes

\* Batches that take no watermark below a leave the promise as it was.
LEMMA EmittedKeeps ==
    ASSUME NEW cfg, CfgOk(cfg), NEW nd, NEW new, QueuedNodes(cfg, nd), WiredNodes(cfg, nd), NEW s \in NodesOf(cfg),
           NEW bs, IsSeq(bs), Emits(cfg, nd, new, s, bs),
           NEW mk, NEW t, NEW a, NEW kind, Promised(cfg, nd, mk, t, a, kind), \A k \in DOMAIN bs : ~Low(bs[k], t, a)
    PROVE  Promised(cfg, new, mk, t, a, kind)
<1> SUFFICES ASSUME NEW S \in SUBSET NodesOf(cfg), Cover(cfg, new, t, a, kind, S)
             PROVE  SinksServed(cfg, new, mk, t, a, S) /\ LowsFollowed(cfg, new, t, a, kind, S)
  BY DEF Promised
<1> DEFINE p == nd[s].out
           r == new[s].out
<1>1. /\ Len(p) \in Nat /\ Len(bs) \in Nat /\ DOMAIN p = 1 .. Len(p) /\ DOMAIN r = 1 .. Len(p) + Len(bs)
      /\ \A i \in 1 .. Len(p) : r[i] = p[i]
      /\ \A i \in DOMAIN r : (i \in DOMAIN p /\ r[i] = p[i]) \/ \E k \in DOMAIN bs : r[i] = bs[k]
  BY EmittedQueue
<1>2. \A i \in DOMAIN p : i \in DOMAIN r /\ r[i] = p[i]
  BY <1>1
<1>3. /\ \A m \in NodesOf(cfg) \ {s} : new[m] = nd[m]
      /\ new[s].inbox = nd[s].inbox /\ new[s].live = nd[s].live /\ new[s].pos = nd[s].pos /\ new[s].up = nd[s].up
  BY DEF Emits
<1> HIDE DEF p, r
<1>4. \A c : \A m \in NodesOf(cfg) : ToSend(nd[m], c, t, a, kind) => ToSend(new[m], c, t, a, kind)
  <2>1. \A c : ToSend(nd[s], c, t, a, kind) => ToSend(new[s], c, t, a, kind)
    BY <1>2, <1>3 DEF ToSend, p, r
  <2>2. QED  BY <1>3, <2>1
<1>5. Cover(cfg, nd, t, a, kind, S)
  <2>1. \A m \in NodesOf(cfg) : new[m].up = nd[m].up /\ new[m].inbox = nd[m].inbox
    BY <1>3
  <2>2. QED  BY <1>4, <2>1 DEF Cover
<1>6. SinksServed(cfg, nd, mk, t, a, S) /\ LowsFollowed(cfg, nd, t, a, kind, S)
  BY <1>5 DEF Promised
<1>7. SinksServed(cfg, new, mk, t, a, S)
  <2>1. \A m \in Reachable(cfg, t) : m \in NodesOf(cfg)
    BY ReachesSinks DEF SinksOf, NodesOf
  <2>2. QED  BY <1>3, <1>6, <2>1 DEF SinksServed
<1>8. \A m \in NodesOf(cfg) : Coming(cfg, nd, m, t, a, kind, S) => Coming(cfg, new, m, t, a, kind, S)
  <2>1. \A m \in NodesOf(cfg) : new[m].up = nd[m].up
    BY <1>3
  <2>2. QED  BY <1>4, <2>1 DEF Coming
<1>9. ASSUME NEW i \in DOMAIN r, Low(r[i], t, a)
      PROVE  i \in DOMAIN p /\ p[i] = r[i] /\ (GoodAfter(p, i, t, a, kind) => GoodAfter(r, i, t, a, kind))
  <2>1. i \in DOMAIN p /\ r[i] = p[i]
    BY <1>1, <1>9
  <2>2. QED  BY <1>2, <2>1 DEF GoodAfter
<1>10. LowsFollowed(cfg, new, t, a, kind, S)
  <2>1. ASSUME NEW m \in NodesOf(cfg), new[m].up, m # s
        PROVE  /\ \A i \in DOMAIN new[m].inbox : Low(new[m].inbox[i], t, a) =>
                     GoodAfter(new[m].inbox, i, t, a, kind) \/ Coming(cfg, new, m, t, a, kind, S)
               /\ \A i \in DOMAIN new[m].out : Low(new[m].out[i], t, a) =>
                     GoodAfter(new[m].out, i, t, a, kind) \/ m \in S
    BY <1>3, <1>6, <1>8, <2>1 DEF LowsFollowed
  <2>2. ASSUME new[s].up
        PROVE  /\ \A i \in DOMAIN new[s].inbox : Low(new[s].inbox[i], t, a) =>
                     GoodAfter(new[s].inbox, i, t, a, kind) \/ Coming(cfg, new, s, t, a, kind, S)
               /\ \A i \in DOMAIN r : Low(r[i], t, a) => GoodAfter(r, i, t, a, kind) \/ s \in S
    BY <1>3, <1>6, <1>8, <1>9, <2>2 DEF LowsFollowed, p
  <2>3. QED  BY <2>1, <2>2 DEF LowsFollowed, r
<1>11. QED  BY <1>7, <1>10

\* A lower ack is promised where a higher one is.
LEMMA PromisedLower ==
    ASSUME NEW cfg, CfgOk(cfg), NEW nd, NEW mk, \A x \in DOMAIN mk : mk[x] \in Nat, NEW s, NEW a \in Nat, NEW low \in Nat, low <= a,
           \A m \in NodesOf(cfg) : /\ \A i \in DOMAIN nd[m].inbox : BatchOk(nd[m].inbox[i], cfg)
                                   /\ \A i \in DOMAIN nd[m].out : BatchOk(nd[m].out[i], cfg),
           NEW kind, Promised(cfg, nd, mk, s, a, kind)
    PROVE  Promised(cfg, nd, mk, s, low, kind)
<1> SUFFICES ASSUME NEW S \in SUBSET NodesOf(cfg), Cover(cfg, nd, s, low, kind, S)
             PROVE  SinksServed(cfg, nd, mk, s, low, S) /\ LowsFollowed(cfg, nd, s, low, kind, S)
  BY DEF Promised
<1>1. \A b : BatchOk(b, cfg) => /\ Good(b, s, a, kind) => Good(b, s, low, kind)
                                /\ Low(b, s, low) => Low(b, s, a)
  BY DEF BatchOk, Good, Low
<1> DEFINE fits(m) == /\ \A i \in DOMAIN nd[m].inbox :
                            /\ Good(nd[m].inbox[i], s, a, kind) => Good(nd[m].inbox[i], s, low, kind)
                            /\ Low(nd[m].inbox[i], s, low) => Low(nd[m].inbox[i], s, a)
                      /\ \A i \in DOMAIN nd[m].out :
                            /\ Good(nd[m].out[i], s, a, kind) => Good(nd[m].out[i], s, low, kind)
                            /\ Low(nd[m].out[i], s, low) => Low(nd[m].out[i], s, a)
<1>2. \A m \in NodesOf(cfg) : fits(m)
  BY <1>1
<1>3. \A c : \A m \in NodesOf(cfg) : ToSend(nd[m], c, s, a, kind) => ToSend(nd[m], c, s, low, kind)
  BY <1>2 DEF ToSend
<1>4. Cover(cfg, nd, s, a, kind, S)
  BY <1>2, <1>3 DEF Cover
<1>5. SinksServed(cfg, nd, mk, s, a, S) /\ LowsFollowed(cfg, nd, s, a, kind, S)
  BY <1>4 DEF Promised
<1>6. SinksServed(cfg, nd, mk, s, low, S)
  BY <1>5 DEF SinksServed
<1>7. \A m : Coming(cfg, nd, m, s, a, kind, S) => Coming(cfg, nd, m, s, low, kind, S)
  BY <1>3 DEF Coming
<1>8. ASSUME NEW m \in NodesOf(cfg), nd[m].up
      PROVE  /\ \A i \in DOMAIN nd[m].inbox : Low(nd[m].inbox[i], s, low) =>
                   GoodAfter(nd[m].inbox, i, s, low, kind) \/ Coming(cfg, nd, m, s, low, kind, S)
             /\ \A i \in DOMAIN nd[m].out : Low(nd[m].out[i], s, low) =>
                   GoodAfter(nd[m].out, i, s, low, kind) \/ m \in S
  <2>1. /\ \A i : GoodAfter(nd[m].inbox, i, s, a, kind) => GoodAfter(nd[m].inbox, i, s, low, kind)
        /\ \A i : GoodAfter(nd[m].out, i, s, a, kind) => GoodAfter(nd[m].out, i, s, low, kind)
    BY <1>2 DEF GoodAfter
  <2>2. QED  BY <1>2, <1>5, <1>7, <1>8, <2>1 DEF LowsFollowed
<1>9. QED  BY <1>6, <1>8 DEF LowsFollowed


\* What lies below a source whose branches are all in a set is, if it is up,
\* one of them or fed by a node of the set that is up.
LEMMA BelowFed ==
    ASSUME NEW cfg, CfgOk(cfg), NEW nd, WiredNodes(cfg, nd), NEW s \in NodesOf(cfg),
           NEW S \in SUBSET NodesOf(cfg), Closed(cfg, S), Feeds(cfg, s) \subseteq S,
           NEW m \in NodesOf(cfg), nd[m].up, Below(cfg, s, m)
    PROVE  m \in S /\ (m \in Feeds(cfg, s) \/ \E q \in S : nd[q].up /\ m \in Feeds(cfg, q))
<1> DEFINE X == {x \in NodesOf(cfg) : ~nd[x].up \/ x \in Feeds(cfg, s) \/ \E q \in S : nd[q].up /\ x \in Feeds(cfg, q)}
<1>1. \A x \in NodesOf(cfg) : Feeds(cfg, x) \subseteq NodesOf(cfg)
  BY FeedsOk
<1>2. ASSUME NEW x \in X, NEW y \in Feeds(cfg, x)  PROVE y \in X
  <2>1. y \in NodesOf(cfg) /\ x \in NodesOf(cfg)
    BY <1>1, <1>2
  <2>2. CASE ~nd[x].up
    <3>1. WiredNode(cfg, nd, x)
      BY <2>1 DEF WiredNodes
    <3>2. nd[x].live = <<>> /\ (nd[y].up => y \in Range(nd[x].live))
      BY <1>2, <2>2, <3>1 DEF WiredNode
    <3>3. Range(<<>>) = {}
      BY DEF Range
    <3>4. ~nd[y].up
      BY <3>2, <3>3
    <3>5. QED  BY <2>1, <3>4
  <2>3. CASE nd[x].up
    <3>1. x \in S
      BY <2>3 DEF Closed
    <3>2. QED  BY <2>1, <2>3, <3>1
  <2>4. QED  BY <2>2, <2>3
<1>3. Closed(cfg, X)
  BY <1>2 DEF Closed
<1>4. X \in SUBSET NodesOf(cfg) /\ Feeds(cfg, s) \subseteq X
  BY <1>1
<1> HIDE DEF X
<1>5. m \in X
  BY <1>3, <1>4 DEF Below
<1>6. QED  BY <1>5 DEF X, Closed

\* A source that has emitted has promised the ack of its last batch.
LEMMA EmittedPromised ==
    ASSUME NEW cfg, CfgOk(cfg), NEW nd, NEW new, QueuedNodes(cfg, nd), WiredNodes(cfg, nd), NEW s \in NodesOf(cfg),
           s \notin SinksOf(cfg), nd[s].up,
           NEW bs, IsSeq(bs), Emits(cfg, nd, new, s, bs), \A k \in DOMAIN bs : bs[k].source = s /\ ~IsRollback(bs[k]),
           NEW mk, NEW a, NEW kind, bs # <<>>, Good(bs[Len(bs)], s, a, kind)
    PROVE  Promised(cfg, new, mk, s, a, kind)
<1> SUFFICES ASSUME NEW S \in SUBSET NodesOf(cfg), Cover(cfg, new, s, a, kind, S)
             PROVE  SinksServed(cfg, new, mk, s, a, S) /\ LowsFollowed(cfg, new, s, a, kind, S)
  BY DEF Promised
<1> DEFINE p == nd[s].out
           r == new[s].out
           e == Len(p) + Len(bs)
<1>1. /\ IsSeq(p) /\ Len(p) \in Nat /\ Len(bs) \in Nat /\ DOMAIN p = 1 .. Len(p) /\ DOMAIN r = 1 .. Len(p) + Len(bs)
      /\ \A i \in 1 .. Len(bs) : r[Len(p) + i] = bs[i]
      /\ \A i \in DOMAIN r : (i \in DOMAIN p /\ r[i] = p[i]) \/ \E k \in DOMAIN bs : r[i] = bs[k]
  BY EmittedQueue
<1>2. WiredNodes(cfg, new)
  BY EmittedWired
<1>3. /\ \A m \in NodesOf(cfg) \ {s} : new[m] = nd[m]
      /\ new[s].inbox = nd[s].inbox /\ new[s].live = nd[s].live /\ new[s].pos = nd[s].pos /\ new[s].up = nd[s].up
  BY DEF Emits
<1>4. WiredNode(cfg, new, s) /\ WiredNode(cfg, nd, s) /\ IsSeq(nd[s].live)
  BY <1>2 DEF WiredNodes, QueuedNodes, QueuedNode
<1> HIDE DEF p, r
<1>5. e \in DOMAIN r /\ Good(r[e], s, a, kind) /\ (e = 1 => p = <<>>)
  <2>1. Len(bs) # 0
    BY QueuePositions
  <2>2. e \in DOMAIN r /\ r[e] = bs[Len(bs)]
    BY <1>1, <2>1
  <2>3. e = 1 => Len(p) = 0
    BY <1>1, <2>1
  <2>4. p = <<>> <=> Len(p) = 0
    BY <1>1, QueuePositions
  <2> HIDE DEF e
  <2>5. QED  BY <2>2, <2>3, <2>4
<1> HIDE DEF e
<1>6. ASSUME NEW c \in Feeds(cfg, s), nd[c].up  PROVE ToSend(new[s], c, s, a, kind)
  <2>1. c \in Range(nd[s].live)
    BY <1>4, <1>6 DEF WiredNode
  <2>2. PICK j \in DOMAIN nd[s].live : nd[s].live[j] = c
    BY <2>1 DEF Range
  <2>3. 1 <= j
    BY <1>4, QueuePositions
  <2>4. e = 1 => nd[s].pos = 1
    BY <1>4, <1>5 DEF WiredNode, p
  <2>5. QED  BY <1>3, <1>5, <2>2, <2>3, <2>4 DEF ToSend, r
<1>7. Feeds(cfg, s) \subseteq NodesOf(cfg) /\ s \notin Feeds(cfg, s)
  BY FeedsOk
<1>8. Feeds(cfg, s) \subseteq S
  <2>1. ASSUME NEW c \in Feeds(cfg, s)  PROVE c \in S
    <3>1. c \in NodesOf(cfg) /\ new[c].up = nd[c].up
      BY <1>3, <1>7
    <3>2. CASE nd[c].up
      BY <1>6, <3>1, <3>2 DEF Cover
    <3>3. CASE ~nd[c].up
      BY <3>1, <3>3 DEF Cover
    <3>4. QED  BY <3>2, <3>3
  <2>2. QED  BY <2>1
<1>9. SinksServed(cfg, new, mk, s, a, S)
  <2>1. Closed(cfg, S \cup {s})
    BY <1>8 DEF Cover, Closed
  <2>2. Reachable(cfg, s) \subseteq (S \cup {s}) \cap SinksOf(cfg)
    BY <2>1, ReachableWithin
  <2>3. QED  BY <2>2 DEF SinksServed
<1>10. ASSUME NEW m \in NodesOf(cfg), new[m].up, Below(cfg, s, m)
       PROVE  m \in S /\ Coming(cfg, new, m, s, a, kind, S)
  <2>1. m \in S /\ (m \in Feeds(cfg, s) \/ \E q \in S : new[q].up /\ m \in Feeds(cfg, q))
    BY <1>2, <1>8, <1>10, BelowFed DEF Cover
  <2>2. CASE m \in Feeds(cfg, s)
    BY <1>3, <1>6, <1>7, <1>10, <2>1, <2>2 DEF Coming
  <2>3. CASE \E q \in S : new[q].up /\ m \in Feeds(cfg, q)
    BY <2>1, <2>3 DEF Coming
  <2>4. QED  BY <2>1, <2>2, <2>3
<1>11. ASSUME NEW i \in DOMAIN r, Low(r[i], s, a)  PROVE GoodAfter(r, i, s, a, kind)
  <2>1. i \in DOMAIN p
    BY <1>1, <1>11 DEF Low
  <2>2. i < e
    <3>1. Len(bs) # 0
      BY QueuePositions
    <3>2. QED  BY <2>1, <3>1, <1>1 DEF e
  <2>3. QED  BY <1>5, <2>2 DEF GoodAfter
<1>12. LowsFollowed(cfg, new, s, a, kind, S)
  <2>1. ASSUME NEW m \in NodesOf(cfg), new[m].up
        PROVE  /\ \A i \in DOMAIN new[m].inbox : Low(new[m].inbox[i], s, a) => Coming(cfg, new, m, s, a, kind, S)
               /\ \A i \in DOMAIN new[m].out : Low(new[m].out[i], s, a) => GoodAfter(new[m].out, i, s, a, kind) \/ m \in S
    <3>1. WiredNode(cfg, new, m)
      BY <1>2 DEF WiredNodes
    <3>2. \A i \in DOMAIN new[m].inbox : Low(new[m].inbox[i], s, a) => Below(cfg, s, m)
      BY <3>1 DEF WiredNode, Low
    <3>3. \A i \in DOMAIN new[m].out : Low(new[m].out[i], s, a) => m = s \/ Below(cfg, s, m)
      BY <3>1 DEF WiredNode, Low
    <3>4. QED  BY <1>10, <1>11, <2>1, <3>2, <3>3 DEF r
  <2>2. QED  BY <2>1 DEF LowsFollowed
<1>13. QED  BY <1>9, <1>12


-----------------------------------------------------------------------------
(* Everything sent has been worked off.                                      *)

\* The nodes that are down hold, with a node, those it feeds.
LEMMA DownClosed ==
    ASSUME NEW cfg, CfgOk(cfg), NEW nd, WiredNodes(cfg, nd)
    PROVE  Closed(cfg, {m \in NodesOf(cfg) : ~nd[m].up})
<1> DEFINE S == {m \in NodesOf(cfg) : ~nd[m].up}
<1>1. ASSUME NEW m \in S, NEW c \in Feeds(cfg, m)  PROVE c \in S
  <2>1. WiredNode(cfg, nd, m) /\ ~nd[m].up /\ c \in NodesOf(cfg)
    BY FeedsOk DEF WiredNodes
  <2>2. nd[m].live = <<>> /\ (nd[c].up => c \in Range(nd[m].live))
    BY <2>1 DEF WiredNode
  <2>3. Range(<<>>) = {}
    BY DEF Range
  <2>4. QED  BY <2>1, <2>2, <2>3
<1>2. QED  BY <1>1 DEF Closed

\* Then every sink below a source that is up has the watermark promised.
LEMMA DrainedServed ==
    ASSUME NEW cfg, CfgOk(cfg), NEW nd, WiredNodes(cfg, nd), NEW mk, NEW s, NEW a, NEW kind,
           Promised(cfg, nd, mk, s, a, kind),
           \A m \in NodesOf(cfg) : nd[m].inbox = <<>> /\ nd[m].out = <<>>,
           NEW n \in Reachable(cfg, s), nd[n].up
    PROVE  At(mk, s, n, a)
<1> DEFINE S == {m \in NodesOf(cfg) : ~nd[m].up}
<1>1. S \in SUBSET NodesOf(cfg)
  OBVIOUS
<1>2. Closed(cfg, S)
  BY DownClosed
<1>3. Cover(cfg, nd, s, a, kind, S)
  <2>1. DOMAIN <<>> = {}
    OBVIOUS
  <2>2. \A m \in NodesOf(cfg) : DOMAIN nd[m].inbox = {} /\ DOMAIN nd[m].out = {}
    BY <2>1
  <2>3. \A c : \A m \in NodesOf(cfg) : ~ToSend(nd[m], c, s, a, kind)
    BY <2>2 DEF ToSend
  <2>4. \A m \in NodesOf(cfg) : ~nd[m].up => m \in S
    OBVIOUS
  <2> HIDE DEF S
  <2>5. QED  BY <1>2, <2>2, <2>3, <2>4 DEF Cover
<1>4. n \notin S
  OBVIOUS
<1> HIDE DEF S
<1>5. SinksServed(cfg, nd, mk, s, a, S)
  BY <1>1, <1>3 DEF Promised
<1>6. QED  BY <1>4, <1>5 DEF SinksServed, At

\* The graph and the promise are about queues, branches and who is up.
SameQueues(cfg, nd, new) ==
    \A m \in NodesOf(cfg) : /\ new[m].inbox = nd[m].inbox /\ new[m].out = nd[m].out /\ new[m].live = nd[m].live
                            /\ new[m].pos = nd[m].pos /\ (new[m].up <=> nd[m].up)

\* What changes nothing else leaves them as they are.
LEMMA SameKept ==
    ASSUME NEW cfg, CfgOk(cfg), NEW nd, NEW new, WiredNodes(cfg, nd), SameQueues(cfg, nd, new)
    PROVE  /\ WiredNodes(cfg, new)
           /\ \A mk, s, a, kind : Promised(cfg, nd, mk, s, a, kind) => Promised(cfg, new, mk, s, a, kind)
<1>1. \A m \in NodesOf(cfg) : Feeds(cfg, m) \subseteq NodesOf(cfg)
  BY FeedsOk
<1>2. WiredNodes(cfg, new)
  <2>1. ASSUME NEW m \in NodesOf(cfg)  PROVE WiredNode(cfg, new, m)
    <3>1. WiredNode(cfg, nd, m) /\ \A c \in Feeds(cfg, m) : new[c].up <=> nd[c].up
      BY <1>1 DEF WiredNodes, SameQueues
    <3>2. QED  BY <3>1 DEF WiredNode, SameQueues
  <2>2. QED  BY <2>1 DEF WiredNodes
<1>3. ASSUME NEW mk, NEW s, NEW a, NEW kind, Promised(cfg, nd, mk, s, a, kind)
      PROVE  Promised(cfg, new, mk, s, a, kind)
  <2> SUFFICES ASSUME NEW S \in SUBSET NodesOf(cfg), Cover(cfg, new, s, a, kind, S)
               PROVE  SinksServed(cfg, new, mk, s, a, S) /\ LowsFollowed(cfg, new, s, a, kind, S)
    BY DEF Promised
  <2>1. \A c : \A m \in NodesOf(cfg) : ToSend(nd[m], c, s, a, kind) <=> ToSend(new[m], c, s, a, kind)
    BY DEF SameQueues, ToSend
  <2>2. Cover(cfg, nd, s, a, kind, S)
    BY <2>1 DEF Cover, SameQueues
  <2>3. SinksServed(cfg, nd, mk, s, a, S) /\ LowsFollowed(cfg, nd, s, a, kind, S)
    BY <1>3, <2>2 DEF Promised
  <2>4. SinksServed(cfg, new, mk, s, a, S)
    <3>1. \A m \in Reachable(cfg, s) : m \in NodesOf(cfg)
      BY ReachesSinks DEF SinksOf, NodesOf
    <3>2. QED  BY <2>3, <3>1 DEF SinksServed, SameQueues
  <2>5. \A m : Coming(cfg, nd, m, s, a, kind, S) => Coming(cfg, new, m, s, a, kind, S)
    BY <2>1 DEF Coming, SameQueues
  <2>6. LowsFollowed(cfg, new, s, a, kind, S)
    BY <2>3, <2>5 DEF LowsFollowed, SameQueues
  <2>7. QED  BY <2>4, <2>6
<1>4. QED  BY <1>2, <1>3


-----------------------------------------------------------------------------
(* What is sent: by a processor, and by a source.                            *)

\* A product of a batch moves and lowers watermarks as the batch does.
LEMMA ProductFlows ==
    ASSUME NEW b, BatchFields \subseteq DOMAIN b, NEW x, Product(b, x)
    PROVE  /\ x.source = b.source
           /\ \A s, a, kind : Good(b, s, a, kind) => Good(x, s, a, kind)
           /\ \A s, a : Low(x, s, a) => Low(b, s, a)
<1>1. CASE x = b
  BY <1>1
<1>2. ASSUME NEW kind \in {b.kind, "decoded"}, NEW records, ~IsControl(b), x = [b EXCEPT !.kind = kind, !.records = records]
      PROVE  /\ x.source = b.source
             /\ \A s, a, k : Good(b, s, a, k) => Good(x, s, a, k)
             /\ \A s, a : Low(x, s, a) => Low(b, s, a)
  <2>1. /\ x.source = b.source /\ x.ack_block = b.ack_block /\ x.to = b.to
        /\ x.kind = kind
    BY <1>2 DEF BatchFields
  <2>2. kind # "control"
    BY <1>2 DEF IsControl
  <2>3. AckBlock(x) = AckBlock(b) /\ ~IsRollback(x)
    BY <2>1, <2>2 DEF AckBlock, IsRollback, IsControl
  <2>4. QED  BY <1>2, <2>1, <2>3 DEF Good, Low
<1>3. QED  BY <1>1, <1>2 DEF Product, Derive

\* Batches of a source, one queue behind another.
LEMMA JoinPlain ==
    ASSUME NEW s, NEW p, NEW q, IsSeq(p), IsSeq(q), PlainFrom(s, p), PlainFrom(s, q)
    PROVE  PlainFrom(s, p \o q)
<1> DEFINE r == p \o q
<1>1. /\ Len(p) \in Nat /\ Len(q) \in Nat /\ DOMAIN p = 1 .. Len(p) /\ DOMAIN q = 1 .. Len(q)
      /\ DOMAIN r = 1 .. Len(p) + Len(q)
      /\ \A i \in 1 .. Len(p) : r[i] = p[i]
      /\ \A i \in 1 .. Len(q) : r[Len(p) + i] = q[i]
  BY JoinPositions
<1> HIDE DEF r
<1>2. ASSUME NEW i \in DOMAIN r  PROVE r[i].source = s /\ ~IsRollback(r[i])
  <2>1. CASE i <= Len(p)
    BY <2>1, <1>1 DEF PlainFrom
  <2>2. CASE ~(i <= Len(p))
    <3> DEFINE k == i - Len(p)
    <3>1. k \in 1 .. Len(q) /\ Len(p) + k = i
      BY <1>1, <2>2
    <3> HIDE DEF k
    <3>2. QED  BY <3>1, <1>1 DEF PlainFrom
  <2>3. QED  BY <2>1, <2>2
<1>3. QED  BY <1>2 DEF PlainFrom, r

\* A source comes to its end at the end of its range.
LEMMA PlanEnds ==
    ASSUME NEW c, SourceTyped(c), NEW cur \in Nat, NEW resp, Ends(c, Planned(c, cur, resp))
    PROVE  c.to_block # None /\ Planned(c, cur, resp).next >= c.to_block
<1> DEFINE e == LeastOf({resp.next_block, c.to_block, ConfirmedBound(resp.archive_height, c.confirmations)})
           plan == Planned(c, cur, resp)
<1>1. plan = IF e > cur THEN [step |-> "emit", next |-> e]
             ELSE IF c.mode = "backfill" /\ c.to_block # None /\ cur >= c.to_block
             THEN [step |-> "eof", next |-> cur]
             ELSE [step |-> "wait", next |-> cur]
  BY Zenon DEF Planned, PlanStep
<1> HIDE DEF e, plan
<1>2. plan.step = "eof" => c.to_block # None /\ plan.next >= c.to_block
  BY <1>1
<1>3. plan.step = "eof" \/ (c.mode = "backfill" /\ c.to_block # None /\ plan.next >= Or(c.to_block, 0))
  BY DEF Ends, plan
<1>4. QED  BY <1>2, <1>3 DEF Or, plan

\* What a source emits is its own, no rollback, and ends with the end of the
\* source when there is one.
LEMMA EmittedPlain ==
    ASSUME NEW cfg, NEW s \in NamesOf(cfg.sources), NEW c, SourceTyped(c), c.name = s, Knobs.default_max_records \in Nat,
           NEW cur \in Nat, NEW resp, IsSeq(resp.records), NEW plan, plan.next \in Nat,
           NEW bs, bs = Emitted(c, cur, resp, plan)
    PROVE  /\ IsSeq(bs) /\ PlainFrom(s, bs)
           /\ Ends(c, plan) => bs # <<>> /\ IsControl(bs[Len(bs)]) /\ AckBlock(bs[Len(bs)]) = plan.next
<1> DEFINE chain == c.resolved.chain_id
           m == Max({1, Or(c.max_records, Knobs.default_max_records)})
           R == RangeBatches(s, chain, cur, plan.next, Confirmed(resp, plan.next), m)
           e == ControlBatch(s, chain, Eof(plan.next))
           a == IF plan.step = "emit" THEN R ELSE <<>>
           b == IF Ends(c, plan) THEN <<e>> ELSE <<>>
<1>1. bs = a \o b
  BY Zenon DEF Emitted
<1>2. m \in Nat \ {0}
  <2>1. Or(c.max_records, Knobs.default_max_records) \in Nat
    BY OrNat DEF SourceTyped
  <2>2. QED  BY <2>1, OfTwo
<1> HIDE DEF m
<1>3. QueueOk(R, cfg) /\ PlainFrom(s, R)
  BY <1>2, ConfirmedIsSeq, RangeQueue
<1>4. e.source = s /\ IsControl(e) /\ ~IsRollback(e) /\ AckBlock(e) = plan.next
  BY DEF ControlBatch, Eof, IsControl, IsRollback, AckBlock, Or
<1> HIDE DEF R, e
<1>5. IsSeq(<<>>) /\ PlainFrom(s, <<>>) /\ IsSeq(<<e>>) /\ PlainFrom(s, <<e>>)
  <2>1. <<>> \in Seq({}) /\ <<e>> \in Seq({e}) /\ DOMAIN <<>> = {} /\ DOMAIN <<e>> = {1} /\ <<e>>[1] = e
    OBVIOUS
  <2>2. QED  BY <2>1, <1>4, SeqIsSeq DEF PlainFrom
<1>6. IsSeq(a) /\ PlainFrom(s, a) /\ IsSeq(b) /\ PlainFrom(s, b)
  BY <1>3, <1>5 DEF QueueOk
<1>7. Ends(c, plan) => Len(b) = 1 /\ b[1] = e
  OBVIOUS
<1> HIDE DEF a, b
<1>8. /\ Len(a) \in Nat /\ Len(b) \in Nat /\ IsSeq(bs) /\ DOMAIN bs = 1 .. Len(a) + Len(b) /\ Len(bs) = Len(a) + Len(b)
      /\ \A i \in 1 .. Len(b) : bs[Len(a) + i] = b[i]
  BY <1>1, <1>6, JoinPositions
<1>9. PlainFrom(s, bs)
  BY <1>1, <1>6, JoinPlain
<1>10. ASSUME Ends(c, plan)
       PROVE  bs # <<>> /\ IsControl(bs[Len(bs)]) /\ AckBlock(bs[Len(bs)]) = plan.next
  <2>1. Len(bs) = Len(a) + 1 /\ bs[Len(bs)] = e
    <3>1. Len(b) = 1 /\ b[1] = e
      BY <1>7, <1>10, Zenon
    <3>2. bs[Len(a) + 1] = b[1]
      BY <3>1, <1>8
    <3>3. QED  BY <3>1, <3>2, <1>8
  <2>2. Len(<<>>) = 0
    OBVIOUS
  <2>3. bs # <<>>
    BY <2>1, <2>2, <1>8
  <2>4. QED  BY <2>1, <2>3, <1>4
<1>11. QED  BY <1>8, <1>9, <1>10


-----------------------------------------------------------------------------
(* Steps of a process at work.                                               *)

\* The facts of a process at work, for its graph.
LEMMA GraphAtWork ==
    ASSUME PipeInv, Active
    PROVE  /\ run.cfg # None /\ Cfg = run.cfg /\ CfgOk(run.cfg)
           /\ SourceNames = SourcesOf(run.cfg) /\ SinkNames = SinksOf(run.cfg)
           /\ \A n \in SourceNames \cup ProcessorNames : n \in NodesOf(run.cfg) /\ n \notin SinksOf(run.cfg)
           /\ SinkNames \subseteq NodesOf(run.cfg) /\ SinksOf(run.cfg) \subseteq NodesOf(run.cfg)
           /\ SourcesOf(run.cfg) \subseteq NodesOf(run.cfg)
           /\ NodesOf(run.cfg) \subseteq DOMAIN node
           /\ \A n \in NodesOf(run.cfg) : NodeOk(n, node[n], run.cfg, run.stop)
           /\ QueuedNodes(run.cfg, node)
           /\ \A x \in DOMAIN mark : mark[x] \in Nat
           /\ \A s \in SourcesOf(run.cfg) :
                 s \in DOMAIN src /\ {"cur", "loop", "sent"} \subseteq DOMAIN src[s] /\ src[s].cur \in Nat
<1>1. /\ run.cfg # None /\ Cfg = run.cfg /\ CfgOk(run.cfg)
      /\ SourceNames = NamesOf(run.cfg.sources) /\ ProcessorNames = NamesOf(run.cfg.processors)
      /\ SinkNames = NamesOf(run.cfg.sinks)
      /\ SourceNames \cup ProcessorNames \cup SinkNames \subseteq DOMAIN node
      /\ \A n \in DOMAIN node : NodeOk(n, node[n], run.cfg, run.stop)
  BY AtWork
<1>2. /\ NodesOf(run.cfg) \subseteq DOMAIN node
      /\ \A n \in NodesOf(run.cfg) : NodeOk(n, node[n], run.cfg, run.stop)
  BY <1>1 DEF NodesOf
<1>3. \A n \in SourceNames \cup ProcessorNames : n \in NodesOf(run.cfg) /\ n \notin SinksOf(run.cfg)
  BY <1>1 DEF CfgOk, NodesOf, SinksOf
<1>4. QueuedNodes(run.cfg, node)
  <2>1. ASSUME NEW m \in NodesOf(run.cfg)  PROVE QueuedNode(run.cfg, node, m)
    <3>1. NodeOk(m, node[m], run.cfg, run.stop)
      BY <1>2
    <3>2. QED  BY <3>1 DEF NodeOk, BranchesOk, QueueOk, QueuedNode, SinksOf
  <2>2. QED  BY <2>1 DEF QueuedNodes
<1>5. \A x \in DOMAIN mark : mark[x] \in Nat
  BY DEF PipeInv, CursorsInv
<1>6. \A s \in SourcesOf(run.cfg) :
         s \in DOMAIN src /\ {"cur", "loop", "sent"} \subseteq DOMAIN src[s] /\ src[s].cur \in Nat
  BY DEF PipeInv, TasksInv, Active, SourcesOf
<1>7. QED  BY <1>1, <1>2, <1>3, <1>4, <1>5, <1>6 DEF SourcesOf, SinksOf, NodesOf

\* A process with something to do has not ended by itself.
LEMMA BusyNotEnded ==
    ASSUME FlowInv, Active, (\E n \in DOMAIN node : ~Idle(n)) \/ (\E s \in SourcesOf(run.cfg) : src[s].loop # "done")
    PROVE  ~run.eof
BY DEF FlowInv, Active

\* What a step at work has to keep.
LEMMA WorkKeepsFlow ==
    ASSUME FlowInv, Active, ~run.eof, run'.cfg = run.cfg, run'.phase = run.phase, run'.eof = run.eof,
           WiredNodes(run.cfg, node'), \A s \in SourcesOf(run.cfg) : SourceFlow(s)',
           \A n \in SinksOf(run.cfg) : node'[n].up \/ n \in run'.paused, StoppedBy'
    PROVE  FlowInv'
<1>1. run.phase \in {"running", "stopping"}
  BY DEF Active
<1>2. QED  BY <1>1 DEF FlowInv

\* What such a step has to keep for a source.
LEMMA SourceFlowKept ==
    ASSUME NEW s, SourceFlow(s), run'.cfg = run.cfg, src'[s].sent = src[s].sent,
           src'[s].loop = src[s].loop \/ run'.stop, run.stop => run'.stop, past'.skipped = {} => past.skipped = {},
           \A kind \in {"any", "control"} : Owed(s, kind)' /\ Promised(run.cfg, node, mark, s, src[s].sent, kind)
                                               => Promised(run.cfg, node', mark', s, src[s].sent, kind)
    PROVE  SourceFlow(s)'
<1>1. SourceCfg(s)' = SourceCfg(s)
  BY DEF SourceCfg, Cfg
<1>2. src'[s].sent \in OptNat
  BY DEF SourceFlow
<1>3. src'[s].loop = "done" /\ ~run'.stop =>
         src'[s].sent # None /\ SourceCfg(s)'.to_block # None /\ src'[s].sent >= SourceCfg(s)'.to_block
  BY <1>1 DEF SourceFlow
<1>4. ASSUME NEW kind \in {"any", "control"}, Owed(s, kind)'
      PROVE  Promised(run'.cfg, node', mark', s, src'[s].sent, kind)
  <2>1. Owed(s, kind)
    BY <1>4 DEF Owed
  <2>2. Promised(run.cfg, node, mark, s, src[s].sent, kind)
    BY <2>1 DEF SourceFlow
  <2>3. QED  BY <1>4, <2>2
<1>5. QED  BY <1>2, <1>3, <1>4 DEF SourceFlow

\* A source's loop stops.
LEMMA SourceStopsKeepsFlow ==
    ASSUME PipeInv, FlowInv, NEW s \in SourceNames, SourceStops(s)
    PROVE  FlowInv'
<1>1. /\ Active /\ src[s].loop = "poll" /\ run.stop /\ src' = [src EXCEPT ![s].loop = "done"]
      /\ UNCHANGED <<run, node, mark, past>>
  BY DEF SourceStops
<1>2. /\ SourceNames = SourcesOf(run.cfg)
      /\ \A x \in SourcesOf(run.cfg) : x \in DOMAIN src /\ {"cur", "loop", "sent"} \subseteq DOMAIN src[x]
  BY <1>1, GraphAtWork
<1>3. ~run.eof
  BY <1>1, <1>2, BusyNotEnded
<1>4. ASSUME NEW x \in SourcesOf(run.cfg)  PROVE SourceFlow(x)'
  <2>1. SourceFlow(x)
    BY <1>1 DEF FlowInv, Active
  <2>2. src'[x].sent = src[x].sent
    BY <1>1, <1>2
  <2>3. QED  BY <1>1, <2>1, <2>2, SourceFlowKept
<1>5. /\ WiredNodes(run.cfg, node') /\ StoppedBy'
      /\ \A n \in SinksOf(run.cfg) : node'[n].up \/ n \in run'.paused
  BY <1>1 DEF FlowInv, Active, StoppedBy
<1>6. QED  BY <1>1, <1>3, <1>4, <1>5, WorkKeepsFlow


\* A source that has put batches in its feed.
LEMMA FeedEmits ==
    ASSUME PipeInv, Active, ~run.stop, NEW s \in SourceNames, NEW bs, node' = [node EXCEPT ![s].out = @ \o bs]
    PROVE  /\ Emits(run.cfg, node, node', s, bs)
           /\ s \in SourcesOf(run.cfg) /\ s \in NodesOf(run.cfg) /\ s \notin SinksOf(run.cfg) /\ node[s].up
           /\ \A m \in NodesOf(run.cfg) : node'[m].up = node[m].up
<1>1. /\ SourceNames = SourcesOf(run.cfg) /\ s \in NodesOf(run.cfg) /\ s \notin SinksOf(run.cfg)
      /\ NodesOf(run.cfg) \subseteq DOMAIN node /\ NodeOk(s, node[s], run.cfg, run.stop)
  BY GraphAtWork
<1> DEFINE mine == [node[s] EXCEPT !.out = @ \o bs]
<1>2. /\ node'[s] = mine
      /\ \A m \in DOMAIN node \ {s} : node'[m] = node[m]
  BY <1>1
<1>3. /\ mine.out = node[s].out \o bs /\ mine.inbox = node[s].inbox /\ mine.live = node[s].live
      /\ mine.pos = node[s].pos /\ mine.up = node[s].up
  BY <1>1 DEF NodeOk, NodeFields
<1> HIDE DEF mine
<1>4. node[s].up
  BY <1>1 DEF NodeOk, SourcesOf
<1>5. \A m \in NodesOf(run.cfg) \ {s} : node'[m] = node[m]
  BY <1>1, <1>2
<1>6. \A m \in NodesOf(run.cfg) : node'[m].up = node[m].up
  BY <1>2, <1>3, <1>5
<1>7. QED  BY <1>1, <1>2, <1>3, <1>4, <1>5, <1>6 DEF Emits

\* A round of a source.
LEMMA SourcePageKeepsFlow ==
    ASSUME PipeInv, FlowInv, NEW s \in SourceNames, SourcePage(s)
    PROVE  FlowInv'
<1> DEFINE cfg == run.cfg
           c == SourceCfg(s)
           cur == src[s].cur
           resp == Asked(c, cur)
           plan == Planned(c, cur, resp)
           bs == Emitted(c, cur, resp, plan)
           loop == IF Ends(c, plan) THEN "done" ELSE "poll"
           sent == IF bs = <<>> THEN src[s].sent ELSE AckBlock(Last(bs))
<1>1. Active /\ ~run.stop /\ src[s].loop = "poll"
  BY DEF SourcePage, Polling
<1>2. /\ node' = [node EXCEPT ![s].out = @ \o bs]
      /\ src' = [src EXCEPT ![s] = [cur |-> plan.next, loop |-> loop, sent |-> sent]]
      /\ UNCHANGED <<sc, run, mark, disk, past>>
  BY DEF SourcePage
<1>3. /\ run.cfg # None /\ Cfg = run.cfg /\ CfgOk(run.cfg) /\ SourceNames = SourcesOf(run.cfg)
      /\ SinksOf(run.cfg) \subseteq NodesOf(run.cfg) /\ SourcesOf(run.cfg) \subseteq NodesOf(run.cfg)
      /\ QueuedNodes(run.cfg, node)
      /\ \A x \in SourcesOf(run.cfg) : x \in DOMAIN src /\ {"cur", "loop", "sent"} \subseteq DOMAIN src[x] /\ src[x].cur \in Nat
  BY <1>1, GraphAtWork
<1>4. IsSeq(sc.logs) /\ sc.height \in Nat /\ sc.page \in Nat
  BY <1>1, AtWork
<1>5. SourceTyped(c) /\ c.name = s /\ cur \in Nat
  BY <1>3, SourceCfgTyped DEF Cfg
<1> HIDE DEF cur
<1>6. IsSeq(resp.records) /\ resp.next_block \in Nat /\ resp.archive_height \in Nat
  <2>1. c = SourceCfg(s) /\ resp = ParseResponse(Answer(s, cur), cur, Selection(c.query, c.reorg.enabled))
    BY <1>5 DEF Asked
  <2> HIDE DEF c, resp
  <2>2. QED  BY <1>4, <1>5, <2>1, AskedTyped
<1>7. SourceCfg(s) = c
  OBVIOUS
<1> HIDE DEF c, resp
<1>8. plan.next \in Nat /\ (Ends(c, plan) => c.to_block # None /\ plan.next >= c.to_block)
  BY <1>5, <1>6, PlannedTyped, PlanEnds
<1> HIDE DEF plan
<1>9. Knobs.default_max_records \in Nat /\ s \in NamesOf(run.cfg.sources)
  BY <1>3 DEF Knobs, CfgOk, SourcesOf
<1>10. /\ IsSeq(bs) /\ PlainFrom(s, bs)
       /\ Ends(c, plan) => bs # <<>> /\ IsControl(bs[Len(bs)]) /\ AckBlock(bs[Len(bs)]) = plan.next
  <2>1. \A q : q = Emitted(c, cur, resp, plan) =>
           /\ IsSeq(q) /\ PlainFrom(s, q)
           /\ Ends(c, plan) => q # <<>> /\ IsControl(q[Len(q)]) /\ AckBlock(q[Len(q)]) = plan.next
    BY <1>5, <1>6, <1>8, <1>9, EmittedPlain
  <2>2. QED  BY <2>1
<1>11. QueueOk(bs, run.cfg)
  BY <1>5, <1>6, <1>8, <1>9, EmittedTyped
<1> HIDE DEF bs
<1>12. /\ Emits(cfg, node, node', s, bs)
       /\ s \in SourcesOf(cfg) /\ s \in NodesOf(cfg) /\ s \notin SinksOf(cfg) /\ node[s].up
       /\ \A m \in NodesOf(cfg) : node'[m].up = node[m].up
  BY <1>1, <1>2, FeedEmits
<1>13. /\ WiredNodes(cfg, node) /\ StoppedBy /\ \A x \in SourcesOf(cfg) : SourceFlow(x)
       /\ \A n \in SinksOf(cfg) : node[n].up \/ n \in run.paused
  BY <1>1 DEF FlowInv, Active
<1>14. ~run.eof
  BY <1>1, <1>3, BusyNotEnded
<1>15. run' = run /\ mark' = mark /\ past' = past /\ \A k \in DOMAIN bs : bs[k].source = s /\ ~IsRollback(bs[k])
  BY <1>2, <1>10 DEF PlainFrom
<1>16. /\ src'[s].sent = sent /\ src'[s].loop = loop
       /\ \A x \in SourcesOf(cfg) \ {s} : src'[x] = src[x]
  <2> HIDE DEF sent, loop
  <2>1. QED  BY <1>2, <1>3, <1>12
<1>17. CfgOk(cfg) /\ QueuedNodes(cfg, node) /\ SinksOf(cfg) \subseteq NodesOf(cfg)
  BY <1>3
<1>18. WiredNodes(cfg, node')
  <2> HIDE DEF cfg
  <2>1. QED  BY <1>10, <1>12, <1>13, <1>15, <1>17, EmittedWired
<1>19. ASSUME NEW x, NEW a, NEW kind, Promised(cfg, node, mark, x, a, kind)
       PROVE  Promised(cfg, node', mark', x, a, kind)
  <2>1. \A k \in DOMAIN bs : ~Low(bs[k], x, a)
    BY <1>15 DEF Low
  <2> HIDE DEF cfg
  <2>2. Promised(cfg, node', mark, x, a, kind)
    BY <1>10, <1>12, <1>13, <1>17, <1>19, <2>1, EmittedKeeps
  <2>3. QED  BY <2>2, <1>15
<1>20. ASSUME NEW x \in SourcesOf(cfg), src'[x].sent = src[x].sent, src'[x].loop = src[x].loop
       PROVE  SourceFlow(x)'
  BY <1>13, <1>15, <1>19, <1>20, SourceFlowKept
<1>21. SourceFlow(s)'
  <2>1. CASE bs = <<>>
    <3>1. loop = "poll" /\ sent = src[s].sent
      BY <1>10, <2>1
    <3>2. QED  BY <1>1, <1>12, <1>16, <1>20, <3>1
  <2>2. CASE bs # <<>>
    <3> DEFINE last == bs[Len(bs)]
               a == AckBlock(last)
    <3>1. sent = a
      BY <2>2 DEF Last
    <3>2. Len(bs) \in DOMAIN bs
      BY <1>10, <2>2, QueuePositions
    <3>3. a \in Nat /\ last.source = s /\ ~IsRollback(last)
      BY <1>11, <1>15, <3>2 DEF QueueOk, BatchOk
    <3>4. Ends(c, plan) => IsControl(last) /\ a = plan.next
      BY <1>10
    <3>5. SourceCfg(s)' = c
      BY <1>7, <1>15 DEF SourceCfg, Cfg
    <3>6. ASSUME NEW kind \in {"any", "control"}, Owed(s, kind)'  PROVE Promised(cfg, node', mark, s, a, kind)
      <4>1. kind = "control" => Ends(c, plan)
        BY <1>16, <3>6 DEF Owed
      <4>2. a >= a
        BY <3>3
      <4> HIDE DEF last, a
      <4>3. Good(last, s, a, kind)
        BY <3>3, <3>4, <4>1, <4>2 DEF Good, a
      <4>4. Good(bs[Len(bs)], s, a, kind)
        BY <4>3 DEF last
      <4> HIDE DEF cfg
      <4>5. QED  BY <1>10, <1>12, <1>13, <1>15, <1>17, <2>2, <4>4, EmittedPromised
    <3> HIDE DEF a
    <3>7. a \in OptNat /\ a # None
      BY <3>3, NoneAssumption DEF OptNat
    <3>8. loop = "done" => Ends(c, plan)
      OBVIOUS
    <3> HIDE DEF loop, sent
    <3>9. src'[s].sent = a /\ (src'[s].loop = "done" => c.to_block # None /\ a >= c.to_block)
      BY <1>8, <1>16, <3>1, <3>4, <3>8
    <3>10. \A kind \in {"any", "control"} : Owed(s, kind)' => Promised(run'.cfg, node', mark', s, src'[s].sent, kind)
      BY <1>15, <3>6, <3>9
    <3>11. QED  BY <3>5, <3>7, <3>9, <3>10 DEF SourceFlow
  <2>3. QED  BY <2>1, <2>2
<1>22. \A x \in SourcesOf(cfg) : SourceFlow(x)'
  <2>1. ASSUME NEW x \in SourcesOf(cfg), x # s  PROVE SourceFlow(x)'
    BY <1>16, <1>20, <2>1
  <2>2. QED  BY <1>21, <2>1
<1>23. /\ StoppedBy' /\ \A n \in SinksOf(cfg) : node'[n].up \/ n \in run'.paused
  BY <1>1, <1>12, <1>13, <1>15, <1>17 DEF StoppedBy
<1>24. QED  BY <1>1, <1>13, <1>14, <1>15, <1>18, <1>22, <1>23, WorkKeepsFlow


\* A source notices a reorg: what it owes from then on is no higher than where
\* the rollback takes its sinks.
LEMMA ReorgNoticedKeepsFlow ==
    ASSUME PipeInv, FlowInv, NEW s \in SourceNames, ReorgNoticed(s)
    PROVE  FlowInv'
<1> DEFINE cfg == run.cfg
           b == ControlBatch(s, ChainOf(s), Rollback(ChainOf(s), sc.fork))
           bs == <<b>>
           to == Max({sc.fork + 1, DefaultStart(s)})
           sent == IF src[s].sent = None THEN None ELSE Min({src[s].sent, sc.fork + 1})
<1>1. Active /\ ~run.stop /\ src[s].loop = "poll" /\ UNCHANGED <<sc, run, mark, disk>>
  BY DEF ReorgNoticed, Polling
<1>2. /\ node' = [node EXCEPT ![s].out = Append(@, b)]
      /\ src' = [src EXCEPT ![s].cur = to, ![s].sent = sent]
      /\ past' = [past EXCEPT !.flipped = @ \cup {s}]
  BY DEF ReorgNoticed
<1>3. /\ CfgOk(cfg) /\ SourceNames = SourcesOf(cfg) /\ SourcesOf(cfg) \subseteq NodesOf(cfg)
      /\ SinksOf(cfg) \subseteq NodesOf(cfg) /\ QueuedNodes(cfg, node)
      /\ \A m \in NodesOf(cfg) : NodeOk(m, node[m], cfg, run.stop)
      /\ \A x \in DOMAIN mark : mark[x] \in Nat
      /\ \A x \in SourcesOf(cfg) : x \in DOMAIN src /\ {"cur", "loop", "sent"} \subseteq DOMAIN src[x]
  BY <1>1, GraphAtWork
<1>4. sc.fork \in Nat
  BY <1>1, AtWork
<1>5. b.source = s /\ b.control.at = sc.fork
  BY DEF ControlBatch, Rollback
<1> HIDE DEF b, to, sent
<1>6. IsSeq(bs) /\ DOMAIN bs = {1} /\ bs[1] = b
  <2>1. <<b>> \in Seq({b}) /\ DOMAIN <<b>> = {1} /\ <<b>>[1] = b
    OBVIOUS
  <2>2. QED  BY <2>1, SeqIsSeq
<1>7. node' = [node EXCEPT ![s].out = @ \o bs]
  <2>1. IsSeq(node[s].out)
    BY <1>3 DEF QueuedNodes, QueuedNode
  <2>2. Append(node[s].out, b) = node[s].out \o <<b>>
    BY <2>1 DEF IsSeq
  <2>3. [node EXCEPT ![s].out = Append(@, b)] = [node EXCEPT ![s].out = @ \o <<b>>]
    BY <2>2, Zenon
  <2>4. QED  BY <2>3, <1>2
<1> HIDE DEF bs
<1>8. /\ Emits(cfg, node, node', s, bs)
      /\ s \in SourcesOf(cfg) /\ s \in NodesOf(cfg) /\ s \notin SinksOf(cfg) /\ node[s].up
      /\ \A m \in NodesOf(cfg) : node'[m].up = node[m].up
  BY <1>1, <1>7, FeedEmits
<1>9. /\ WiredNodes(cfg, node) /\ StoppedBy /\ \A x \in SourcesOf(cfg) : SourceFlow(x)
      /\ \A n \in SinksOf(cfg) : node[n].up \/ n \in run.paused
  BY <1>1 DEF FlowInv, Active
<1>10. ~run.eof
  BY <1>1, <1>3, BusyNotEnded
<1>11. WiredNodes(cfg, node')
  <2>1. \A k \in DOMAIN bs : bs[k].source = s
    BY <1>5, <1>6
  <2> HIDE DEF cfg
  <2>2. QED  BY <1>3, <1>6, <1>8, <1>9, <2>1, EmittedWired
<1>12. ASSUME NEW x, NEW a, NEW kind, Promised(cfg, node, mark, x, a, kind), x = s => ~(sc.fork + 1 < a)
       PROVE  Promised(cfg, node', mark', x, a, kind)
  <2>1. \A k \in DOMAIN bs : ~Low(bs[k], x, a)
    BY <1>5, <1>6, <1>12 DEF Low
  <2> HIDE DEF cfg
  <2>2. Promised(cfg, node', mark, x, a, kind)
    BY <1>3, <1>6, <1>8, <1>9, <1>12, <2>1, EmittedKeeps
  <2>3. QED  BY <2>2, <1>1
<1>13. /\ src'[s].sent = sent /\ src'[s].loop = src[s].loop
       /\ \A x \in SourcesOf(cfg) \ {s} : src'[x] = src[x]
  BY <1>2, <1>3, <1>8
<1>14. past'.skipped = past.skipped
  BY <1>2 DEF PipeInv, RunInv, PastFields
<1>15. SourceFlow(s)'
  <2>1. CASE src[s].sent = None
    <3>1. sent = None
      BY <2>1 DEF sent
    <3>2. QED  BY <1>1, <1>13, <3>1 DEF SourceFlow, Owed, OptNat
  <2>2. CASE src[s].sent # None
    <3> DEFINE a == src[s].sent
    <3>1. a \in Nat
      BY <1>8, <1>9, <2>2 DEF SourceFlow, OptNat
    <3>2. sent \in Nat /\ sent <= a /\ sent <= sc.fork + 1
      <4>1. sc.fork + 1 \in Nat /\ sent = Min({a, sc.fork + 1})
        BY <1>4, <2>2 DEF sent
      <4> DEFINE e == sc.fork + 1
      <4> HIDE DEF a, e
      <4>2. a \in Int /\ e \in Int /\ e \in Nat
        BY <3>1, <4>1 DEF e
      <4>3. Min({a, e}) = IF a <= e THEN a ELSE e
        BY <4>2, OfTwo
      <4>4. sent = Min({a, e})
        BY <4>1 DEF e
      <4>5. sent \in Nat /\ sent <= a /\ sent <= e
        BY <3>1, <4>2, <4>3, <4>4
      <4>6. QED  BY <4>5 DEF e
    <3>3. ASSUME Owed(s, "any")'  PROVE Promised(cfg, node', mark', s, sent, "any")
      <4>1. Owed(s, "any")
        BY <1>14, <2>2, <3>3 DEF Owed
      <4>2. Promised(cfg, node, mark, s, a, "any")
        BY <1>8, <1>9, <4>1 DEF SourceFlow
      <4>3. \A m \in NodesOf(cfg) : /\ \A i \in DOMAIN node[m].inbox : BatchOk(node[m].inbox[i], cfg)
                                    /\ \A i \in DOMAIN node[m].out : BatchOk(node[m].out[i], cfg)
        BY <1>3 DEF NodeOk, QueueOk
      <4> HIDE DEF a, cfg
      <4>4. Promised(cfg, node, mark, s, sent, "any")
        BY <1>3, <3>1, <3>2, <4>2, <4>3, PromisedLower
      <4>5. ~(sc.fork + 1 < sent)
        BY <1>4, <3>2
      <4>6. QED  BY <4>4, <4>5, <1>12
    <3>4. ~Owed(s, "control")'
      BY <1>1, <1>13 DEF Owed
    <3>5. sent \in OptNat
      BY <3>2 DEF OptNat
    <3>6. QED  BY <1>1, <1>13, <3>3, <3>4, <3>5 DEF SourceFlow
  <2>3. QED  BY <2>1, <2>2
<1>16. \A x \in SourcesOf(cfg) : SourceFlow(x)'
  <2>1. ASSUME NEW x \in SourcesOf(cfg), x # s  PROVE SourceFlow(x)'
    BY <1>1, <1>9, <1>12, <1>13, <1>14, <2>1, SourceFlowKept
  <2>2. QED  BY <1>15, <2>1
<1>17. /\ StoppedBy' /\ \A n \in SinksOf(cfg) : node'[n].up \/ n \in run'.paused
  BY <1>1, <1>3, <1>8, <1>9 DEF StoppedBy
<1>18. QED  BY <1>1, <1>10, <1>11, <1>16, <1>17, WorkKeepsFlow


\* One send of a fan-out, in the graph.
LEMMA FanSendDoes ==
    ASSUME PipeInv, NEW n \in SourceNames \cup ProcessorNames, FanSend(n), WiredNodes(run.cfg, node),
           NEW to, to = node[n].live[node[n].pos], NEW gone, gone = ~node[to].up
    PROVE  /\ Active /\ node[n].up /\ Sending(node[n]) /\ gone \in BOOLEAN /\ node[n].out # <<>> /\ n \in DOMAIN node
           /\ FanSent(run.cfg, node, node', n, to, gone)
           /\ run' = [run EXCEPT !.stop = @ \/ (LiveAfter(node[n], gone) = <<>> /\ n \in SourceNames)]
           /\ UNCHANGED <<sc, src, mark, disk, past>>
<1> DEFINE me == node[n]
           mine == SentBy(me, gone)
<1>1. /\ Active /\ me.up /\ me.out # <<>>
      /\ node' = [node EXCEPT ![n] = mine, ![to].inbox = IF gone THEN @ ELSE Append(@, Head(me.out))]
      /\ run' = [run EXCEPT !.stop = @ \/ (LiveAfter(me, gone) = <<>> /\ n \in SourceNames)]
      /\ UNCHANGED <<sc, src, mark, disk, past>>
  BY Zenon DEF FanSend, LiveAfter, PosAfter, LastAfter, SentBy
<1>2. /\ CfgOk(run.cfg) /\ n \in NodesOf(run.cfg) /\ NodesOf(run.cfg) \subseteq DOMAIN node
      /\ \A m \in NodesOf(run.cfg) : NodeOk(m, node[m], run.cfg, run.stop)
  BY <1>1, GraphAtWork
<1>3. n \in NamesOf(run.cfg.sources) \cup NamesOf(run.cfg.processors)
  BY <1>1, AtWork
<1>4. NodeOk(n, me, run.cfg, run.stop)
  BY <1>2
<1>5. Sending(me)
  <2>1. /\ IsSeq(me.live) /\ IsSeq(me.out) /\ me.live # <<>> /\ (me.pos = 1 \/ me.pos \in 1 .. Len(me.live))
    BY <1>1, <1>3, <1>4 DEF NodeOk, BranchesOk, QueueOk
  <2>2. Len(me.live) \in Nat /\ Len(me.live) # 0
    BY <2>1, QueuePositions
  <2>3. me.pos \in 1 .. Len(me.live)
    BY <2>1, <2>2
  <2>4. QED  BY <1>1, <2>1, <2>3 DEF Sending
<1>6. to # n
  BY <1>1, <1>3, <1>4, BranchesElsewhere
<1>7. to \in NodesOf(run.cfg)
  <2>1. to \in Range(me.live)
    BY <1>5, QueuePositions DEF Sending, Range
  <2>2. Range(me.live) \subseteq Feeds(run.cfg, n)
    BY <1>2 DEF WiredNodes, WiredNode
  <2>3. Feeds(run.cfg, n) \subseteq NodesOf(run.cfg)
    BY <1>2, FeedsOk
  <2>4. QED  BY <2>1, <2>2, <2>3
<1>8. SenderAfter(me, mine, gone)
  <2> DEFINE live == LiveAfter(me, gone)
             last == LastAfter(me, gone)
             next == PosAfter(me, gone)
  <2>1. mine = [me EXCEPT !.live = live, !.pos = IF last THEN 1 ELSE next,
                          !.out = IF live = <<>> THEN <<>> ELSE IF last THEN Tail(@) ELSE @,
                          !.inbox = IF live = <<>> THEN <<>> ELSE @, !.up = live # <<>>]
    BY DEF SentBy
  <2> HIDE DEF live, last, next, mine, me
  <2>2. /\ mine.live = live /\ mine.pos = IF last THEN 1 ELSE next
        /\ mine.out = IF live = <<>> THEN <<>> ELSE IF last THEN Tail(me.out) ELSE me.out
        /\ mine.inbox = IF live = <<>> THEN <<>> ELSE me.inbox
        /\ mine.up = (live # <<>>)
    BY <2>1, <1>4 DEF NodeOk, NodeFields
  <2>3. QED  BY <2>2 DEF SenderAfter, live, last, next
<1>9. /\ node'[n] = mine
      /\ \A m \in DOMAIN node \ {n, to} : node'[m] = node[m]
      /\ node'[to] = [node[to] EXCEPT !.inbox = IF gone THEN @ ELSE Append(@, Head(me.out))]
  <2>1. n \in DOMAIN node /\ to \in DOMAIN node
    BY <1>2, <1>7
  <2> HIDE DEF mine, me
  <2>2. QED  BY <1>1, <1>6, <2>1
<1>10. /\ node'[to].inbox = IF gone THEN node[to].inbox ELSE Append(node[to].inbox, Head(me.out))
       /\ node'[to].out = node[to].out /\ node'[to].live = node[to].live /\ node'[to].pos = node[to].pos
       /\ node'[to].up = node[to].up
  <2>1. NodeOk(to, node[to], run.cfg, run.stop)
    BY <1>2, <1>7
  <2> HIDE DEF me
  <2>2. QED  BY <1>9, <2>1 DEF NodeOk, NodeFields
<1>11. FanSent(run.cfg, node, node', n, to, gone)
  <2>1. \A m \in NodesOf(run.cfg) \ {n, to} : node'[m] = node[m]
    BY <1>2, <1>9
  <2> HIDE DEF mine
  <2>2. QED  BY <1>6, <1>8, <1>9, <1>10, <2>1 DEF FanSent
<1>12. n \in DOMAIN node
  BY <1>2
<1>13. QED  BY <1>1, <1>5, <1>11, <1>12

\* A fan-out sends to one branch.
LEMMA FanSendKeepsFlow ==
    ASSUME PipeInv, FlowInv, NEW n \in SourceNames \cup ProcessorNames, FanSend(n)
    PROVE  FlowInv'
<1> DEFINE cfg == run.cfg
           to == node[n].live[node[n].pos]
           gone == ~node[to].up
<1>1. Active
  BY DEF FanSend
<1>2. /\ WiredNodes(cfg, node) /\ StoppedBy /\ \A x \in SourcesOf(cfg) : SourceFlow(x)
      /\ \A m \in SinksOf(cfg) : node[m].up \/ m \in run.paused
  BY <1>1 DEF FlowInv, Active
<1>3. /\ node[n].up /\ Sending(node[n]) /\ gone \in BOOLEAN /\ node[n].out # <<>> /\ n \in DOMAIN node
      /\ FanSent(cfg, node, node', n, to, gone)
      /\ run' = [run EXCEPT !.stop = @ \/ (LiveAfter(node[n], gone) = <<>> /\ n \in SourceNames)]
      /\ UNCHANGED <<sc, src, mark, disk, past>>
  BY <1>2, FanSendDoes
<1> HIDE DEF to, gone
<1>4. /\ CfgOk(cfg) /\ QueuedNodes(cfg, node) /\ SinksOf(cfg) \subseteq NodesOf(cfg)
      /\ SourceNames = SourcesOf(cfg) /\ SourcesOf(cfg) \subseteq NodesOf(cfg)
      /\ n \in NodesOf(cfg) /\ n \notin SinksOf(cfg)
  BY <1>1, GraphAtWork
<1>5. /\ run'.cfg = run.cfg /\ run'.phase = run.phase /\ run'.eof = run.eof /\ run'.paused = run.paused
      /\ run'.stop = (run.stop \/ (LiveAfter(node[n], gone) = <<>> /\ n \in SourceNames))
  BY <1>3 DEF PipeInv, RunInv, RunFields
<1>6. ~run.eof
  BY <1>1, <1>3, BusyNotEnded DEF Idle
<1>7. WiredNodes(cfg, node')
  <2> HIDE DEF cfg
  <2>1. QED  BY <1>2, <1>3, <1>4, SentWired
<1>8. ASSUME NEW x, NEW a, NEW kind, Promised(cfg, node, mark, x, a, kind)
      PROVE  Promised(cfg, node', mark', x, a, kind)
  <2> HIDE DEF cfg
  <2>1. Promised(cfg, node', mark, x, a, kind)
    BY <1>2, <1>3, <1>4, <1>8, SentPromised
  <2>2. QED  BY <2>1, <1>3
<1>9. \A x \in SourcesOf(cfg) : SourceFlow(x)'
  <2>1. ASSUME NEW x \in SourcesOf(cfg)  PROVE SourceFlow(x)'
    BY <1>2, <1>3, <1>5, <1>8, SourceFlowKept
  <2>2. QED  BY <2>1
<1>10. /\ to \in Feeds(cfg, n) /\ to \in NodesOf(cfg) /\ n \notin Feeds(cfg, n)
       /\ \A m \in NodesOf(cfg) : node'[m].up => node[m].up
       /\ \A m \in NodesOf(cfg) \ {n} : node[m].up => node'[m].up
       /\ ~gone => node'[n].up
       /\ \A c \in Feeds(cfg, n) : node[c].up => node'[n].up
  <2> HIDE DEF cfg
  <2>1. QED  BY <1>2, <1>3, <1>4, UpAfterSend
<1>11. \A m \in SinksOf(cfg) : node'[m].up \/ m \in run'.paused
  BY <1>2, <1>4, <1>5, <1>10
<1>12. StoppedBy'
  <2> SUFFICES ASSUME run'.phase = "running", run'.stop  PROVE \E s \in SourcesOf(run'.cfg) : ~node'[s].up
    BY DEF StoppedBy
  <2>1. CASE run.stop
    <3>1. PICK s \in SourcesOf(cfg) : ~node[s].up
      BY <1>2, <1>5, <2>1 DEF StoppedBy
    <3>2. QED  BY <3>1, <1>4, <1>5, <1>10
  <2>2. CASE LiveAfter(node[n], gone) = <<>> /\ n \in SourceNames
    <3>1. ~node'[n].up
      BY <1>3, <2>2 DEF FanSent, SenderAfter
    <3>2. QED  BY <3>1, <2>2, <1>4, <1>5
  <2>3. QED  BY <2>1, <2>2, <1>5
<1>13. QED  BY <1>1, <1>2, <1>5, <1>6, <1>7, <1>9, <1>11, <1>12, WorkKeepsFlow


\* No processor fails on a control batch: it goes through every module as it is.
LEMMA ControlNeverSkipped ==
    ASSUME NEW p, IsControl(Head(node[p].inbox))
    PROVE  ProcessOk(p)
<1> DEFINE b == Head(node[p].inbox)
           r == CallProcess(node[p].ctx, Instance(node[p].pool), b)
<1>1. r = Result("ok", Instance(node[p].pool), <<Encode(b)>>)
  BY ControlPasses
<1>2. r.res = "ok" /\ r.out = <<Encode(b)>>
  BY <1>1 DEF Result
<1>3. ASSUME NEW i \in DOMAIN <<Encode(b)>>  PROVE Decodes(<<Encode(b)>>[i])
  BY <1>3 DEF Decodes, Encode, Encodings
<1> HIDE DEF r, b
<1>4. QED  BY <1>2, <1>3, Zenon DEF ProcessOk, r, b

\* What a processor sends moves and lowers watermarks as the batch in hand
\* does, unless it has failed on that batch.
LEMMA ProcessFlows ==
    ASSUME NEW cfg, NEW p, BatchOk(Head(node[p].inbox), cfg)
    PROVE  /\ \A i \in DOMAIN ProcessSends(p) : ProcessSends(p)[i].source = Head(node[p].inbox).source
           /\ \A s, a : \A i \in DOMAIN ProcessSends(p) : Low(ProcessSends(p)[i], s, a) => Low(Head(node[p].inbox), s, a)
           /\ \A s, a, kind : /\ Good(Head(node[p].inbox), s, a, kind)
                              /\ ProcessOk(p) \/ kind = "control"
                              => \E i \in DOMAIN ProcessSends(p) : Good(ProcessSends(p)[i], s, a, kind)
<1> DEFINE b == Head(node[p].inbox)
           sent == ProcessSends(p)
<1>1. CASE ProcessOk(p)
  <2>1. CallProcess(node[p].ctx, Instance(node[p].pool), b).res = "ok"
    BY <1>1, Zenon DEF ProcessOk
  <2>2. sent = Sends(node[p].ctx, Instance(node[p].pool), b)
    BY <1>1, Zenon DEF ProcessSends
  <2>3. PICK x : Sends(node[p].ctx, Instance(node[p].pool), b) = <<x>> /\ Product(b, x)
    BY <2>1, SendsProducts
  <2>4. /\ x.source = b.source
        /\ \A s, a, kind : Good(b, s, a, kind) => Good(x, s, a, kind)
        /\ \A s, a : Low(x, s, a) => Low(b, s, a)
    <3> HIDE DEF b
    <3>1. BatchFields \subseteq DOMAIN b
      BY DEF BatchOk, b
    <3>2. QED  BY <2>3, <3>1, ProductFlows
  <2> HIDE DEF sent, b
  <2>5. sent = <<x>>
    BY <2>2, <2>3
  <2>6. DOMAIN sent = {1} /\ sent[1] = x
    BY <2>5
  <2>7. QED  BY <2>4, <2>6 DEF sent, b
<1>2. CASE ~ProcessOk(p)
  <2>1. DOMAIN sent = {}
    BY <1>2 DEF ProcessSends
  <2>2. ~IsControl(b)
    BY <1>2, ControlNeverSkipped
  <2> HIDE DEF sent, b
  <2>3. QED  BY <1>2, <2>1, <2>2 DEF Good, sent, b
<1>3. QED  BY <1>1, <1>2

\* A processor works on a batch.
LEMMA ProcessKeepsFlow ==
    ASSUME PipeInv, FlowInv, NEW p \in ProcessorNames, Process(p)
    PROVE  FlowInv'
<1> DEFINE cfg == run.cfg
           b == Head(node[p].inbox)
           sent == ProcessSends(p)
<1>1. Active /\ node[p].up /\ node[p].inbox # <<>> /\ node[p].out = <<>> /\ UNCHANGED <<run, src, mark>>
  BY ProcessDoes
<1>2. PICK pool : node' = [node EXCEPT ![p].inbox = Tail(@), ![p].out = sent, ![p].pool = pool]
  BY ProcessDoes
<1>3. past' = IF ProcessOk(p) THEN past
              ELSE [past EXCEPT !.skipped = @ \cup ({p} \X (IdsOf(b.records) \cup {None}))]
  BY ProcessDoes
<1>4. /\ CfgOk(cfg) /\ QueuedNodes(cfg, node) /\ p \in NodesOf(cfg) /\ p \notin SinksOf(cfg)
      /\ SourcesOf(cfg) \subseteq NodesOf(cfg) /\ SinksOf(cfg) \subseteq NodesOf(cfg)
      /\ NodesOf(cfg) \subseteq DOMAIN node
      /\ \A m \in NodesOf(cfg) : NodeOk(m, node[m], cfg, run.stop)
  BY <1>1, GraphAtWork
<1>5. /\ WiredNodes(cfg, node) /\ StoppedBy /\ \A x \in SourcesOf(cfg) : SourceFlow(x)
      /\ \A m \in SinksOf(cfg) : node[m].up \/ m \in run.paused
  BY <1>1 DEF FlowInv, Active
<1>6. ~run.eof
  <2>1. p \in DOMAIN node /\ ~Idle(p)
    BY <1>1, <1>4 DEF Idle
  <2>2. QED  BY <1>1, <2>1, BusyNotEnded
<1>7. BatchOk(b, cfg)
  <2>1. QueueOk(node[p].inbox, cfg)
    BY <1>4 DEF NodeOk
  <2>2. QED  BY <1>1, <2>1, TailQueue
<1>8. /\ \A i \in DOMAIN sent : sent[i].source = b.source
      /\ \A s, a : \A i \in DOMAIN sent : Low(sent[i], s, a) => Low(b, s, a)
      /\ \A s, a, kind : Good(b, s, a, kind) /\ (ProcessOk(p) \/ kind = "control")
                              => \E i \in DOMAIN sent : Good(sent[i], s, a, kind)
  <2> HIDE DEF cfg
  <2>1. QED  BY <1>7, ProcessFlows
<1> HIDE DEF sent
<1>9. Processed(cfg, node, node', p, sent) /\ DOMAIN node' = DOMAIN node
  <2>1. p \in DOMAIN node /\ NodeFields \subseteq DOMAIN node[p]
    BY <1>4 DEF NodeOk
  <2>2. node'[p] = [node[p] EXCEPT !.inbox = Tail(@), !.out = sent, !.pool = pool]
    BY <1>2, <2>1
  <2>3. /\ node'[p].inbox = Tail(node[p].inbox) /\ node'[p].out = sent /\ node'[p].live = node[p].live
        /\ node'[p].pos = node[p].pos /\ node'[p].up = node[p].up
    BY <2>1, <2>2 DEF NodeFields
  <2>4. DOMAIN node' = DOMAIN node /\ \A m \in DOMAIN node \ {p} : node'[m] = node[m]
    BY <1>2
  <2>5. QED  BY <2>3, <2>4, <1>4 DEF Processed
<1>10. WiredNodes(cfg, node')
  <2> HIDE DEF cfg
  <2>1. QED  BY <1>1, <1>4, <1>5, <1>8, <1>9, ProcessedWired
<1>11. /\ past'.skipped = {} => ProcessOk(p)
       /\ past'.skipped = {} => past.skipped = {}
  <2>1. "skipped" \in DOMAIN past
    BY DEF PipeInv, RunInv, PastFields
  <2>2. CASE ProcessOk(p)
    BY <1>3, <2>2
  <2>3. CASE ~ProcessOk(p)
    <3>1. <<p, None>> \in past'.skipped
      BY <1>3, <2>1, <2>3
    <3>2. QED  BY <3>1
  <2>4. QED  BY <2>2, <2>3
<1>12. ASSUME NEW s \in SourcesOf(cfg), NEW a, NEW kind, Promised(cfg, node, mark, s, a, kind), ProcessOk(p) \/ kind = "control"
       PROVE  Promised(cfg, node', mark', s, a, kind)
  <2>1. s \in NodesOf(cfg)
    BY <1>4
  <2>2. /\ Good(b, s, a, kind) => \E i \in DOMAIN sent : Good(sent[i], s, a, kind)
        /\ \A i \in DOMAIN sent : Low(sent[i], s, a) => Low(b, s, a)
    BY <1>8, <1>12
  <2> HIDE DEF cfg
  <2>3. Promised(cfg, node', mark, s, a, kind)
    BY <1>1, <1>4, <1>5, <1>9, <1>12, <2>1, <2>2, ProcessedPromised
  <2>4. QED  BY <2>3, <1>1
<1>13. \A x \in SourcesOf(cfg) : SourceFlow(x)'
  <2>1. ASSUME NEW x \in SourcesOf(cfg)  PROVE SourceFlow(x)'
    <3>1. \A kind \in {"any", "control"} : Owed(x, kind)' => ProcessOk(p) \/ kind = "control"
      BY <1>11 DEF Owed
    <3>2. \A kind \in {"any", "control"} : Owed(x, kind)' /\ Promised(run.cfg, node, mark, x, src[x].sent, kind)
                                               => Promised(run.cfg, node', mark', x, src[x].sent, kind)
      BY <1>12, <2>1, <3>1
    <3>3. QED  BY <1>1, <1>5, <1>11, <2>1, <3>2, SourceFlowKept
  <2>2. QED  BY <2>1
<1>14. \A m \in NodesOf(cfg) : node'[m].up = node[m].up
  BY <1>9 DEF Processed
<1>15. /\ StoppedBy' /\ \A m \in SinksOf(cfg) : node'[m].up \/ m \in run'.paused
  BY <1>1, <1>4, <1>5, <1>14 DEF StoppedBy
<1>16. QED  BY <1>1, <1>6, <1>10, <1>13, <1>15, WorkKeepsFlow



\* How a successful write moves the watermarks of a sink: an ack takes the one
\* of its source to the block of the batch at least, a rewind no further down
\* than the block after the fork; those of other sources and sinks stay.
LEMMA WriteMoves ==
    ASSUME NEW n, NEW b, AckBlock(b) \in Nat, IsRollback(b) => b.control.at \in Nat,
           \A x \in DOMAIN mark : mark[x] \in Nat, NEW new,
           new = IF IsRollback(b) THEN Rewound(<<b.source, n>>, b.control.at + 1) ELSE Acked(<<b.source, n>>, b),
           NEW s, NEW a \in Nat
    PROVE  /\ \A m : m # n /\ At(mark, s, m, a) => At(new, s, m, a)
           /\ \A kind : Good(b, s, a, kind) => At(new, s, n, a)
           /\ ~Low(b, s, a) /\ At(mark, s, n, a) => At(new, s, n, a)
<1> DEFINE pair == <<b.source, n>>
           ack == AckBlock(b)
           to == b.control.at + 1
<1>1. PICK v \in Nat : /\ new = Put(mark, pair, v)
                       /\ ~IsRollback(b) => ack <= v /\ (pair \in DOMAIN mark => mark[pair] <= v)
                       /\ IsRollback(b) => (pair \in DOMAIN mark => v = IF mark[pair] <= to THEN mark[pair] ELSE to)
  <2>1. CASE IsRollback(b)
    <3>1. to \in Nat
      BY <2>1
    <3>2. new = Rewound(pair, to)
      BY <2>1
    <3> HIDE DEF to, pair
    <3>3. \E v \in Nat : /\ Rewound(pair, to) = Put(mark, pair, v)
                         /\ pair \in DOMAIN mark => v = IF mark[pair] <= to THEN mark[pair] ELSE to
      BY <3>1, RewoundOk
    <3>4. QED  BY <2>1, <3>2, <3>3
  <2>2. CASE ~IsRollback(b)
    <3>1. new = Acked(pair, b)
      BY <2>2
    <3> HIDE DEF pair
    <3>2. \E v \in Nat : /\ Acked(pair, b) = Put(mark, pair, v) /\ AckBlock(b) <= v
                         /\ pair \in DOMAIN mark => mark[pair] <= v
      BY AckedOk
    <3>3. QED  BY <2>2, <3>1, <3>2
  <2>3. QED  BY <2>1, <2>2
<1>2. ack \in Nat /\ (IsRollback(b) => to \in Nat)
  OBVIOUS
<1>3. /\ DOMAIN new = DOMAIN mark \cup {pair} /\ new[pair] = v
      /\ \A x \in DOMAIN mark \ {pair} : new[x] = mark[x]
  <2> HIDE DEF pair
  <2>1. QED  BY <1>1 DEF Put
<1>4. \A m : m # n \/ s # b.source => <<s, m>> # pair
  OBVIOUS
<1>5. s = b.source => <<s, n>> = pair
  OBVIOUS
<1>6. \A m : (m # n \/ s # b.source) /\ At(mark, s, m, a) => At(new, s, m, a)
  <2> HIDE DEF pair
  <2>1. QED  BY <1>3, <1>4 DEF At
<1>7. \A kind : Good(b, s, a, kind) => s = b.source /\ ~IsRollback(b) /\ ack >= a
  BY DEF Good
<1>8. ~Low(b, s, a) /\ s = b.source /\ IsRollback(b) => ~(to < a)
  BY DEF Low
<1> HIDE DEF pair, ack, to
<1>9. \A kind : Good(b, s, a, kind) => At(new, s, n, a)
  BY <1>1, <1>2, <1>3, <1>5, <1>7 DEF At
<1>10. ASSUME ~Low(b, s, a), At(mark, s, n, a), s = b.source  PROVE At(new, s, n, a)
  <2>1. pair \in DOMAIN mark /\ mark[pair] >= a /\ mark[pair] \in Nat
    BY <1>5, <1>10 DEF At
  <2>2. v >= a
    BY <1>1, <1>2, <1>8, <1>10, <2>1
  <2>3. QED  BY <1>3, <1>5, <1>10, <2>2 DEF At
<1>11. QED  BY <1>6, <1>9, <1>10


\* One attempt of a sink, in the graph: it takes the batch from its queue and
\* moves a watermark, keeps it for another attempt, or pauses.
LEMMA SinkStepDoes ==
    ASSUME PipeInv, NEW n \in SinkNames, NEW f, SinkStep(n, f)
    PROVE  /\ Active /\ node[n].up /\ node[n].inbox # <<>> /\ UNCHANGED src
           /\ DOMAIN node' = DOMAIN node /\ n \in DOMAIN node /\ SinkChanged(run.cfg, node, node', n)
           /\ BatchOk(Head(node[n].inbox), run.cfg)
           /\ run'.cfg = run.cfg /\ run'.phase = run.phase /\ run'.eof = run.eof /\ run'.stop = run.stop
           /\ run.paused \subseteq run'.paused /\ past'.skipped = past.skipped
           /\ \/ node'[n].up /\ node'[n].inbox = node[n].inbox /\ mark' = mark
              \/ /\ node'[n].up /\ node'[n].inbox = Tail(node[n].inbox)
                 /\ mark' = IF IsRollback(Head(node[n].inbox))
                            THEN Rewound(<<Head(node[n].inbox).source, n>>, Head(node[n].inbox).control.at + 1)
                            ELSE Acked(<<Head(node[n].inbox).source, n>>, Head(node[n].inbox))
              \/ /\ ~node'[n].up /\ node'[n].inbox = <<>> /\ n \in run'.paused
                 /\ \/ mark' = mark
                    \/ mark' = IF IsRollback(Head(node[n].inbox))
                               THEN Rewound(<<Head(node[n].inbox).source, n>>, Head(node[n].inbox).control.at + 1)
                               ELSE Acked(<<Head(node[n].inbox).source, n>>, Head(node[n].inbox))
<1> DEFINE me == node[n]
           b == Head(me.inbox)
           pair == <<b.source, n>>
           moved == IF IsRollback(b) THEN Rewound(pair, b.control.at + 1) ELSE Acked(pair, b)
<1>1. Active /\ me.up /\ me.inbox # <<>> /\ UNCHANGED src
  BY DEF SinkStep
<1>2. PICK w : Written(n, b, f, w)
  BY Zenon DEF SinkStep
<1> DEFINE unwound == w.res = "ok" /\ IsRollback(b) /\ f.fault = "rewind"
           failed == w.res \notin {"ok", "panic"}
           pauses == w.res = "panic" \/ (failed /\ me.attempt + 1 >= MaxAttempts) \/ unwound
           attempt == IF failed THEN me.attempt + 1 ELSE 0
           inbox == IF pauses THEN <<>> ELSE IF failed THEN me.inbox ELSE Tail(me.inbox)
<1>3. /\ node' = [node EXCEPT ![n] = [me EXCEPT !.pool = w.pool, !.up = ~pauses, !.attempt = attempt, !.inbox = inbox]]
      /\ run' = [run EXCEPT !.paused = @ \cup IF pauses THEN {n} ELSE {}]
      /\ past' = [Recorded(n, b, f, w) EXCEPT !.unwound = @ \cup IF unwound THEN {pair} ELSE {}]
      /\ w.res # "ok" => mark' = mark
      /\ w.res = "ok" => mark' = moved
  BY <1>2, Zenon DEF Written
<1>4. (w.res # "ok" \/ ~failed) /\ (~pauses /\ ~failed => w.res = "ok")
  OBVIOUS
<1>5. /\ n \in NodesOf(run.cfg) /\ NodesOf(run.cfg) \subseteq DOMAIN node /\ NodeOk(n, me, run.cfg, run.stop)
  BY <1>1, GraphAtWork
<1>6. n \in DOMAIN node /\ NodeFields \subseteq DOMAIN me /\ BatchOk(b, run.cfg)
  BY <1>1, <1>5, TailQueue DEF NodeOk
<1> HIDE DEF moved, inbox, attempt, pauses, unwound, failed, me
<1>7. /\ DOMAIN node' = DOMAIN node /\ \A m \in DOMAIN node \ {n} : node'[m] = node[m]
      /\ node'[n] = [me EXCEPT !.pool = w.pool, !.up = ~pauses, !.attempt = attempt, !.inbox = inbox]
  BY <1>3, <1>6
<1>8. /\ node'[n].up = ~pauses /\ node'[n].inbox = inbox /\ node'[n].out = me.out /\ node'[n].live = me.live
      /\ node'[n].pos = me.pos
  BY <1>6, <1>7 DEF NodeFields
<1>9. SinkChanged(run.cfg, node, node', n)
  BY <1>5, <1>7, <1>8 DEF SinkChanged, me
<1>10. /\ run'.cfg = run.cfg /\ run'.phase = run.phase /\ run'.eof = run.eof /\ run'.stop = run.stop
       /\ run'.paused = run.paused \cup IF pauses THEN {n} ELSE {}
  BY <1>3 DEF PipeInv, RunInv, RunFields
<1>11. past'.skipped = past.skipped
  <2>1. DOMAIN Recorded(n, b, f, w) = DOMAIN past /\ Recorded(n, b, f, w).skipped = past.skipped
    BY DEF Recorded, PipeInv, RunInv, PastFields
  <2>2. QED  BY <1>3, <2>1
<1>12. CASE pauses
  <2>1. ~node'[n].up /\ node'[n].inbox = <<>> /\ n \in run'.paused
    BY <1>8, <1>10, <1>12 DEF inbox
  <2>2. mark' = mark \/ mark' = moved
    BY <1>3
  <2>3. QED  BY <2>1, <2>2, <1>1, <1>6, <1>7, <1>9, <1>10, <1>11 DEF me, moved
<1>13. CASE ~pauses /\ failed
  <2>1. node'[n].up /\ node'[n].inbox = me.inbox /\ mark' = mark
    BY <1>3, <1>4, <1>8, <1>13 DEF inbox
  <2>2. QED  BY <2>1, <1>1, <1>6, <1>7, <1>9, <1>10, <1>11 DEF me
<1>14. CASE ~pauses /\ ~failed
  <2>1. node'[n].up /\ node'[n].inbox = Tail(me.inbox)
    BY <1>8, <1>14 DEF inbox
  <2>2. mark' = moved
    BY <1>3, <1>4, <1>14
  <2>3. QED  BY <2>1, <2>2, <1>1, <1>6, <1>7, <1>9, <1>10, <1>11 DEF me, moved
<1>15. QED  BY <1>12, <1>13, <1>14


\* One attempt of a sink.
LEMMA SinkStepKeepsFlow ==
    ASSUME PipeInv, FlowInv, NEW n \in SinkNames, NEW f, SinkStep(n, f)
    PROVE  FlowInv'
<1> DEFINE cfg == run.cfg
           b == Head(node[n].inbox)
           moved == IF IsRollback(b) THEN Rewound(<<b.source, n>>, b.control.at + 1) ELSE Acked(<<b.source, n>>, b)
<1>1. /\ Active /\ node[n].up /\ node[n].inbox # <<>> /\ UNCHANGED src
      /\ DOMAIN node' = DOMAIN node /\ n \in DOMAIN node /\ SinkChanged(cfg, node, node', n) /\ BatchOk(b, cfg)
      /\ run'.cfg = run.cfg /\ run'.phase = run.phase /\ run'.eof = run.eof /\ run'.stop = run.stop
      /\ run.paused \subseteq run'.paused /\ past'.skipped = past.skipped
  BY SinkStepDoes
<1>2. \/ node'[n].up /\ node'[n].inbox = node[n].inbox /\ mark' = mark
      \/ node'[n].up /\ node'[n].inbox = Tail(node[n].inbox) /\ mark' = moved
      \/ ~node'[n].up /\ node'[n].inbox = <<>> /\ n \in run'.paused /\ (mark' = mark \/ mark' = moved)
  BY SinkStepDoes
<1>3. /\ CfgOk(cfg) /\ QueuedNodes(cfg, node) /\ SinkNames = SinksOf(cfg)
      /\ SourcesOf(cfg) \subseteq NodesOf(cfg) /\ SinksOf(cfg) \subseteq NodesOf(cfg)
      /\ \A x \in DOMAIN mark : mark[x] \in Nat
  BY <1>1, GraphAtWork
<1>4. /\ WiredNodes(cfg, node) /\ StoppedBy /\ \A x \in SourcesOf(cfg) : SourceFlow(x)
      /\ \A m \in SinksOf(cfg) : node[m].up \/ m \in run.paused
  BY <1>1 DEF FlowInv, Active
<1>5. ~run.eof
  <2>1. ~Idle(n)
    BY <1>1 DEF Idle
  <2>2. QED  BY <1>1, <2>1, BusyNotEnded
<1>6. AckBlock(b) \in Nat /\ (IsRollback(b) => b.control.at \in Nat)
  BY <1>1 DEF BatchOk
<1>7. n \in SinksOf(cfg) /\ n \notin SourcesOf(cfg)
  BY <1>3 DEF CfgOk, SinksOf, SourcesOf
<1> HIDE DEF b, moved
<1>8. WiredNodes(cfg, node')
  <2>1. node'[n].inbox = node[n].inbox \/ (node'[n].inbox = Tail(node[n].inbox) /\ node[n].inbox # <<>>) \/ node'[n].inbox = <<>>
    BY <1>1, <1>2
  <2> HIDE DEF cfg
  <2>2. QED  BY <1>1, <1>3, <1>4, <1>7, <2>1, SinkKeepsWired
<1>9. ASSUME NEW s, NEW a \in Nat, mark' = moved
      PROVE  /\ \A m : m # n /\ At(mark, s, m, a) => At(mark', s, m, a)
             /\ \A kind : Good(b, s, a, kind) => At(mark', s, n, a)
             /\ ~Low(b, s, a) /\ At(mark, s, n, a) => At(mark', s, n, a)
  BY <1>3, <1>6, <1>9, WriteMoves DEF moved
<1>10. ASSUME NEW s \in SourcesOf(cfg), NEW a \in Nat, NEW kind, Promised(cfg, node, mark, s, a, kind)
       PROVE  Promised(cfg, node', mark', s, a, kind)
  <2>1. s \in NodesOf(cfg) /\ \A m : m # n /\ At(mark, s, m, a) => At(mark', s, m, a)
    BY <1>2, <1>3, <1>9
  <2> HIDE DEF cfg
  <2>2. CASE node'[n].up /\ node'[n].inbox = node[n].inbox /\ mark' = mark
    <3>1. SameQueues(cfg, node, node')
      BY <1>1, <2>2 DEF SinkChanged, SameQueues
    <3>2. QED  BY <1>3, <1>4, <1>10, <2>2, <3>1, SameKept
  <2>3. CASE node'[n].up /\ node'[n].inbox = Tail(node[n].inbox) /\ mark' = moved
    <3>1. /\ Good(Head(node[n].inbox), s, a, kind) => At(mark', s, n, a)
          /\ ~Low(Head(node[n].inbox), s, a) /\ At(mark, s, n, a) => At(mark', s, n, a)
      BY <1>9, <2>3 DEF b
    <3>2. QED  BY <1>1, <1>3, <1>4, <1>7, <1>10, <2>1, <2>3, <3>1, TakenPromised
  <2>4. CASE ~node'[n].up
    BY <1>1, <1>3, <1>4, <1>7, <1>10, <2>1, <2>4, PausedPromised
  <2>5. QED  BY <1>2, <2>2, <2>3, <2>4
<1>11. \A x \in SourcesOf(cfg) : SourceFlow(x)'
  <2>1. ASSUME NEW x \in SourcesOf(cfg)  PROVE SourceFlow(x)'
    <3>1. \A kind \in {"any", "control"} : Owed(x, kind)' => src[x].sent \in Nat
      BY <1>1, <1>4 DEF Owed, SourceFlow, OptNat
    <3>2. \A kind \in {"any", "control"} : Owed(x, kind)' /\ Promised(run.cfg, node, mark, x, src[x].sent, kind)
                                               => Promised(run.cfg, node', mark', x, src[x].sent, kind)
      BY <1>10, <2>1, <3>1
    <3>3. QED  BY <1>1, <1>4, <2>1, <3>2, SourceFlowKept
  <2>2. QED  BY <2>1
<1>12. \A m \in SinksOf(cfg) : node'[m].up \/ m \in run'.paused
  BY <1>1, <1>2, <1>3, <1>4 DEF SinkChanged
<1>13. StoppedBy'
  BY <1>1, <1>3, <1>4, <1>7 DEF StoppedBy, SinkChanged
<1>14. QED  BY <1>1, <1>5, <1>8, <1>11, <1>12, <1>13, WorkKeepsFlow

\* The periodic checkpoint changes the pools of the sinks alone.
LEMMA TickKeepsFlow ==
    ASSUME PipeInv, FlowInv, Tick
    PROVE  FlowInv'
<1> DEFINE cfg == run.cfg
<1>1. PICK done : /\ past' = [past EXCEPT !.lost = done.lost, !.overwritten = done.overwritten,
                                          !.unwound = IF done.ok THEN {} ELSE @]
                  /\ node' = [n \in DOMAIN node |->
                                IF n \in SinkNames THEN [node[n] EXCEPT !.pool = done.pools[n]] ELSE node[n]]
  BY Zenon DEF Tick, Checkpoint
<1>2. run.phase = "running" /\ run' = [run EXCEPT !.ticking = ~run.stop] /\ UNCHANGED <<src, mark>>
  BY DEF Tick
<1>3. Active
  BY <1>2 DEF Active
<1>4. /\ run'.cfg = run.cfg /\ run'.phase = run.phase /\ run'.eof = run.eof /\ run'.stop = run.stop
      /\ run'.paused = run.paused
  BY <1>2 DEF PipeInv, RunInv, RunFields
<1>5. past'.skipped = past.skipped
  BY <1>1 DEF PipeInv, RunInv, PastFields
<1>6. /\ CfgOk(cfg) /\ NodesOf(cfg) \subseteq DOMAIN node
      /\ SourcesOf(cfg) \subseteq NodesOf(cfg) /\ SinksOf(cfg) \subseteq NodesOf(cfg)
      /\ \A m \in NodesOf(cfg) : NodeOk(m, node[m], cfg, run.stop)
  BY <1>3, GraphAtWork
<1>7. /\ WiredNodes(cfg, node) /\ StoppedBy /\ \A x \in SourcesOf(cfg) : SourceFlow(x)
      /\ \A m \in SinksOf(cfg) : node[m].up \/ m \in run.paused
      /\ ~run.eof
  BY <1>2, <1>3 DEF FlowInv, Active
<1>8. SameQueues(cfg, node, node')
  <2>1. ASSUME NEW m \in NodesOf(cfg)
        PROVE  /\ node'[m].inbox = node[m].inbox /\ node'[m].out = node[m].out /\ node'[m].live = node[m].live
               /\ node'[m].pos = node[m].pos /\ node'[m].up = node[m].up
    <3>1. m \in DOMAIN node /\ NodeFields \subseteq DOMAIN node[m]
      BY <1>6 DEF NodeOk
    <3>2. node'[m] = node[m] \/ node'[m] = [node[m] EXCEPT !.pool = done.pools[m]]
      BY <1>1, <3>1
    <3>3. QED  BY <3>1, <3>2 DEF NodeFields
  <2>2. QED  BY <2>1 DEF SameQueues
<1>9. /\ WiredNodes(cfg, node')
      /\ \A mk, s, a, kind : Promised(cfg, node, mk, s, a, kind) => Promised(cfg, node', mk, s, a, kind)
  <2> HIDE DEF cfg
  <2>1. QED  BY <1>6, <1>7, <1>8, SameKept
<1>10. \A x \in SourcesOf(cfg) : SourceFlow(x)'
  <2>1. ASSUME NEW x \in SourcesOf(cfg)  PROVE SourceFlow(x)'
    BY <1>2, <1>4, <1>5, <1>7, <1>9, SourceFlowKept
  <2>2. QED  BY <2>1
<1>11. StoppedBy' /\ \A m \in SinksOf(cfg) : node'[m].up \/ m \in run'.paused
  BY <1>4, <1>6, <1>7, <1>8 DEF StoppedBy, SameQueues
<1>12. QED  BY <1>3, <1>4, <1>7, <1>9, <1>10, <1>11, WorkKeepsFlow


-----------------------------------------------------------------------------
(* The end of a run, and the next one.                                       *)

\* When every task has returned, every sink that is not paused has its
\* watermark at the end of the range of each of its sources.
LEMMA FinishedAtEnd ==
    ASSUME PipeInv, FlowInv, run.phase = "running", \A n \in DOMAIN node : Idle(n),
           \A s \in SourcesOf(run.cfg) : src[s].loop = "done"
    PROVE  CursorsAtEnd(mark)
<1> DEFINE cfg == run.cfg
           S == {m \in NodesOf(cfg) : ~node[m].up}
<1>1. Active
  BY DEF Active
<1>2. /\ run.cfg # None /\ Cfg = run.cfg /\ CfgOk(cfg) /\ SourceNames = SourcesOf(cfg)
      /\ SourcesOf(cfg) \subseteq NodesOf(cfg) /\ SinksOf(cfg) \subseteq NodesOf(cfg) /\ NodesOf(cfg) \subseteq DOMAIN node
      /\ \A x \in DOMAIN mark : mark[x] \in Nat
  BY <1>1, GraphAtWork
<1>3. /\ WiredNodes(cfg, node) /\ StoppedBy /\ \A x \in SourcesOf(cfg) : SourceFlow(x)
      /\ \A m \in SinksOf(cfg) : node[m].up \/ m \in run.paused
  BY <1>1 DEF FlowInv, Active
<1>4. \A s : Reachable(cfg, s) \subseteq SinksOf(cfg)
  <2> HIDE DEF cfg
  <2>1. QED  BY ReachesSinks
<1>5. SUFFICES ASSUME \A s \in SourcesOf(cfg) : Reachable(cfg, s) \ run.paused # {},
                      NEW s \in SourcesOf(cfg), NEW n \in Reachable(cfg, s) \ run.paused
               PROVE  <<s, n>> \in DOMAIN mark /\ mark[<<s, n>>] >= SourceCfg(s).to_block
  BY DEF CursorsAtEnd
<1>6. ~run.stop
  <2> SUFFICES ASSUME run.stop PROVE FALSE
    OBVIOUS
  <2>1. PICK x \in SourcesOf(cfg) : ~node[x].up
    BY <1>3 DEF StoppedBy
  <2>2. x \in S
    BY <1>2, <2>1
  <2>3. \A m \in S : ~node[m].up
    OBVIOUS
  <2>4. Closed(cfg, S)
    <3> HIDE DEF cfg
    <3>1. QED  BY <1>2, <1>3, DownClosed
  <2> HIDE DEF S, cfg
  <2>5. Reachable(cfg, x) \subseteq S \cap SinksOf(cfg)
    BY <1>2, <2>2, <2>4, ReachableWithin
  <2>6. PICK m \in Reachable(cfg, x) : m \notin run.paused
    BY <1>5, <2>1
  <2>7. QED  BY <1>3, <2>3, <2>5, <2>6
<1>7. SourceFlow(s) /\ src[s].loop = "done"
  BY <1>3
<1> DEFINE a == src[s].sent
           end == SourceCfg(s).to_block
<1>8. a # None /\ end # None /\ a >= end /\ a \in OptNat /\ Promised(cfg, node, mark, s, a, "control")
  BY <1>6, <1>7 DEF SourceFlow, Owed
<1>9. end \in OptNat
  BY <1>2, SourceCfgTyped DEF SourceTyped
<1>10. node[n].up /\ n \in Reachable(cfg, s)
  BY <1>3, <1>4
<1>11. \A m \in NodesOf(cfg) : node[m].inbox = <<>> /\ node[m].out = <<>>
  BY <1>2 DEF Idle
<1> HIDE DEF cfg, a, end
<1>12. At(mark, s, n, a)
  BY <1>2, <1>3, <1>8, <1>10, <1>11, DrainedServed
<1>13. <<s, n>> \in DOMAIN mark /\ mark[<<s, n>>] >= a /\ mark[<<s, n>>] \in Nat
  BY <1>2, <1>12 DEF At
<1>14. a \in Nat /\ end \in Nat
  BY <1>8, <1>9 DEF OptNat
<1>15. mark[<<s, n>>] >= end
  <2> DEFINE m == mark[<<s, n>>]
  <2>1. m \in Nat /\ m >= a
    BY <1>13
  <2> HIDE DEF m
  <2>2. m >= end
    BY <1>8, <1>14, <2>1
  <2>3. QED  BY <2>2 DEF m
<1>16. QED  BY <1>13, <1>15 DEF end

\* The end of a run and a signal change no queue.
LEMMA EndingKeepsFlow ==
    ASSUME PipeInv, FlowInv, Finish \/ Signal
    PROVE  FlowInv'
<1>1. /\ run.phase = "running" /\ UNCHANGED <<src, node, mark, disk, past>>
      /\ \/ Finish /\ run' = [run EXCEPT !.phase = "stopping", !.health = "stopping", !.eof = TRUE]
         \/ run' = [run EXCEPT !.phase = "stopping", !.health = "stopping", !.stop = TRUE]
  BY DEF Finish, Signal
<1>2. /\ run'.cfg = run.cfg /\ run'.phase = "stopping" /\ run'.paused = run.paused
      /\ \/ Finish /\ run'.stop = run.stop
         \/ run'.stop = TRUE /\ run'.eof = run.eof
  BY <1>1 DEF PipeInv, RunInv, RunFields
<1>3. Active
  BY <1>1 DEF Active
<1>4. /\ WiredNodes(run.cfg, node) /\ \A x \in SourcesOf(run.cfg) : SourceFlow(x)
      /\ \A m \in SinksOf(run.cfg) : node[m].up \/ m \in run.paused
      /\ ~run.eof
  BY <1>1 DEF FlowInv
<1>5. \A x \in SourcesOf(run.cfg) : SourceFlow(x)'
  <2>1. ASSUME NEW x \in SourcesOf(run.cfg)  PROVE SourceFlow(x)'
    BY <1>1, <1>2, <1>4, SourceFlowKept
  <2>2. QED  BY <2>1
<1>6. run'.eof => /\ CursorsAtEnd(mark)
                  /\ \A n \in DOMAIN node : Idle(n)
                  /\ \A s \in SourcesOf(run.cfg) : src[s].loop = "done"
  <2>1. CASE Finish
    <3>1. (\A n \in DOMAIN node : Idle(n)) /\ \A s \in SourceNames : src[s].loop = "done"
      BY <2>1 DEF Finish
    <3>2. SourceNames = SourcesOf(run.cfg)
      BY <1>3, GraphAtWork
    <3>3. QED  BY <1>1, <3>1, <3>2, FinishedAtEnd
  <2>2. CASE ~Finish
    BY <1>2, <1>4, <2>2
  <2>3. QED  BY <2>1, <2>2
<1>7. CursorsAtEnd(mark) => CursorsAtEnd(mark)'
  BY <1>1, <1>2 DEF CursorsAtEnd, SourceCfg, Cfg
<1>8. (\A n \in DOMAIN node : Idle(n)) => (\A n \in DOMAIN node : Idle(n))'
  BY <1>1 DEF Idle
<1>9. QED  BY <1>1, <1>2, <1>4, <1>5, <1>6, <1>7, <1>8 DEF FlowInv, StoppedBy


\* The last checkpoint saves the watermarks, or says that it has not.
LEMMA FinalKeepsFlow ==
    ASSUME PipeInv, FlowInv, Final
    PROVE  FlowInv'
<1>1. run.phase = "stopping" /\ run' = [run EXCEPT !.phase = "ended", !.saved = (disk' = mark)]
  BY DEF Final
<1>2. /\ run'.phase = "ended" /\ run'.saved = (disk' = mark) /\ run'.cfg = run.cfg /\ run'.eof = run.eof
      /\ run'.paused = run.paused
  BY <1>1 DEF PipeInv, RunInv, RunFields
<1>3. run.eof => CursorsAtEnd(mark)
  BY <1>1 DEF FlowInv
<1>4. ASSUME run.eof, disk' = mark  PROVE CursorsAtEnd(disk)'
  BY <1>2, <1>3, <1>4 DEF CursorsAtEnd, SourceCfg, Cfg
<1>5. QED  BY <1>2, <1>4 DEF FlowInv

\* A process that dies, or fails to load a module, has ended nothing.
LEMMA DownKeepsFlow ==
    ASSUME run'.phase \in {"failed", "crashed"}
    PROVE  FlowInv'
BY DEF FlowInv

\* A process starts with nothing.
LEMMA StartKeepsFlow ==
    ASSUME PipeInv, FlowInv, Start
    PROVE  FlowInv'
<1> DEFINE r == Load(sc.doc, sc.env)
<1>1. /\ run' = [phase |-> IF r.error # "" THEN "failed" ELSE IF sc.cmds[run.nth + 1] = "validate" THEN "ended" ELSE "open",
                 nth |-> run.nth + 1, cfg |-> r.cfg,
                 said |-> [error |-> r.error, quotes |-> r.quotes, missing |-> r.missing],
                 health |-> "starting", stop |-> FALSE, ticking |-> TRUE, todo |-> <<>>,
                 eof |-> FALSE, saved |-> FALSE, paused |-> {}]
      /\ node' = <<>>
  BY DEF Start
<1> HIDE DEF r
<1>2. run'.phase \in {"failed", "ended", "open"} /\ ~run'.stop /\ ~run'.eof /\ ~run'.saved
  BY <1>1
<1>3. DOMAIN node' = {}
  <2>1. node' = <<>>
    BY <1>1, Zenon
  <2>2. QED  BY <2>1, NobodyThere
<1>4. QED  BY <1>2, <1>3 DEF FlowInv

\* It opens its connections.
LEMMA OpenKeepsFlow ==
    ASSUME PipeInv, FlowInv, Open
    PROVE  FlowInv'
<1>1. run.phase = "open" /\ node' = node
  BY DEF Open
<1> DEFINE todo == [i \in DOMAIN Cfg.processors |-> Cfg.processors[i].name]
                   \o (IF Debug THEN <<>> ELSE [i \in DOMAIN Cfg.sinks |-> Cfg.sinks[i].name])
<1>2. run' = [run EXCEPT !.phase = "load", !.todo = todo] \/ run' = [run EXCEPT !.phase = "failed"]
  BY DEF Open, Fail
<1> HIDE DEF todo
<1>3. /\ run'.cfg = run.cfg /\ run'.stop = run.stop /\ run'.eof = run.eof
      /\ run'.phase \in {"load", "failed"}
  BY <1>2 DEF PipeInv, RunInv, RunFields
<1>4. QED  BY <1>1, <1>3 DEF FlowInv

\* A task as it is made.
Unused(me, n) ==
    /\ me.inbox = <<>> /\ me.out = <<>> /\ me.pos = 1 /\ me.up
    /\ me.live = ConsumersOf(run.cfg, n)

\* It loads a module.
LEMMA InstantiateKeepsFlow ==
    ASSUME PipeInv, FlowInv, Instantiate
    PROVE  FlowInv'
<1>1. run.phase = "load"
  BY DEF Instantiate, Loading
<1>2. CASE Fail
  <2>1. run'.phase = "failed"
    BY <1>2 DEF Fail, PipeInv, RunInv, RunFields
  <2>2. QED  BY <2>1, DownKeepsFlow
<1>3. ASSUME NEW ctx, NEW pool, node' = Put(node, Next1, Fresh(Next1, ctx, pool)), run' = [run EXCEPT !.todo = Tail(@)]
      PROVE  FlowInv'
  <2>1. run'.cfg = run.cfg /\ run'.stop = run.stop /\ run'.eof = run.eof /\ run'.phase = "load"
    BY <1>1, <1>3 DEF PipeInv, RunInv, RunFields
  <2>2. /\ DOMAIN node' = DOMAIN node \cup {Next1}
        /\ \A n \in DOMAIN node' : node'[n] = IF n = Next1 THEN Fresh(Next1, ctx, pool) ELSE node[n]
    BY <1>3 DEF Put
  <2>3. Unused(Fresh(Next1, ctx, pool), Next1)
    BY DEF Fresh, Unused, Cfg
  <2>4. \A n \in DOMAIN node : Unused(node[n], n)
    BY <1>1 DEF FlowInv, Unused
  <2>5. \A n \in DOMAIN node' : Unused(node'[n], n)
    BY <2>2, <2>3, <2>4
  <2>6. \A n \in DOMAIN node' : /\ node'[n].inbox = <<>> /\ node'[n].out = <<>> /\ node'[n].pos = 1 /\ node'[n].up
                                /\ node'[n].live = ConsumersOf(run'.cfg, n)
    BY <2>1, <2>5 DEF Unused
  <2>7. ~run'.stop /\ ~run'.eof
    BY <1>1, <2>1 DEF FlowInv
  <2>8. QED  BY <2>1, <2>6, <2>7 DEF FlowInv
<1>4. \/ Fail
      \/ \E ctx, pool : node' = Put(node, Next1, Fresh(Next1, ctx, pool)) /\ run' = [run EXCEPT !.todo = Tail(@)]
  BY Zenon DEF Instantiate
<1>5. QED  BY <1>2, <1>3, <1>4

\* The graph is wired, with nothing on its way and nothing owed.
LEMMA WireKeepsFlow ==
    ASSUME PipeInv, FlowInv, Wire
    PROVE  FlowInv'
<1> DEFINE cfg == run.cfg
           names == SourceNames \cup SinkNames
           new == [n \in names |-> Fresh(n, None, <<>>)]
<1>1. run.phase = "load" /\ run.todo = <<>> /\ run.cfg # None /\ run.cfg = Wired
  BY DEF Wire, PipeInv, RunInv, Down
<1>2. /\ CfgOk(cfg) /\ SourceNames = SourcesOf(cfg) /\ SinkNames = SinksOf(cfg)
  BY <1>1, CfgOfRun DEF PipeInv, Cfg, SourcesOf, SinksOf
<1>3. node' = LaidOver(node, new) /\ run' = [run EXCEPT !.phase = "running", !.health = "running"]
  BY DEF Wire
<1>4. \A s \in SourceNames : src'[s].loop = "poll" /\ src'[s].sent = None
  <2>1. PICK answered : src' = [s \in SourceNames |->
                [cur |-> StartCursor(s, [x \in SourceNames |-> Restore(x)][s], answered), loop |-> "poll", sent |-> None]]
    BY Zenon DEF Wire
  <2>2. QED  BY <2>1
<1>5. /\ run'.cfg = cfg /\ run'.stop = run.stop /\ run'.phase = "running" /\ run'.eof = run.eof
  BY <1>3 DEF PipeInv, RunInv, RunFields
<1>6. ~run.stop /\ ~run.eof
  BY <1>1 DEF FlowInv
<1>7. /\ DOMAIN node' = DOMAIN node \cup names
      /\ \A n \in DOMAIN node : node'[n] = node[n]
      /\ \A n \in names : n \notin DOMAIN node => node'[n] = Fresh(n, None, <<>>)
  BY <1>3 DEF LaidOver
<1> HIDE DEF new
<1>8. \A n \in DOMAIN node' : Unused(node'[n], n)
  <2>1. \A n : Unused(Fresh(n, None, <<>>), n)
    BY DEF Fresh, Unused, Cfg
  <2>2. \A n \in DOMAIN node : Unused(node[n], n)
    BY <1>1 DEF FlowInv, Unused
  <2> HIDE DEF names
  <2>3. QED  BY <1>7, <2>1, <2>2
<1>9. NodesOf(cfg) \subseteq DOMAIN node'
  <2>1. NamesOf(run.cfg.processors) \subseteq DOMAIN node
    <3>1. Range(run.todo) = {}
      BY <1>1 DEF Range
    <3>2. QED  BY <3>1, <1>1 DEF PipeInv, TasksInv
  <2>2. QED  BY <2>1, <1>2, <1>7 DEF NodesOf, SourcesOf, SinksOf
<1>10. WiredNodes(cfg, node')
  <2>1. ASSUME NEW m \in NodesOf(cfg)  PROVE WiredNode(cfg, node', m)
    <3>1. Unused(node'[m], m) /\ DOMAIN <<>> = {}
      BY <1>8, <1>9, NobodyThere
    <3>2. node'[m].inbox = <<>> /\ node'[m].out = <<>> /\ node'[m].pos = 1 /\ node'[m].up /\ Range(node'[m].live) = Feeds(cfg, m)
      BY <3>1 DEF Unused, Feeds
    <3> HIDE DEF cfg
    <3>3. QED  BY <3>1, <3>2 DEF WiredNode
  <2>2. QED  BY <2>1 DEF WiredNodes
<1>11. \A s \in SourcesOf(cfg) : SourceFlow(s)'
  BY <1>2, <1>4 DEF SourceFlow, Owed, OptNat
<1>12. \A n \in SinksOf(cfg) : node'[n].up
  <2>1. SinksOf(cfg) \subseteq DOMAIN node'
    BY <1>9 DEF NodesOf, SinksOf
  <2>2. QED  BY <2>1, <1>8 DEF Unused
<1>13. QED  BY <1>5, <1>6, <1>10, <1>11, <1>12 DEF FlowInv, StoppedBy


-----------------------------------------------------------------------------
(* The invariant holds throughout, and says what the runs check.             *)

\* A step of the cache, of another process or of none changes nothing here.
LEMMA IdleKeepsFlow ==
    ASSUME FlowInv, UNCHANGED <<run, src, node, mark, disk, past>>
    PROVE  FlowInv'
<1>1. (\A s \in SourcesOf(run.cfg) : SourceFlow(s)) => (\A s \in SourcesOf(run.cfg) : SourceFlow(s))'
  BY DEF SourceFlow, Owed, SourceCfg, Cfg
<1>2. /\ StoppedBy' <=> StoppedBy
      /\ CursorsAtEnd(mark)' <=> CursorsAtEnd(mark)
      /\ CursorsAtEnd(disk)' <=> CursorsAtEnd(disk)
      /\ \A n : Idle(n)' <=> Idle(n)
  BY DEF StoppedBy, CursorsAtEnd, SourceCfg, Cfg, Idle
<1>3. QED  BY <1>1, <1>2 DEF FlowInv

\* It holds before the first start.
LEMMA InitFlowInv == Init => FlowInv
<1> SUFFICES ASSUME Init PROVE FlowInv  OBVIOUS
<1>1. run.phase = "off"
  BY DEF Init, Off
<1>2. QED  BY <1>1 DEF FlowInv

\* Every step keeps it.
LEMMA NextFlowInv ==
    ASSUME PipeInv, FlowInv, [Next]_pvars
    PROVE  FlowInv'
<1>1. CASE UNCHANGED pvars
  BY <1>1, IdleKeepsFlow DEF pvars, pipeVars
<1>2. CASE Start
  BY <1>2, StartKeepsFlow
<1>3. CASE Open
  BY <1>3, OpenKeepsFlow
<1>4. CASE LoadFails
  <2>1. run'.phase = "failed"
    BY <1>4 DEF LoadFails, Fail, PipeInv, RunInv, RunFields
  <2>2. QED  BY <2>1, DownKeepsFlow
<1>5. CASE Instantiate
  BY <1>5, InstantiateKeepsFlow
<1>6. CASE Wire
  BY <1>6, WireKeepsFlow
<1>7. ASSUME NEW s \in SourceNames, SourcePage(s) \/ SourceStops(s) \/ ReorgNoticed(s)
      PROVE  FlowInv'
  BY <1>7, SourcePageKeepsFlow, SourceStopsKeepsFlow, ReorgNoticedKeepsFlow
<1>8. ASSUME NEW n \in SourceNames \cup ProcessorNames, FanSend(n)
      PROVE  FlowInv'
  BY <1>8, FanSendKeepsFlow
<1>9. ASSUME NEW p \in ProcessorNames, Process(p)
      PROVE  FlowInv'
  BY <1>9, ProcessKeepsFlow
<1>10. ASSUME NEW n \in SinkNames, NEW f \in Faults, SinkStep(n, f)
       PROVE  FlowInv'
  BY <1>10, SinkStepKeepsFlow
<1>11. CASE Tick
  BY <1>11, TickKeepsFlow
<1>12. CASE Finish \/ Signal
  BY <1>12, EndingKeepsFlow
<1>13. CASE Final
  BY <1>13, FinalKeepsFlow
<1>14. CASE Crash
  <2>1. run'.phase = "crashed"
    BY <1>14 DEF Crash, PipeInv, RunInv, RunFields
  <2>2. QED  BY <2>1, DownKeepsFlow
<1>15. CASE Compile \/ MainWrites \/ RivalCompiles \/ RivalWrites
  BY <1>15, IdleKeepsFlow DEF Compile, MainWrites, RivalCompiles, RivalWrites, pipeVars
<1>16. CASE RivalCrashes
  BY <1>16, IdleKeepsFlow DEF RivalCrashes
<1>17. CASE Over
  BY <1>17, IdleKeepsFlow DEF Over, pvars, pipeVars
<1>18. QED  BY <1>1, <1>2, <1>3, <1>4, <1>5, <1>6, <1>7, <1>8, <1>9, <1>10, <1>11, <1>12,
               <1>13, <1>14, <1>15, <1>16, <1>17 DEF Next

\* Every state the process can be in satisfies it.
LEMMA FlowInvHolds == Spec => []FlowInv
BY InitFlowInv, NextFlowInv, PipeInvHolds, PTL DEF Spec

\* Once everything in the channels has been worked off, a sink that is up has
\* the ack of the last batch its sources sent, whatever the filters let pass,
\* branches dropped and sinks gave back, unless a processor skipped a batch:
\* empty results travel on (sent_batches in process), control batches pass
\* every module, a rollback has the batches sent again behind it, and the ack
\* of a chunked range is that of its last chunk.
THEOREM PipelineDrainedIsCaughtUp == Spec => []DrainedIsCaughtUp
<1>1. ASSUME PipeInv, FlowInv  PROVE DrainedIsCaughtUp
  <2> SUFFICES ASSUME run.phase = "running", \A n \in DOMAIN node : Idle(n), past.skipped = {},
                      NEW s \in SourceNames, NEW n \in Reachable(Cfg, s), node[n].up, src[s].sent # None
               PROVE  <<s, n>> \in DOMAIN mark /\ mark[<<s, n>>] >= src[s].sent
    BY DEF DrainedIsCaughtUp
  <2> DEFINE cfg == run.cfg
             a == src[s].sent
  <2>1. Active
    BY DEF Active
  <2>2. /\ Cfg = cfg /\ CfgOk(cfg) /\ SourceNames = SourcesOf(cfg) /\ NodesOf(cfg) \subseteq DOMAIN node
    BY <1>1, <2>1, GraphAtWork
  <2>3. WiredNodes(cfg, node) /\ SourceFlow(s)
    BY <1>1, <2>2 DEF FlowInv
  <2>4. Promised(cfg, node, mark, s, a, "any")
    BY <2>3 DEF SourceFlow, Owed
  <2>5. \A m \in NodesOf(cfg) : node[m].inbox = <<>> /\ node[m].out = <<>>
    BY <2>2 DEF Idle
  <2>6. n \in Reachable(cfg, s)
    BY <2>2
  <2> HIDE DEF cfg, a
  <2>7. At(mark, s, n, a)
    BY <2>2, <2>3, <2>4, <2>5, <2>6, DrainedServed
  <2>8. QED  BY <2>7 DEF At, a
<1>2. QED  BY <1>1, PipeInvHolds, FlowInvHolds, PTL

\* A run that ends by itself with its last checkpoint in the file, every source
\* with a sink that is not paused, ends with the cursors of all those sinks at
\* the end of their ranges: the end of a source passes every module and every
\* branch, a branch that pauses or is dropped takes nothing from the others,
\* and a source stops the others only when it has lost all its branches.
THEOREM PipelineFinishedIsComplete == Spec => []FinishedIsComplete
<1>1. ASSUME PipeInv, FlowInv  PROVE FinishedIsComplete
  <2> SUFFICES ASSUME run.phase = "ended", run.eof, run.saved,
                      \A s \in SourceNames : Reachable(Cfg, s) \ run.paused # {},
                      NEW s \in SourceNames, NEW n \in Reachable(Cfg, s) \ run.paused
               PROVE  <<s, n>> \in DOMAIN disk /\ disk[<<s, n>>] >= SourceCfg(s).to_block
    BY DEF FinishedIsComplete
  <2>1. run.cfg # None /\ SourceNames = SourcesOf(run.cfg) /\ Cfg = run.cfg
    BY DEF SourceNames, SourcesOf, Cfg
  <2>2. CursorsAtEnd(disk)
    BY <1>1 DEF FlowInv
  <2>3. QED  BY <2>1, <2>2 DEF CursorsAtEnd
<1>2. QED  BY <1>1, PipeInvHolds, FlowInvHolds, PTL


=============================================================================

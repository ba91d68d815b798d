------------------------- MODULE PipelineTypeProofs -------------------------
(***************************************************************************)
(* Types of the whole process, and its two tables of cursors: the one in    *)
(* memory and the one in the checkpoint file.  What the loader accepts can  *)
(* be run: its search for cycles finds them all.  What a range is cut into, *)
(* and how the filter compares numbers.                                     *)
(***************************************************************************)
EXTENDS PipelineProofs, WellFoundedInduction, FiniteSetTheorems

-----------------------------------------------------------------------------
(* The inductive invariant.                                                  *)

\* What the loader makes of the document, the same at every start.
Wired == Load(sc.doc, sc.env).cfg

ChannelCapacity(cfg) == Profile(cfg.resource_size).channel_capacity
OptNat == Nat \cup {None}

\* What the rules of the loader leave: typed numbers, no sink with the name of
\* a producer, no producer that feeds nobody, inputs that are producers, and
\* no node that feeds itself.
SourceTyped(c) ==
    /\ c.from_block \in OptNat /\ c.to_block \in OptNat /\ c.max_records \in OptNat
    /\ c.confirmations \in Nat
CfgOk(cfg) ==
    /\ IsSeq(cfg.sources) /\ IsSeq(cfg.processors) /\ IsSeq(cfg.sinks)
    /\ ChannelCapacity(cfg) \in Nat /\ Profile(cfg.resource_size).default_max_records \in Nat
    /\ \A i \in DOMAIN cfg.sources : SourceTyped(cfg.sources[i])
    /\ \A n \in NamesOf(cfg.sinks) : n \notin NamesOf(cfg.sources) \cup NamesOf(cfg.processors)
    /\ \A n \in NamesOf(cfg.sources) \cup NamesOf(cfg.processors) : ConsumersOf(cfg, n) # <<>>
    /\ \A i \in DOMAIN Consumers(cfg) :
          /\ IsSeq(Consumers(cfg)[i].inputs)
          /\ Range(Consumers(cfg)[i].inputs) \subseteq NamesOf(cfg.sources) \cup NamesOf(cfg.processors)
          /\ Consumers(cfg)[i].name \notin Range(Consumers(cfg)[i].inputs)

\* A batch names its source, and what it acks or rolls back to is a block.
BatchFields == {"source", "to", "ack_block", "kind", "records", "control"}
BatchOk(b, cfg) ==
    /\ BatchFields \subseteq DOMAIN b
    /\ b.source \in NamesOf(cfg.sources) /\ AckBlock(b) \in Nat
    /\ IsRollback(b) => b.control.at \in Nat
QueueOk(q, cfg) == IsSeq(q) /\ \A i \in DOMAIN q : BatchOk(q[i], cfg)

\* A task: its queues, its place among its branches, its attempts.
NodeFields == {"ctx", "out", "pos", "live", "inbox", "up", "pool", "attempt"}
BranchesOk(n, me, cfg) ==
    /\ IsSeq(me.live) /\ n \notin Range(me.live)
    /\ me.pos = 1 \/ me.pos \in 1 .. Len(me.live)
    /\ n \in NamesOf(cfg.sources) \cup NamesOf(cfg.processors) /\ me.up => me.live # <<>>
NodeOk(n, me, cfg, stop) ==
    /\ NodeFields \subseteq DOMAIN me
    /\ QueueOk(me.inbox, cfg) /\ QueueOk(me.out, cfg) /\ BranchesOk(n, me, cfg)
    /\ me.attempt \in 0 .. MaxAttempts /\ (me.up => me.attempt < MaxAttempts)
    /\ Len(me.inbox) <= ChannelCapacity(cfg)
    /\ ~me.up => me.inbox = <<>> /\ me.out = <<>>
    /\ n \in NamesOf(cfg.sinks) => me.out = <<>>
    /\ n \in NamesOf(cfg.sources) /\ ~me.up => stop
NodesInv == \A n \in DOMAIN node : NodeOk(n, node[n], run.cfg, run.stop)

RunFields == {"phase", "nth", "cfg", "said", "health", "stop", "ticking", "todo", "eof", "saved", "paused"}
PastFields == {"skipped", "lost", "overwritten", "tapped", "swallowed", "rolled", "unwound", "flipped", "began"}
Phases == Down \cup {"open", "load", "running", "stopping"}

\* The process has a configuration from the start of a run on, and only the one.
RunInv ==
    /\ RunFields \subseteq DOMAIN run /\ PastFields \subseteq DOMAIN past /\ run.phase \in Phases
    /\ run.cfg = None \/ run.cfg = Wired
    /\ run.phase \notin Down => run.cfg # None
    /\ run.cfg = None => DOMAIN node = {} /\ DOMAIN mark = {}

\* Both tables hold blocks, for pairs of the configuration.
Pairs(cfg) == NamesOf(cfg.sources) \X NamesOf(cfg.sinks)
CursorsInv ==
    /\ \A x \in DOMAIN mark : x \in Pairs(run.cfg) /\ mark[x] \in Nat
    /\ \A x \in DOMAIN disk : Wired # None /\ x \in Pairs(Wired) /\ disk[x] \in Nat

\* Every task is there once the graph is wired, every processor is still to be
\* loaded until then.
TasksInv ==
    /\ run.phase = "load" =>
          IsSeq(run.todo) /\ NamesOf(run.cfg.processors) \subseteq DOMAIN node \cup Range(run.todo)
    /\ run.phase \in {"running", "stopping"} =>
          /\ NamesOf(run.cfg.sources) \cup NamesOf(run.cfg.processors) \cup NamesOf(run.cfg.sinks) \subseteq DOMAIN node
          /\ \A s \in NamesOf(run.cfg.sources) :
                s \in DOMAIN src /\ {"cur", "loop", "sent"} \subseteq DOMAIN src[s] /\ src[s].cur \in Nat

PipeInv == Surrounded /\ RunInv /\ CursorsInv /\ NodesInv /\ TasksInv /\ DiskNotAhead
-----------------------------------------------------------------------------
(* Induction and sequences.                                                  *)

\* The least element of a set of naturals.
LEMMA LeastNatural ==
    ASSUME NEW T, T \subseteq Nat, T # {}
    PROVE  \E m \in T : \A k \in T : m <= k
<1>1. PICK m \in T : \A k \in T : ~(<<k, m>> \in OpToRel(<, Nat))
  BY WFMin, NatLessThanWellFounded, Zenon
<1>2. \A k \in T : ~(k < m)
  BY <1>1, Zenon DEF OpToRel
<1>3. QED  BY <1>2

\* Induction up to a bound, for a set in place of a predicate.
LEMMA UpTo ==
    ASSUME NEW N \in Nat, NEW T, 0 \in T, \A n \in 0 .. N - 1 : n \in T => n + 1 \in T
    PROVE  N \in T
<1> DEFINE Bad == {n \in 0 .. N : n \notin T}
<1>1. SUFFICES ASSUME Bad # {} PROVE FALSE
  OBVIOUS
<1>2. PICK m \in Bad : \A k \in Bad : m <= k
  <2>1. Bad \subseteq Nat
    OBVIOUS
  <2> HIDE DEF Bad
  <2>2. QED  BY <1>1, <2>1, LeastNatural
<1>3. m - 1 \in 0 .. N - 1 /\ m - 1 \in T
  BY <1>2
<1>4. QED  BY <1>3, <1>2

\* FlattenSeq is what its recursive definition means.
LEMMA FlattenRecurs ==
    ASSUME NEW S, NEW seqs \in Seq(Seq(S))
    PROVE  \E f : /\ FlattenSeq(seqs) = IF Len(seqs) = 0 THEN seqs ELSE f[Len(seqs)]
                  /\ \A i \in 1 .. Len(seqs) : f[i] = IF i = 1 THEN seqs[i] ELSE f[i - 1] \o seqs[i]
<1> DEFINE N == Len(seqs)
           Step(g, i) == IF i = 1 THEN seqs[i] ELSE g[i - 1] \o seqs[i]
           f == CHOOSE g : g = [i \in 1 .. N |-> Step(g, i)]
           Good == {n \in 0 .. N : \E g \in [1 .. n -> Seq(S)] : \A i \in 1 .. n : g[i] = Step(g, i)}
<1>1. \A g, h : \A i \in 1 .. N : (i = 1 \/ g[i - 1] = h[i - 1]) => Step(g, i) = Step(h, i)
  OBVIOUS
<1>2. \A g : \A i \in 1 .. N : (i = 1 \/ g[i - 1] \in Seq(S)) => Step(g, i) \in Seq(S)
  OBVIOUS
<1>3. FlattenSeq(seqs) = IF N = 0 THEN seqs ELSE f[N]
  BY Zenon DEF FlattenSeq
<1>4. N \in Nat /\ (N = 0 => seqs \in Seq(S))
  OBVIOUS
<1> HIDE DEF N, Step
<1>5. 0 \in Good
  <2>1. [i \in 1 .. 0 |-> <<>>] \in [1 .. 0 -> Seq(S)] /\ 1 .. 0 = {} /\ 0 \in 0 .. N
    BY <1>4
  <2>2. QED  BY <2>1, Zenon
<1>6. ASSUME NEW n \in 0 .. N - 1, n \in Good
      PROVE  n + 1 \in Good
  <2>1. PICK g \in [1 .. n -> Seq(S)] : \A i \in 1 .. n : g[i] = Step(g, i)
    BY <1>6
  <2> DEFINE h == [i \in 1 .. n + 1 |-> IF i = n + 1 THEN Step(g, n + 1) ELSE g[i]]
  <2>2. h \in [1 .. n + 1 -> Seq(S)]
    BY <2>1, <1>2, <1>4
  <2>3. ASSUME NEW i \in 1 .. n + 1  PROVE h[i] = Step(h, i)
    <3>1. i \in 1 .. N /\ (i = 1 \/ h[i - 1] = g[i - 1])
      BY <1>4
    <3>2. h[i] = Step(g, i)
      BY <2>1
    <3> HIDE DEF h
    <3>3. QED  BY <3>1, <3>2, <1>1
  <2> HIDE DEF h
  <2>4. n + 1 \in 0 .. N
    BY <1>4
  <2>5. QED  BY <2>2, <2>3, <2>4, Zenon
<1>7. PICK g \in [1 .. N -> Seq(S)] : \A i \in 1 .. N : g[i] = Step(g, i)
  <2>1. N \in Good
    <3> HIDE DEF Good
    <3>1. QED  BY <1>5, <1>6, <1>4, UpTo
  <2>2. QED  BY <2>1
<1>8. f = [i \in 1 .. N |-> Step(f, i)]
  <2>1. g = [i \in 1 .. N |-> Step(g, i)]
    BY <1>7
  <2>2. QED  BY <2>1, Zenon
<1> HIDE DEF f
<1>9. \A i \in 1 .. N : f[i] = Step(f, i)
  BY <1>8, Zenon
<1>10. QED  BY <1>3, <1>9 DEF N, Step

\* FlattenSeq of sequences over a set is a sequence over it.
LEMMA FlattenTyped ==
    ASSUME NEW S, NEW seqs \in Seq(Seq(S))
    PROVE  FlattenSeq(seqs) \in Seq(S)
<1> DEFINE N == Len(seqs)
<1>1. N \in Nat /\ (N = 0 => seqs \in Seq(S)) /\ \A i \in 1 .. N : seqs[i] \in Seq(S)
  OBVIOUS
<1>2. PICK f : /\ FlattenSeq(seqs) = IF N = 0 THEN seqs ELSE f[N]
               /\ \A i \in 1 .. N : f[i] = IF i = 1 THEN seqs[i] ELSE f[i - 1] \o seqs[i]
  BY FlattenRecurs
<1> HIDE DEF N
<1> DEFINE T == {n \in 0 .. N : n = 0 \/ f[n] \in Seq(S)}
<1>3. 0 \in T
  BY <1>1
<1>4. ASSUME NEW n \in 0 .. N - 1, n \in T PROVE n + 1 \in T
  <2>1. n + 1 \in 1 .. N /\ n + 1 \in 0 .. N /\ (n + 1) - 1 = n /\ (n = 0 \/ f[n] \in Seq(S))
    BY <1>4, <1>1
  <2>2. f[n + 1] = IF n + 1 = 1 THEN seqs[n + 1] ELSE f[n] \o seqs[n + 1]
    BY <2>1, <1>2
  <2>3. f[n + 1] \in Seq(S)
    BY <2>1, <2>2, <1>1
  <2>4. QED  BY <2>1, <2>3
<1>5. N \in T
  <2> HIDE DEF T
  <2>1. QED  BY <1>1, <1>3, <1>4, UpTo
<1>6. QED  BY <1>1, <1>2, <1>5

\* A sequence over any set is a sequence.
LEMMA SeqIsSeq ==
    ASSUME NEW S, NEW q \in Seq(S)
    PROVE  IsSeq(q) /\ Range(q) \subseteq S /\ Len(q) \in Nat /\ DOMAIN q = 1 .. Len(q)
BY DEF IsSeq, Range

\* What a queue is made of stays good through the operations on queues.
LEMMA EmptyQueue == \A cfg : QueueOk(<<>>, cfg)
BY DEF QueueOk, IsSeq

\* A batch at the end of a queue.
LEMMA AppendQueue ==
    ASSUME NEW cfg, NEW q, NEW b, QueueOk(q, cfg), BatchOk(b, cfg)
    PROVE  QueueOk(Append(q, b), cfg) /\ Len(Append(q, b)) = Len(q) + 1
<1>1. q \in Seq(Range(q) \cup {b}) /\ Len(q) \in Nat
  BY DEF QueueOk, IsSeq
<1> DEFINE r == Append(q, b)
<1>2. /\ r \in Seq(Range(q) \cup {b}) /\ DOMAIN r = 1 .. Len(q) + 1 /\ Len(r) = Len(q) + 1
      /\ \A i \in 1 .. Len(q) + 1 : r[i] = IF i = Len(q) + 1 THEN b ELSE q[i]
  BY <1>1
<1>3. DOMAIN q = 1 .. Len(q)
  BY <1>1
<1> HIDE DEF r
<1>4. \A i \in DOMAIN r : BatchOk(r[i], cfg)
  BY <1>1, <1>2, <1>3 DEF QueueOk
<1>5. IsSeq(r)
  BY <1>2, SeqIsSeq
<1>6. QED  BY <1>4, <1>5, <1>2 DEF QueueOk, r

\* The first batch of a queue, and the others.
LEMMA TailQueue ==
    ASSUME NEW cfg, NEW q, QueueOk(q, cfg), q # <<>>
    PROVE  QueueOk(Tail(q), cfg) /\ BatchOk(Head(q), cfg) /\ Len(Tail(q)) = Len(q) - 1 /\ Len(q) \in Nat
<1>1. q \in Seq(Range(q)) /\ Len(q) \in Nat \ {0} /\ DOMAIN q = 1 .. Len(q)
  BY DEF QueueOk, IsSeq
<1> DEFINE r == Tail(q)
<1>2. /\ r \in Seq(Range(q)) /\ DOMAIN r = 1 .. Len(q) - 1 /\ Len(r) = Len(q) - 1
      /\ \A i \in 1 .. Len(q) - 1 : r[i] = q[i + 1]
  BY <1>1
<1>3. Head(q) = q[1]
  BY <1>1
<1> HIDE DEF r
<1>4. ASSUME NEW i \in DOMAIN r  PROVE BatchOk(r[i], cfg)
  <2>1. i + 1 \in DOMAIN q /\ r[i] = q[i + 1]
    BY <1>1, <1>2
  <2>2. QED  BY <2>1 DEF QueueOk
<1>5. IsSeq(r) /\ BatchOk(Head(q), cfg)
  BY <1>1, <1>2, <1>3, SeqIsSeq DEF QueueOk
<1>6. QED  BY <1>1, <1>4, <1>5, <1>2 DEF QueueOk, r

\* Two queues, one behind the other.
LEMMA ConcatQueue ==
    ASSUME NEW cfg, NEW p, NEW q, QueueOk(p, cfg), QueueOk(q, cfg)
    PROVE  QueueOk(p \o q, cfg)
<1>1. /\ p \in Seq(Range(p) \cup Range(q)) /\ Len(p) \in Nat /\ DOMAIN p = 1 .. Len(p)
      /\ q \in Seq(Range(p) \cup Range(q)) /\ Len(q) \in Nat /\ DOMAIN q = 1 .. Len(q)
  BY DEF QueueOk, IsSeq
<1> DEFINE r == p \o q
<1>2. /\ r \in Seq(Range(p) \cup Range(q)) /\ DOMAIN r = 1 .. Len(p) + Len(q)
      /\ \A i \in 1 .. Len(p) + Len(q) : r[i] = IF i <= Len(p) THEN p[i] ELSE q[i - Len(p)]
  BY <1>1
<1> HIDE DEF r
<1>4. ASSUME NEW i \in DOMAIN r  PROVE BatchOk(r[i], cfg)
  <2>1. CASE i <= Len(p)
    <3>1. i \in DOMAIN p /\ r[i] = p[i]
      BY <2>1, <1>1, <1>2
    <3>2. QED  BY <3>1 DEF QueueOk
  <2>2. CASE ~(i <= Len(p))
    <3>1. i - Len(p) \in DOMAIN q /\ r[i] = q[i - Len(p)]
      BY <2>2, <1>1, <1>2
    <3>2. QED  BY <3>1 DEF QueueOk
  <2>3. QED  BY <2>1, <2>2
<1>5. IsSeq(r)
  BY <1>2, SeqIsSeq
<1>6. QED  BY <1>4, <1>5 DEF QueueOk, r

\* A queue of one.
LEMMA SingleQueue ==
    ASSUME NEW cfg, NEW b, BatchOk(b, cfg)
    PROVE  QueueOk(<<b>>, cfg)
<1>1. <<b>> \in Seq({b}) /\ DOMAIN <<b>> = {1} /\ <<b>>[1] = b
  OBVIOUS
<1>2. QED  BY <1>1, SeqIsSeq DEF QueueOk

\* A function over an interval is a sequence.
LEMMA IndexedQueue ==
    ASSUME NEW cfg, NEW n \in Int, NEW q, DOMAIN q = 1 .. n, q = [i \in 1 .. n |-> q[i]], \A i \in 1 .. n : BatchOk(q[i], cfg)
    PROVE  QueueOk(q, cfg)
<1>1. q \in Seq(Range(q))
  <2>1. CASE n <= 0
    BY <2>1 DEF Range
  <2>2. CASE n > 0
    BY <2>2 DEF Range
  <2>3. QED  BY <2>1, <2>2
<1>2. QED  BY <1>1 DEF QueueOk, IsSeq

-----------------------------------------------------------------------------
(* The configuration.                                                        *)

\* The rules a configuration without a broken one keeps, as far as needed here.
LEMMA RulesKept ==
    ASSUME NEW cfg, FirstBroken(cfg) = ""
    PROVE  /\ Cardinality(Range(AllNames(cfg))) = Len(AllNames(cfg))
           /\ \A i \in DOMAIN Consumers(cfg) : InputsOk(cfg, Consumers(cfg)[i])
           /\ NoOrphans(cfg) /\ ~DetectCycle(cfg)
           /\ \A i \in DOMAIN cfg.sources : SourceOk(cfg.sources[i])
<1>1. /\ ~(Cardinality(Range(AllNames(cfg))) # Len(AllNames(cfg)))
      /\ ~(~Every(Consumers(cfg), LAMBDA n : InputsOk(cfg, n)))
      /\ ~(~NoOrphans(cfg)) /\ ~DetectCycle(cfg)
      /\ ~(~Every(cfg.sources, SourceOk))
  BY DEF FirstBroken
<1>2. QED  BY <1>1 DEF Every

\* What Load returns without an error is the typed document with its endpoints.
LEMMA LoadedIsTyped ==
    ASSUME NEW doc, NEW env, Load(doc, env).cfg # None
    PROVE  LET R == ResolveSecrets(doc, env) IN
           /\ ShapeOk(doc) /\ ShapeOk(R) /\ FirstBroken(Typed(R)) = ""
           /\ Load(doc, env).cfg = WithEndpoints(Typed(R))
<1>1. \A why, quotes, missing : Refused(why, quotes, missing).cfg = None
  BY DEF Refused
<1>2. ShapeOk(doc) /\ LoadResolved(doc, env).cfg # None /\ Load(doc, env) = LoadResolved(doc, env)
  BY <1>1 DEF Load
<1>3. ShapeOk(ResolveSecrets(doc, env)) /\ Validated(Typed(ResolveSecrets(doc, env))).cfg # None
      /\ Load(doc, env) = Validated(Typed(ResolveSecrets(doc, env)))
  BY <1>1, <1>2 DEF LoadResolved
<1>4. \A cfg : Validated(cfg).cfg # None => FirstBroken(cfg) = "" /\ Validated(cfg).cfg = WithEndpoints(cfg)
  BY <1>1 DEF Validated, Judged
<1>5. QED  BY <1>2, <1>3, <1>4

\* The typed configuration: its lists, its numbers and its size.
LEMMA TypedLists ==
    ASSUME NEW doc, NEW env, Readable(doc), ShapeOk(doc), ShapeOk(ResolveSecrets(doc, env))
    PROVE  LET T == Typed(ResolveSecrets(doc, env)) IN
           /\ {"sources", "processors", "sinks", "resource_size"} \subseteq DOMAIN T
           /\ IsSeq(T.sources) /\ IsSeq(T.processors) /\ IsSeq(T.sinks)
           /\ T.resource_size \in {"s", "m", "l"}
           /\ \A i \in DOMAIN T.sources : SourceTyped(T.sources[i]) /\ SourceNumbers \cup {"name", "resolved"} \subseteq DOMAIN T.sources[i]
           /\ \A i \in DOMAIN T.processors : IsSeq(T.processors[i].inputs)
           /\ \A i \in DOMAIN T.sinks : IsSeq(T.sinks[i].inputs)
<1> DEFINE R == ResolveSecrets(doc, env)
           d == LaidOver(R, DocDefaults)
           T == Typed(R)
<1>1. /\ DOMAIN R = DOMAIN doc /\ {"name", "sources", "sinks"} \subseteq DOMAIN doc
      /\ \A part \in {"sources", "processors", "sinks"} \cap DOMAIN doc :
            R[part] = [i \in DOMAIN doc[part] |-> ResolveNode(doc[part][i], env)]
  BY ResolvedLists
<1>2. /\ {"sources", "processors", "sinks", "resource_size", "connections"} \subseteq DOMAIN d
      /\ d.sources = R.sources /\ d.sinks = R.sinks
      /\ d.processors = IF "processors" \in DOMAIN R THEN R.processors ELSE <<>>
      /\ DOMAIN T = DOMAIN d /\ T.resource_size = d.resource_size
      /\ T.sources = [i \in DOMAIN d.sources |-> TypedSource(d.sources[i])]
      /\ T.processors = [i \in DOMAIN d.processors |-> LaidOver(d.processors[i], ProcessorDefaults)]
      /\ T.sinks = [i \in DOMAIN d.sinks |-> LaidOver(d.sinks[i], SinkDefaults)]
  <2>1. {"name", "sources", "sinks"} \subseteq DOMAIN R
    BY <1>1
  <2> HIDE DEF R
  <2>2. QED  BY <2>1, TypedParts
<1>5. /\ d.resource_size \in {"s", "m", "l"}
      /\ \A i \in DOMAIN d.sources :
            /\ SourceRequired \subseteq DOMAIN d.sources[i]
            /\ \A f \in SourceNumbers \cap DOMAIN d.sources[i] : d.sources[i][f] \in Nat
      /\ \A i \in DOMAIN d.processors : NodeRequired \subseteq DOMAIN d.processors[i]
      /\ \A i \in DOMAIN d.sinks : NodeRequired \subseteq DOMAIN d.sinks[i]
  BY DEF ShapeOk, Fits
<1> HIDE DEF R, d, T
<1>3. \A part \in {"sources", "processors", "sinks"} \cap DOMAIN doc :
          IsSeq(R[part]) /\ \A i \in DOMAIN R[part] : "inputs" \in DOMAIN R[part][i] => IsSeq(R[part][i].inputs)
  <2> SUFFICES ASSUME NEW part \in {"sources", "processors", "sinks"} \cap DOMAIN doc
               PROVE  /\ IsSeq(R[part])
                      /\ \A i \in DOMAIN R[part] : "inputs" \in DOMAIN R[part][i] => IsSeq(R[part][i].inputs)
    OBVIOUS
  <2>1. IsSeq(doc[part]) /\ \A i \in DOMAIN doc[part] : "inputs" \in DOMAIN doc[part][i] => IsSeq(doc[part][i].inputs)
    BY DEF Readable
  <2>2. IsSeq(R[part]) /\ DOMAIN R[part] = DOMAIN doc[part]
    BY <1>1, <2>1, MappedIsSeq
  <2>3. ASSUME NEW i \in DOMAIN R[part], "inputs" \in DOMAIN R[part][i]  PROVE IsSeq(R[part][i].inputs)
    <3> DEFINE n == doc[part][i]
    <3>1. R[part][i] = ResolveNode(n, env) /\ ("inputs" \in DOMAIN n => IsSeq(n.inputs))
      BY <1>1, <2>1, <2>2
    <3> HIDE DEF n
    <3>2. ResolveNode(n, env) = [f \in DOMAIN n |-> Walk(f, n[f], env)]
      BY DEF ResolveNode
    <3>3. "inputs" \in DOMAIN n /\ R[part][i].inputs = Walk("inputs", n.inputs, env)
      BY <3>1, <3>2, <2>3
    <3>4. R[part][i].inputs = [k \in DOMAIN n.inputs |-> ReplaceRefs(n.inputs[k], env)]
      BY <3>3 DEF Walk, Compound
    <3>5. QED  BY <3>1, <3>3, <3>4, MappedIsSeq
  <2>4. QED  BY <2>2, <2>3
<1>4. IsSeq(d.sources) /\ IsSeq(d.sinks) /\ IsSeq(d.processors)
  <2>1. IsSeq(<<>>)
    BY DEF IsSeq
  <2>2. QED  BY <1>1, <1>2, <1>3, <2>1
<1>6. IsSeq(T.sources) /\ IsSeq(T.processors) /\ IsSeq(T.sinks)
  BY <1>2, <1>4, MappedIsSeq
<1>7. ASSUME NEW i \in DOMAIN T.sources
      PROVE  SourceTyped(T.sources[i]) /\ SourceNumbers \cup {"name", "resolved"} \subseteq DOMAIN T.sources[i]
  <2> DEFINE s == d.sources[i]
             t == LaidOver(s, SourceDefaults)
  <2>1. i \in DOMAIN d.sources /\ T.sources[i] = LaidOver([t EXCEPT !.reorg = TypedReorg(@)], [resolved |-> None])
    BY <1>2 DEF TypedSource
  <2>2. "name" \in DOMAIN s /\ \A f \in SourceNumbers \cap DOMAIN s : s[f] \in Nat
    BY <1>5, <2>1 DEF SourceRequired
  <2> HIDE DEF s
  <2>3. /\ SourceNumbers \cup {"name"} \subseteq DOMAIN t
        /\ t.from_block \in OptNat /\ t.to_block \in OptNat /\ t.max_records \in OptNat /\ t.confirmations \in Nat
    <3>1. /\ SourceNumbers \subseteq DOMAIN SourceDefaults /\ SourceDefaults.confirmations \in Nat
          /\ SourceDefaults.from_block = None /\ SourceDefaults.to_block = None /\ SourceDefaults.max_records = None
      BY DEF SourceDefaults, SourceNumbers
    <3>2. QED  BY <3>1, <2>2 DEF LaidOver, SourceNumbers, OptNat
  <2> HIDE DEF t
  <2> DEFINE u == [t EXCEPT !.reorg = TypedReorg(@)]
  <2>4. DOMAIN u = DOMAIN t /\ \A f \in SourceNumbers : u[f] = t[f]
    BY <2>3 DEF SourceNumbers
  <2> HIDE DEF u
  <2>5. DOMAIN u \cup {"resolved"} \subseteq DOMAIN T.sources[i] /\ \A f \in DOMAIN u : T.sources[i][f] = u[f]
    BY <2>1 DEF u, LaidOver
  <2>6. QED  BY <2>3, <2>4, <2>5 DEF SourceTyped, SourceNumbers
<1>8. ASSUME NEW i \in DOMAIN T.processors
      PROVE  IsSeq(T.processors[i].inputs)
  <2>1. i \in DOMAIN d.processors /\ T.processors[i] = LaidOver(d.processors[i], ProcessorDefaults)
    BY <1>2
  <2>2. d.processors[i].inputs = T.processors[i].inputs /\ "inputs" \in DOMAIN d.processors[i]
    BY <2>1, <1>5 DEF NodeRequired, LaidOver
  <2>3. "processors" \in DOMAIN doc /\ d.processors = R.processors
    BY <2>1, <1>1, <1>2
  <2>4. QED  BY <2>1, <2>2, <2>3, <1>3
<1>9. ASSUME NEW i \in DOMAIN T.sinks
      PROVE  IsSeq(T.sinks[i].inputs)
  <2>1. i \in DOMAIN d.sinks /\ T.sinks[i] = LaidOver(d.sinks[i], SinkDefaults)
    BY <1>2
  <2>2. d.sinks[i].inputs = T.sinks[i].inputs /\ "inputs" \in DOMAIN d.sinks[i]
    BY <2>1, <1>5 DEF NodeRequired, LaidOver
  <2>3. QED  BY <2>1, <2>2, <1>1, <1>2, <1>3
<1>10. QED  BY <1>2, <1>5, <1>6, <1>7, <1>8, <1>9 DEF T, R

\* A sequence whose elements are as many as it is long names nobody twice.
LEMMA AllDifferent ==
    ASSUME NEW q, IsSeq(q), Cardinality(Range(q)) = Len(q)
    PROVE  \A i, j \in DOMAIN q : q[i] = q[j] => i = j
<1>1. q \in [1 .. Len(q) -> Range(q)] /\ Len(q) \in Nat /\ DOMAIN q = 1 .. Len(q)
  BY DEF IsSeq
<1>2. q \in Surjection(1 .. Len(q), Range(q))
  BY <1>1 DEF Surjection, Range
<1>3. IsFiniteSet(1 .. Len(q)) /\ Cardinality(1 .. Len(q)) = Len(q)
  <2>1. /\ IsFiniteSet(1 .. Len(q))
        /\ Cardinality(1 .. Len(q)) = IF 1 > Len(q) THEN 0 ELSE Len(q) - 1 + 1
    <3>1. 1 \in Int /\ Len(q) \in Int
      BY <1>1
    <3>2. QED  BY <3>1, FS_Interval, Zenon
  <2>2. QED  BY <2>1, <1>1
<1>4. q \in Injection(1 .. Len(q), Range(q))
  BY <1>2, <1>3, FS_SurjSameCardinalityImpliesInj
<1>5. QED  BY <1>4, <1>1 DEF Injection, IsInjective

\* What is where in a concatenation.
LEMMA Concatenated ==
    ASSUME NEW S, NEW a \in Seq(S), NEW b \in Seq(S)
    PROVE  /\ a \o b \in Seq(S) /\ DOMAIN (a \o b) = 1 .. Len(a) + Len(b) /\ Len(a \o b) = Len(a) + Len(b)
           /\ \A i \in 1 .. Len(a) : (a \o b)[i] = a[i]
           /\ \A i \in 1 .. Len(b) : (a \o b)[Len(a) + i] = b[i]
<1>1. Len(a) \in Nat /\ Len(b) \in Nat
  OBVIOUS
<1>2. a \o b \in Seq(S) /\ Len(a \o b) = Len(a) + Len(b)
  OBVIOUS
<1>3. ASSUME NEW i \in 1 .. Len(a)  PROVE (a \o b)[i] = a[i]
  BY <1>1
<1>4. ASSUME NEW i \in 1 .. Len(b)  PROVE (a \o b)[Len(a) + i] = b[i]
  BY <1>1
<1>5. DOMAIN (a \o b) = 1 .. Len(a \o b)
  BY <1>2
<1>6. QED  BY <1>2, <1>3, <1>4, <1>5

\* No sink has the name of a source or of a processor.
LEMMA SinksApart ==
    ASSUME NEW cfg, IsSeq(cfg.sources), IsSeq(cfg.processors), IsSeq(cfg.sinks),
           Cardinality(Range(AllNames(cfg))) = Len(AllNames(cfg)),
           NEW n \in NamesOf(cfg.sinks)
    PROVE  n \notin NamesOf(cfg.sources) \cup NamesOf(cfg.processors)
<1> DEFINE a == cfg.sources
           b == cfg.processors
           c == cfg.sinks
           U == Range(a) \cup Range(b) \cup Range(c)
           all == a \o b \o c
           q == AllNames(cfg)
<1>1. /\ a \in Seq(U) /\ b \in Seq(U) /\ c \in Seq(U)
      /\ Len(a) \in Nat /\ Len(b) \in Nat /\ Len(c) \in Nat
      /\ DOMAIN a = 1 .. Len(a) /\ DOMAIN b = 1 .. Len(b) /\ DOMAIN c = 1 .. Len(c)
  BY DEF IsSeq
<1>2. q = [i \in DOMAIN all |-> all[i].name]
  BY DEF AllNames
<1> HIDE DEF a, b, c, U, q
<1>3. /\ all \in Seq(U) /\ DOMAIN all = 1 .. (Len(a) + Len(b)) + Len(c)
      /\ \A i \in 1 .. Len(a) : all[i] = a[i]
      /\ \A i \in 1 .. Len(b) : all[Len(a) + i] = b[i]
      /\ \A i \in 1 .. Len(c) : all[(Len(a) + Len(b)) + i] = c[i]
  <2> DEFINE ab == a \o b
  <2>1. /\ ab \in Seq(U) /\ DOMAIN ab = 1 .. Len(a) + Len(b) /\ Len(ab) = Len(a) + Len(b)
        /\ \A i \in 1 .. Len(a) : ab[i] = a[i]
        /\ \A i \in 1 .. Len(b) : ab[Len(a) + i] = b[i]
    BY <1>1, Concatenated
  <2> HIDE DEF ab
  <2>2. /\ ab \o c \in Seq(U) /\ DOMAIN (ab \o c) = 1 .. Len(ab) + Len(c)
        /\ \A i \in 1 .. Len(ab) : (ab \o c)[i] = ab[i]
        /\ \A i \in 1 .. Len(c) : (ab \o c)[Len(ab) + i] = c[i]
    <3>1. ab \in Seq(U) /\ c \in Seq(U)
      BY <2>1, <1>1
    <3>2. QED  BY <3>1, Concatenated
  <2>3. all = ab \o c
    BY DEF ab
  <2> HIDE DEF all
  <2>4. all \in Seq(U) /\ DOMAIN all = 1 .. (Len(a) + Len(b)) + Len(c)
    BY <2>1, <2>2, <2>3
  <2>5. ASSUME NEW i \in 1 .. Len(a)  PROVE all[i] = a[i]
    <3>1. i \in 1 .. Len(ab)
      BY <2>1, <1>1
    <3>2. QED  BY <3>1, <2>1, <2>2, <2>3
  <2>6. ASSUME NEW i \in 1 .. Len(b)  PROVE all[Len(a) + i] = b[i]
    <3>1. Len(a) + i \in 1 .. Len(ab)
      BY <2>1, <1>1
    <3>2. QED  BY <3>1, <2>1, <2>2, <2>3
  <2>7. ASSUME NEW i \in 1 .. Len(c)  PROVE all[(Len(a) + Len(b)) + i] = c[i]
    BY <2>1, <2>2, <2>3
  <2>8. QED  BY <2>4, <2>5, <2>6, <2>7
<1>4. IsSeq(all)
  BY <1>3, SeqIsSeq
<1> HIDE DEF all
<1>5. IsSeq(q) /\ DOMAIN q = DOMAIN all
  BY <1>2, <1>4, MappedIsSeq
<1>6. \A i, j \in DOMAIN q : q[i] = q[j] => i = j
  <2>1. Cardinality(Range(q)) = Len(q)
    BY DEF q
  <2>2. QED  BY <2>1, <1>5, AllDifferent
<1>7. PICK k \in 1 .. Len(c) : n = c[k].name
  BY <1>1 DEF NamesOf, c
<1>8. (Len(a) + Len(b)) + k \in DOMAIN q /\ q[(Len(a) + Len(b)) + k] = n
  BY <1>1, <1>2, <1>3, <1>5, <1>7
<1>9. ASSUME NEW i \in 1 .. Len(a), n = a[i].name PROVE FALSE
  <2>1. i \in DOMAIN q /\ q[i] = n
    BY <1>1, <1>2, <1>3, <1>5, <1>9
  <2>2. i # (Len(a) + Len(b)) + k
    BY <1>1
  <2>3. QED  BY <2>1, <2>2, <1>6, <1>8
<1>10. ASSUME NEW i \in 1 .. Len(b), n = b[i].name PROVE FALSE
  <2>1. Len(a) + i \in DOMAIN q /\ q[Len(a) + i] = n
    BY <1>1, <1>2, <1>3, <1>5, <1>10
  <2>2. Len(a) + i # (Len(a) + Len(b)) + k
    BY <1>1
  <2>3. QED  BY <2>1, <2>2, <1>6, <1>8
<1>11. QED  BY <1>1, <1>9, <1>10 DEF NamesOf, a, b


\* The elements of a concatenation, and their names.
LEMMA RangeOfBoth ==
    ASSUME NEW a, NEW b, IsSeq(a), IsSeq(b)
    PROVE  Range(a \o b) = Range(a) \cup Range(b) /\ IsSeq(a \o b)
<1> DEFINE U == Range(a) \cup Range(b)
           ab == a \o b
<1>1. /\ a \in Seq(U) /\ b \in Seq(U) /\ Len(a) \in Nat /\ Len(b) \in Nat
      /\ DOMAIN a = 1 .. Len(a) /\ DOMAIN b = 1 .. Len(b)
  BY DEF IsSeq
<1> HIDE DEF U
<1>2. /\ ab \in Seq(U) /\ DOMAIN ab = 1 .. Len(a) + Len(b)
      /\ \A i \in 1 .. Len(a) : ab[i] = a[i]
      /\ \A i \in 1 .. Len(b) : ab[Len(a) + i] = b[i]
  BY <1>1, Concatenated
<1> HIDE DEF ab
<1>3. IsSeq(ab) /\ Range(ab) \subseteq U
  BY <1>2, SeqIsSeq
<1>4. ASSUME NEW i \in DOMAIN a  PROVE a[i] \in Range(ab)
  <2>1. i \in DOMAIN ab /\ ab[i] = a[i]
    BY <1>1, <1>2
  <2>2. QED  BY <2>1 DEF Range
<1>5. ASSUME NEW i \in DOMAIN b  PROVE b[i] \in Range(ab)
  <2>1. Len(a) + i \in DOMAIN ab /\ ab[Len(a) + i] = b[i]
    BY <1>1, <1>2
  <2>2. QED  BY <2>1 DEF Range
<1>6. U \subseteq Range(ab)
  BY <1>4, <1>5 DEF U, Range
<1>7. QED  BY <1>3, <1>6 DEF U, ab

\* FlattenSeq of sequences holds what each of them holds.
LEMMA FlattenHolds ==
    ASSUME NEW S, NEW seqs \in Seq(Seq(S)), NEW k \in DOMAIN seqs
    PROVE  Range(seqs[k]) \subseteq Range(FlattenSeq(seqs))
<1> DEFINE N == Len(seqs)
<1>1. N \in Nat /\ k \in 1 .. N /\ \A i \in 1 .. N : seqs[i] \in Seq(S)
  OBVIOUS
<1>2. PICK f : /\ FlattenSeq(seqs) = IF N = 0 THEN seqs ELSE f[N]
               /\ \A i \in 1 .. N : f[i] = IF i = 1 THEN seqs[i] ELSE f[i - 1] \o seqs[i]
  BY FlattenRecurs
<1> HIDE DEF N
<1> DEFINE T == {n \in 0 .. N : n = 0 \/ (f[n] \in Seq(S) /\ (k <= n => Range(seqs[k]) \subseteq Range(f[n])))}
<1>3. 0 \in T
  BY <1>1
<1>4. ASSUME NEW n \in 0 .. N - 1, n \in T PROVE n + 1 \in T
  <2>1. n \in Nat /\ n + 1 \in 1 .. N /\ n + 1 \in 0 .. N /\ (n + 1) - 1 = n /\ n + 1 # 0
    BY <1>4, <1>1
  <2>2. f[n + 1] = IF n + 1 = 1 THEN seqs[n + 1] ELSE f[n] \o seqs[n + 1]
    BY <2>1, <1>2
  <2>3. CASE n = 0
    BY <1>1, <2>1, <2>2, <2>3
  <2>4. CASE n # 0
    <3>1. f[n] \in Seq(S) /\ (k <= n => Range(seqs[k]) \subseteq Range(f[n])) /\ seqs[n + 1] \in Seq(S)
      BY <1>4, <1>1, <2>1, <2>4
    <3>2. f[n + 1] = f[n] \o seqs[n + 1]
      <4>1. n \in Nat /\ n # 0 => n + 1 # 1
        OBVIOUS
      <4>2. QED  BY <4>1, <2>1, <2>2, <2>4
    <3>3. Range(f[n + 1]) = Range(f[n]) \cup Range(seqs[n + 1])
      BY <3>1, <3>2, SeqIsSeq, RangeOfBoth
    <3>4. f[n + 1] \in Seq(S)
      BY <3>1, <3>2
    <3>5. k <= n + 1 => k <= n \/ k = n + 1
      BY <1>1, <2>1
    <3>6. QED  BY <2>1, <3>1, <3>3, <3>4, <3>5
  <2>5. QED  BY <2>3, <2>4
<1>5. N \in T
  <2> HIDE DEF T
  <2>1. QED  BY <1>1, <1>3, <1>4, UpTo
<1>6. QED  BY <1>1, <1>2, <1>5

\* The names of two lists, put one behind the other.
LEMMA NamesOfBoth ==
    ASSUME NEW a, NEW b, IsSeq(a), IsSeq(b)
    PROVE  NamesOf(a \o b) = NamesOf(a) \cup NamesOf(b)
<1>1. \A q : NamesOf(q) = {x.name : x \in Range(q)}
  BY DEF NamesOf, Range
<1>2. Range(a \o b) = Range(a) \cup Range(b)
  BY RangeOfBoth
<1>3. QED  BY <1>1, <1>2

\* Whatever the loader lets pass is a configuration the tasks can be built on.
LEMMA LoadedOk ==
    ASSUME NEW doc, NEW env, Readable(doc), Load(doc, env).cfg # None
    PROVE  CfgOk(Load(doc, env).cfg)
<1> DEFINE T == Typed(ResolveSecrets(doc, env))
           W == Load(doc, env).cfg
<1>1. /\ ShapeOk(doc) /\ ShapeOk(ResolveSecrets(doc, env)) /\ FirstBroken(T) = ""
      /\ W = WithEndpoints(T)
  BY LoadedIsTyped, Zenon
<1>2. /\ {"sources", "processors", "sinks", "resource_size"} \subseteq DOMAIN T
      /\ IsSeq(T.sources) /\ IsSeq(T.processors) /\ IsSeq(T.sinks)
      /\ T.resource_size \in {"s", "m", "l"}
      /\ \A i \in DOMAIN T.sources : SourceTyped(T.sources[i]) /\ SourceNumbers \cup {"name", "resolved"} \subseteq DOMAIN T.sources[i]
      /\ \A i \in DOMAIN T.processors : IsSeq(T.processors[i].inputs)
      /\ \A i \in DOMAIN T.sinks : IsSeq(T.sinks[i].inputs)
  BY <1>1, TypedLists, Zenon
<1> HIDE DEF T, W
<1>3. /\ Cardinality(Range(AllNames(T))) = Len(AllNames(T))
      /\ \A i \in DOMAIN Consumers(T) : InputsOk(T, Consumers(T)[i])
      /\ NoOrphans(T)
  BY <1>1, RulesKept
<1>4. /\ W.sources = [i \in DOMAIN T.sources |-> Resolve(T.sources[i])]
      /\ W.processors = T.processors /\ W.sinks = T.sinks /\ W.resource_size = T.resource_size
  BY <1>1, <1>2 DEF WithEndpoints
<1>5. \A i \in DOMAIN T.sources : SourceTyped(Resolve(T.sources[i])) /\ Resolve(T.sources[i]).name = T.sources[i].name
  BY <1>2 DEF Resolve, SourceTyped, SourceNumbers
<1>6. IsSeq(W.sources) /\ DOMAIN W.sources = DOMAIN T.sources
  <2>1. W.sources = [i \in DOMAIN T.sources |-> W.sources[i]]
    BY <1>4
  <2>2. QED  BY <2>1, <1>2, MappedIsSeq
<1>7. NamesOf(W.sources) = NamesOf(T.sources)
  BY <1>4, <1>5, <1>6 DEF NamesOf
<1>8. Consumers(W) = Consumers(T) /\ \A n : ConsumersOf(W, n) = ConsumersOf(T, n)
  <2>1. Consumers(W) = Consumers(T)
    BY <1>4 DEF Consumers
  <2>2. QED  BY <2>1, Zenon DEF ConsumersOf
<1>9. ChannelCapacity(W) \in Nat /\ Profile(W.resource_size).default_max_records \in Nat
  <2>1. W.resource_size \in {"s", "m", "l"}
    BY <1>2, <1>4
  <2>2. \A size \in {"s", "m", "l"} : Profile(size).channel_capacity \in Nat /\ Profile(size).default_max_records \in Nat
    BY DEF Profile
  <2>3. QED  BY <2>1, <2>2 DEF ChannelCapacity
<1>10. \A n \in NamesOf(W.sinks) : n \notin NamesOf(W.sources) \cup NamesOf(W.processors)
  BY <1>2, <1>3, <1>4, <1>7, SinksApart
<1>11. \A i \in DOMAIN W.sources : SourceTyped(W.sources[i])
  BY <1>4, <1>5
<1>12. NamesOf(Producers(T)) = NamesOf(T.sources) \cup NamesOf(T.processors)
  BY <1>2, NamesOfBoth DEF Producers
<1>13. \A n \in NamesOf(W.sources) \cup NamesOf(W.processors) : ConsumersOf(W, n) # <<>>
  BY <1>3, <1>4, <1>7, <1>8, <1>12 DEF NoOrphans
<1>14. ASSUME NEW i \in DOMAIN Consumers(W)
       PROVE  /\ IsSeq(Consumers(W)[i].inputs)
              /\ Range(Consumers(W)[i].inputs) \subseteq NamesOf(W.sources) \cup NamesOf(W.processors)
              /\ Consumers(W)[i].name \notin Range(Consumers(W)[i].inputs)
  <2>1. /\ Consumers(T)[i].name \notin Range(Consumers(T)[i].inputs)
        /\ Range(Consumers(T)[i].inputs) \subseteq NamesOf(T.sources) \cup NamesOf(T.processors)
    BY <1>3, <1>8, <1>12 DEF InputsOk, Range
  <2>2. Range(Consumers(T)) = Range(T.processors) \cup Range(T.sinks)
    BY <1>2, RangeOfBoth DEF Consumers
  <2>3. Consumers(T)[i] \in Range(T.processors) \cup Range(T.sinks)
    BY <2>2, <1>8 DEF Range
  <2>4. IsSeq(Consumers(T)[i].inputs)
    BY <2>3, <1>2 DEF Range
  <2>5. QED  BY <2>1, <2>4, <1>4, <1>7, <1>8
<1>15. QED  BY <1>2, <1>4, <1>6, <1>9, <1>10, <1>11, <1>13, <1>14 DEF CfgOk, W


\* The consumers of a node are nodes that list it, as long as S holds those.
LEMMA ConsumersAmong ==
    ASSUME NEW cfg, CfgOk(cfg), NEW n, NEW S,
           \A k \in DOMAIN Consumers(cfg) : n \in Range(Consumers(cfg)[k].inputs) => Consumers(cfg)[k].name \in S
    PROVE  ConsumersOf(cfg, n) \in Seq(S)
<1> DEFINE cs == Consumers(cfg)
           listed(c) == {i \in DOMAIN c.inputs : c.inputs[i] = n}
           seqs == [k \in DOMAIN cs |-> [j \in 1 .. Cardinality(listed(cs[k])) |-> cs[k].name]]
<1>1. ConsumersOf(cfg, n) = FlattenSeq(seqs)
  BY Zenon DEF ConsumersOf
<1>2. IsSeq(cs)
  BY RangeOfBoth DEF CfgOk, Consumers
<1>3. ASSUME NEW k \in DOMAIN cs  PROVE seqs[k] \in Seq(S)
  <2>1. IsSeq(cs[k].inputs)
    BY DEF CfgOk
  <2>2. listed(cs[k]) \in SUBSET (1 .. Len(cs[k].inputs)) /\ Len(cs[k].inputs) \in Int /\ 1 \in Int
    BY <2>1 DEF IsSeq
  <2>3. cs[k].name \notin S => listed(cs[k]) = {}
    BY DEF Range
  <2>4. seqs[k] = [j \in 1 .. Cardinality(listed(cs[k])) |-> cs[k].name]
    OBVIOUS
  <2> DEFINE L == listed(cs[k])
             x == cs[k].name
  <2> HIDE DEF L
  <2>6. IsFiniteSet(1 .. Len(cs[k].inputs))
    BY <2>2, FS_Interval, Zenon
  <2>7. Cardinality(L) \in Nat
    <3>1. IsFiniteSet(L)
      BY <2>2, <2>6, FS_Subset DEF L
    <3>2. QED  BY <3>1, FS_CardinalityType
  <2>8. x \notin S => Cardinality(L) = 0
    BY <2>3, FS_EmptySet DEF L
  <2>9. seqs[k] = [j \in 1 .. Cardinality(L) |-> x]
    BY <2>4 DEF L
  <2> HIDE DEF x, seqs
  <2>10. CASE x \notin S
    <3>1. seqs[k] = <<>>
      BY <2>8, <2>9, <2>10
    <3>2. QED  BY <3>1
  <2>11. CASE x \in S
    BY <2>11, <2>7, <2>9
  <2>12. QED  BY <2>10, <2>11
<1>4. seqs \in Seq(Seq(S))
  <2>1. DOMAIN cs = 1 .. Len(cs) /\ Len(cs) \in Nat
    BY <1>2 DEF IsSeq
  <2>2. seqs = [k \in 1 .. Len(cs) |-> seqs[k]]
    BY <2>1
  <2> HIDE DEF seqs
  <2>3. QED  BY <2>1, <2>2, <1>3
<1> HIDE DEF seqs
<1>5. QED  BY <1>1, <1>4, FlattenTyped

\* The consumers of a node are consumers, and never the node itself.
LEMMA ConsumersTyped ==
    ASSUME NEW cfg, CfgOk(cfg), NEW n
    PROVE  /\ IsSeq(ConsumersOf(cfg, n)) /\ n \notin Range(ConsumersOf(cfg, n))
           /\ Range(ConsumersOf(cfg, n)) \subseteq NamesOf(Consumers(cfg))
<1> DEFINE S == NamesOf(Consumers(cfg)) \ {n}
<1>1. ASSUME NEW k \in DOMAIN Consumers(cfg), n \in Range(Consumers(cfg)[k].inputs)
      PROVE  Consumers(cfg)[k].name \in S
  BY <1>1 DEF CfgOk, NamesOf
<1> HIDE DEF S
<1>2. ConsumersOf(cfg, n) \in Seq(S)
  BY <1>1, ConsumersAmong
<1>3. QED  BY <1>2, SeqIsSeq DEF S

\* What a node lists, feeds it.
LEMMA ListedIsFed ==
    ASSUME NEW cfg, CfgOk(cfg), NEW k \in DOMAIN Consumers(cfg), NEW n \in Range(Consumers(cfg)[k].inputs)
    PROVE  Consumers(cfg)[k].name \in Range(ConsumersOf(cfg, n))
<1> DEFINE cs == Consumers(cfg)
           S == NamesOf(cs)
           listed(c) == {i \in DOMAIN c.inputs : c.inputs[i] = n}
           seqs == [j \in DOMAIN cs |-> [i \in 1 .. Cardinality(listed(cs[j])) |-> cs[j].name]]
<1>1. ConsumersOf(cfg, n) = FlattenSeq(seqs)
  BY Zenon DEF ConsumersOf
<1>2. IsSeq(cs)
  BY RangeOfBoth DEF CfgOk, Consumers
<1>3. ASSUME NEW j \in DOMAIN cs
      PROVE  Cardinality(listed(cs[j])) \in Nat /\ (listed(cs[j]) # {} => Cardinality(listed(cs[j])) # 0)
  <2>1. IsSeq(cs[j].inputs)
    BY DEF CfgOk
  <2>2. listed(cs[j]) \in SUBSET (1 .. Len(cs[j].inputs)) /\ Len(cs[j].inputs) \in Int /\ 1 \in Int
    BY <2>1 DEF IsSeq
  <2> DEFINE L == listed(cs[j])
  <2> HIDE DEF L
  <2>3. IsFiniteSet(1 .. Len(cs[j].inputs))
    BY <2>2, FS_Interval, Zenon
  <2>4. IsFiniteSet(L)
    BY <2>2, <2>3, FS_Subset DEF L
  <2>5. Cardinality(L) \in Nat /\ (L # {} => Cardinality(L) # 0)
    BY <2>4, FS_CardinalityType, FS_EmptySet
  <2>6. QED  BY <2>5 DEF L
<1>4. DOMAIN cs = 1 .. Len(cs) /\ Len(cs) \in Nat /\ DOMAIN seqs = DOMAIN cs
      /\ \A j \in DOMAIN cs : cs[j].name \in S
  BY <1>2 DEF IsSeq, NamesOf
<1>5. ASSUME NEW j \in DOMAIN cs  PROVE seqs[j] \in Seq(S)
  <2>1. seqs[j] = [i \in 1 .. Cardinality(listed(cs[j])) |-> cs[j].name]
    OBVIOUS
  <2> HIDE DEF seqs, listed, S
  <2>2. QED  BY <1>3, <1>4, <2>1
<1>6. listed(cs[k]) # {}
  BY DEF Range
<1>7. cs[k].name \in Range(seqs[k])
  <2>1. seqs[k] = [i \in 1 .. Cardinality(listed(cs[k])) |-> cs[k].name]
    OBVIOUS
  <2>2. Cardinality(listed(cs[k])) \in Nat /\ Cardinality(listed(cs[k])) # 0
    BY <1>3, <1>6
  <2> HIDE DEF seqs, listed
  <2>3. 1 \in DOMAIN seqs[k] /\ seqs[k][1] = cs[k].name
    BY <2>1, <2>2
  <2>4. QED  BY <2>3 DEF Range
<1>8. seqs \in Seq(Seq(S)) /\ k \in DOMAIN seqs
  <2>1. seqs = [j \in 1 .. Len(cs) |-> seqs[j]]
    BY <1>4
  <2> HIDE DEF seqs, S
  <2>2. QED  BY <2>1, <1>4, <1>5
<1> HIDE DEF seqs, S
<1>9. QED  BY <1>1, <1>7, <1>8, FlattenHolds


-----------------------------------------------------------------------------
(* What a source is made of.                                                 *)

\* The greater and the lesser of two numbers.
LEMMA OfTwo ==
    ASSUME NEW a \in Int, NEW b \in Int
    PROVE  /\ Max({a, b}) = IF a >= b THEN a ELSE b
           /\ Min({a, b}) = IF a <= b THEN a ELSE b
BY DEF Max, Min

\* The least of several blocks, some of them absent.
LEMMA LeastOfBlocks ==
    ASSUME NEW S, S \subseteq OptNat, S \ {None} # {}
    PROVE  LeastOf(S) \in Nat
<1> DEFINE T == S \ {None}
<1>1. T \subseteq Nat /\ T # {}
  BY DEF OptNat
<1>2. LeastOf(S) = Min(T)
  BY DEF LeastOf
<1> HIDE DEF T
<1>3. \E m \in T : \A k \in T : m =< k
  BY <1>1, LeastNatural
<1>4. Min(T) \in T
  BY <1>3 DEF Min
<1>5. QED  BY <1>1, <1>2, <1>4

\* A value that may be absent, and its default.
LEMMA OrNat ==
    ASSUME NEW v \in OptNat, NEW d \in Nat
    PROVE  Or(v, d) \in Nat
BY DEF Or, OptNat

\* The shortest lists.
LEMMA ShortSeqs ==
    ASSUME NEW S
    PROVE  <<>> \in Seq(S) /\ \A x \in S : <<x>> \in Seq(S)
OBVIOUS

\* A list with some of its elements left out is a list.
LEMMA PickedIsSeq ==
    ASSUME NEW s, IsSeq(s), NEW q, q = [i \in DOMAIN s |-> q[i]],
           \A i \in DOMAIN s : q[i] = <<s[i]>> \/ q[i] = <<>>
    PROVE  IsSeq(FlattenSeq(q))
<1>1. IsSeq(q) /\ DOMAIN s = 1 .. Len(s) /\ Len(s) \in Nat /\ DOMAIN q = DOMAIN s
  BY MappedIsSeq
<1>2. \A i \in DOMAIN s : q[i] \in Seq(Range(s))
  <2> SUFFICES ASSUME NEW i \in DOMAIN s PROVE q[i] \in Seq(Range(s))
    OBVIOUS
  <2>1. s[i] \in Range(s)
    BY DEF Range
  <2>2. QED  BY <2>1, ShortSeqs
<1>3. q \in Seq(Seq(Range(s)))
  BY <1>1, <1>2
<1>4. QED  BY <1>3, FlattenTyped, SeqIsSeq

\* The configuration of a process, the one its document gives.
LEMMA CfgOfRun ==
    ASSUME Surrounded, run.cfg # None, run.cfg = Wired
    PROVE  /\ CfgOk(Cfg)
           /\ SourceNames = NamesOf(Cfg.sources) /\ ProcessorNames = NamesOf(Cfg.processors)
           /\ SinkNames = NamesOf(Cfg.sinks)
           /\ IsSeq(sc.logs) /\ sc.height \in Nat /\ sc.page \in Nat /\ sc.fork \in Nat
<1>1. Readable(sc.doc) /\ IsSeq(sc.logs) /\ sc.height \in Nat /\ sc.page \in Nat /\ sc.fork \in Nat
  BY ScenarioAssumption DEF Surrounded
<1>2. CfgOk(Load(sc.doc, sc.env).cfg)
  BY <1>1, LoadedOk DEF Wired
<1>3. QED  BY <1>1, <1>2 DEF Wired, Cfg, SourceNames, ProcessorNames, SinkNames

\* The configuration of a source.
LEMMA SourceCfgTyped ==
    ASSUME run.cfg # None, CfgOk(Cfg), NEW s \in SourceNames
    PROVE  /\ SourceTyped(SourceCfg(s)) /\ SourceCfg(s).name = s
           /\ DefaultStart(s) \in Nat
<1>1. \E c \in Range(Cfg.sources) : c.name = s
  BY DEF SourceNames, NamesOf, Range, Cfg
<1>2. SourceCfg(s) \in Range(Cfg.sources) /\ SourceCfg(s).name = s
  BY <1>1 DEF SourceCfg
<1>3. SourceTyped(SourceCfg(s))
  BY <1>2 DEF CfgOk, Range
<1>4. DefaultStart(s) \in Nat
  BY <1>3, OrNat DEF SourceTyped, DefaultStart
<1>5. QED  BY <1>2, <1>3, <1>4

\* The records of an answer are a list, and it ends at a block.
LEMMA AskedTyped ==
    ASSUME IsSeq(sc.logs), sc.height \in Nat, sc.page \in Nat, NEW s, SourceTyped(SourceCfg(s)),
           NEW cur \in Nat, NEW sel
    PROVE  LET resp == ParseResponse(Answer(s, cur), cur, sel) IN
           IsSeq(resp.records) /\ resp.next_block \in Nat /\ resp.archive_height = sc.height
<1> DEFINE A == Answer(s, cur)
           next == LeastOf({cur + sc.page, Max({cur, sc.height + 1}), SourceCfg(s).to_block})
           Keeps(l) == OnChain(s, l) /\ l.block >= cur /\ l.block < next
           picks == [i \in DOMAIN sc.logs |-> IF Keeps(sc.logs[i]) THEN <<sc.logs[i]>> ELSE <<>>]
           logs == FlattenSeq(picks)
           wire == [i \in DOMAIN logs |-> WireLog(logs[i])]
<1>1. next \in Nat
  <2>1. Max({cur, sc.height + 1}) \in Nat
    BY OfTwo
  <2> DEFINE S == {cur + sc.page, Max({cur, sc.height + 1}), SourceCfg(s).to_block}
  <2>2. S \subseteq OptNat /\ cur + sc.page \in S \ {None}
    BY <2>1, NoneAssumption DEF SourceTyped, OptNat
  <2> HIDE DEF S
  <2>3. LeastOf(S) \in Nat
    BY <2>2, LeastOfBlocks
  <2>4. QED  BY <2>3 DEF S
<1> HIDE DEF next
<1>2. A.archive_height = sc.height /\ A.next_block = next /\ Len(A.data) = 1
      /\ DOMAIN A.data = {1} /\ "logs" \in DOMAIN A.data[1] /\ A.data[1].logs = wire
  <2> DEFINE blocks == [i \in DOMAIN logs |->
                           [number |-> Num(logs[i].block), timestamp |-> [k |-> "hex", v |-> 100 + logs[i].block],
                            hash |-> Text(Version(s))]]
  <2>1. A = [archive_height |-> sc.height, next_block |-> next, data |-> <<[blocks |-> blocks, logs |-> wire]>>]
    BY Zenon DEF Answer, Passed, next
  <2> HIDE DEF A, blocks, wire
  <2>2. QED  BY <2>1
<1>3. IsSeq(logs)
  <2>1. picks = [i \in DOMAIN sc.logs |-> picks[i]] /\ \A i \in DOMAIN sc.logs : picks[i] = <<sc.logs[i]>> \/ picks[i] = <<>>
    OBVIOUS
  <2> HIDE DEF picks
  <2>2. QED  BY <2>1, PickedIsSeq
<1> HIDE DEF logs
<1>4. IsSeq(wire)
  <2>1. wire = [i \in DOMAIN logs |-> wire[i]]
    OBVIOUS
  <2> HIDE DEF wire
  <2>2. QED  BY <2>1, <1>3, MappedIsSeq
<1> HIDE DEF wire, A
<1> DEFINE parts == [i \in DOMAIN A.data |-> Or(Get(A.data[i], "logs"), <<>>)]
           all == FlattenSeq(parts)
           resp == ParseResponse(A, cur, sel)
<1>5. IsSeq(all)
  <2>1. parts[1] = wire \/ parts[1] = <<>>
    BY <1>2 DEF Get, Or
  <2>2. parts[1] \in Seq(Range(wire))
    <3> HIDE DEF parts
    <3>1. QED  BY <2>1, <1>4, ShortSeqs DEF IsSeq
  <2>3. parts = <<parts[1]>>
    BY <1>2
  <2> HIDE DEF parts
  <2>4. parts \in Seq(Seq(Range(wire)))
    <3> DEFINE S == Seq(Range(wire))
               x == parts[1]
    <3>1. x \in S /\ parts = <<x>>
      BY <2>2, <2>3
    <3> HIDE DEF S, x
    <3>2. parts \in Seq(S)
      BY <3>1, ShortSeqs
    <3>3. QED  BY <3>2 DEF S
  <2>5. QED  BY <2>4, FlattenTyped, SeqIsSeq
<1>6. /\ resp.archive_height = A.archive_height /\ resp.next_block = Or(A.next_block, cur)
      /\ resp.records = [i \in DOMAIN all |-> resp.records[i]]
  BY DEF ParseResponse
<1> HIDE DEF all, resp
<1>7. IsSeq(resp.records)
  BY <1>5, <1>6, MappedIsSeq
<1>8. resp.next_block \in Nat
  BY <1>1, <1>2, <1>6 DEF Or
<1>9. QED  BY <1>2, <1>6, <1>7, <1>8 DEF resp, A


\* A step of a source ends at a block.
LEMMA PlannedTyped ==
    ASSUME NEW c, SourceTyped(c), NEW cur \in Nat, NEW resp, resp.next_block \in Nat, resp.archive_height \in Nat
    PROVE  Planned(c, cur, resp).next \in Nat
<1> DEFINE B == ConfirmedBound(resp.archive_height, c.confirmations)
           S == {resp.next_block, c.to_block, B}
           e == LeastOf(S)
           plan == Planned(c, cur, resp)
<1>1. B \in OptNat
  BY DEF ConfirmedBound, SourceTyped, OptNat
<1>2. S \subseteq OptNat /\ resp.next_block \in S \ {None}
  BY <1>1, NoneAssumption DEF SourceTyped, OptNat
<1> HIDE DEF S
<1>3. e \in Nat
  BY <1>2, LeastOfBlocks
<1>4. \E step : plan = [step |-> step, next |-> e] \/ plan = [step |-> step, next |-> cur]
  BY Zenon DEF Planned, PlanStep, S
<1> HIDE DEF e, plan
<1>5. plan.next \in Nat
  BY <1>3, <1>4
<1>6. QED  BY <1>5 DEF plan

\* The records that are kept are a list.
LEMMA ConfirmedIsSeq ==
    ASSUME NEW resp, IsSeq(resp.records), NEW effective
    PROVE  IsSeq(Confirmed(resp, effective))
<1> DEFINE Keeps(r) == \A n \in {BlockNumberOf(r)} \ {None} : n < effective
           picks == [i \in DOMAIN resp.records |-> IF Keeps(resp.records[i]) THEN <<resp.records[i]>> ELSE <<>>]
<1>1. Confirmed(resp, effective) = IF effective >= resp.next_block THEN resp.records ELSE FlattenSeq(picks)
  BY Zenon DEF Confirmed, Passed
<1>2. /\ picks = [i \in DOMAIN resp.records |-> picks[i]]
      /\ \A i \in DOMAIN resp.records : picks[i] = <<resp.records[i]>> \/ picks[i] = <<>>
  <2> HIDE DEF Keeps
  <2>1. QED  OBVIOUS
<1> HIDE DEF picks
<1>3. IsSeq(FlattenSeq(picks))
  BY <1>2, PickedIsSeq
<1>4. QED  BY <1>1, <1>3

\* Batches of a source, none of them a rollback.
PlainFrom(s, q) == \A i \in DOMAIN q : q[i].source = s /\ ~IsRollback(q[i])

\* The batches of a range are good batches of the source.
LEMMA RangeQueue ==
    ASSUME NEW cfg, NEW s \in NamesOf(cfg.sources), NEW chain, NEW cur \in Nat, NEW next \in Nat, NEW records, IsSeq(records),
           NEW max \in Nat \ {0}
    PROVE  /\ QueueOk(RangeBatches(s, chain, cur, next, records, max), cfg)
           /\ PlainFrom(s, RangeBatches(s, chain, cur, next, records, max))
<1> DEFINE q == RangeBatches(s, chain, cur, next, records, max)
           cs == Chunks(records, max)
           N == (Len(records) + max - 1) \div max
<1>1. Len(records) \in Nat
  BY DEF IsSeq
<1>2. N \in Int
  <2>1. Len(records) + max - 1 \in Nat
    BY <1>1
  <2>2. QED  BY <2>1
<1>3. DOMAIN cs = 1 .. N
  BY DEF Chunks
<1> HIDE DEF cs
<1>4. q = [i \in 1 .. N |-> [NewBatch(s, chain, cur, next, i - 1, "log", cs[i])
                                EXCEPT !.ack_block = IF i < Len(cs) THEN cur ELSE None]]
  BY <1>3 DEF RangeBatches, cs
<1> HIDE DEF q, N
<1>5. q = [i \in 1 .. N |-> q[i]] /\ DOMAIN q = 1 .. N
  BY <1>4
<1>6. ASSUME NEW i \in 1 .. N  PROVE BatchOk(q[i], cfg) /\ q[i].source = s /\ ~IsRollback(q[i])
  <2> DEFINE a == IF i < Len(cs) THEN cur ELSE None
             id == MakeBatchId(s, cur, next, i - 1)
             recs == cs[i]
  <2>1. q[i] = [NewBatch(s, chain, cur, next, i - 1, "log", recs) EXCEPT !.ack_block = a]
    BY <1>4
  <2>2. a \in {cur, None}
    OBVIOUS
  <2> HIDE DEF a, recs, id
  <2>3. q[i] = [batch_id |-> id, source |-> s, chain_id |-> chain, from |-> cur, to |-> next,
                ack_block |-> a, kind |-> "log", records |-> recs, control |-> None]
    BY <2>1 DEF NewBatch, id
  <2>4. /\ BatchFields \subseteq DOMAIN q[i] /\ q[i].source = s /\ q[i].kind = "log"
        /\ q[i].ack_block = a /\ q[i].to = next
    BY <2>3 DEF BatchFields
  <2>5. AckBlock(q[i]) \in Nat /\ ~IsRollback(q[i])
    BY <2>2, <2>4 DEF AckBlock, Or, IsRollback, IsControl
  <2>6. QED  BY <2>4, <2>5 DEF BatchOk
<1>7. QueueOk(q, cfg)
  BY <1>2, <1>5, <1>6, IndexedQueue
<1>8. PlainFrom(s, q)
  BY <1>5, <1>6 DEF PlainFrom
<1>9. QED  BY <1>7, <1>8 DEF q

\* A control batch is a good batch.
LEMMA ControlOk ==
    ASSUME NEW cfg, NEW s \in NamesOf(cfg.sources), NEW chain, NEW ctrl, NEW at \in Nat, NEW k, NEW ch,
           ctrl = [control |-> k, chain_id |-> ch, at |-> at]
    PROVE  BatchOk(ControlBatch(s, chain, ctrl), cfg) /\ AckBlock(ControlBatch(s, chain, ctrl)) = at
<1> DEFINE b == ControlBatch(s, chain, ctrl)
<1>1. /\ BatchFields \subseteq DOMAIN b /\ b.source = s /\ b.ack_block = None /\ b.to = ctrl.at /\ b.control = ctrl
  BY DEF ControlBatch, BatchFields
<1>2. ctrl.at = at
  OBVIOUS
<1> HIDE DEF b
<1>3. QED  BY <1>1, <1>2 DEF BatchOk, AckBlock, Or, b

\* What a step of a source emits is a queue of good batches.
LEMMA EmittedTyped ==
    ASSUME NEW cfg, NEW s \in NamesOf(cfg.sources), NEW c, SourceTyped(c), c.name = s, Knobs.default_max_records \in Nat,
           NEW cur \in Nat, NEW resp, IsSeq(resp.records), NEW plan, plan.next \in Nat
    PROVE  QueueOk(Emitted(c, cur, resp, plan), cfg)
<1> DEFINE chain == c.resolved.chain_id
           m == Max({1, Or(c.max_records, Knobs.default_max_records)})
           R == RangeBatches(s, chain, cur, plan.next, Confirmed(resp, plan.next), m)
           E == <<ControlBatch(s, chain, Eof(plan.next))>>
           a == IF plan.step = "emit" THEN R ELSE <<>>
           b == IF Ends(c, plan) THEN E ELSE <<>>
<1>1. Emitted(c, cur, resp, plan) = a \o b
  BY Zenon DEF Emitted
<1>2. m \in Nat \ {0}
  <2>1. Or(c.max_records, Knobs.default_max_records) \in Nat
    BY OrNat DEF SourceTyped
  <2>2. QED  BY <2>1, OfTwo
<1> HIDE DEF m
<1>3. QueueOk(R, cfg)
  <2>1. QueueOk(R, cfg) /\ PlainFrom(s, R)
    BY <1>2, ConfirmedIsSeq, RangeQueue
  <2>2. QED  BY <2>1
<1>4. QueueOk(E, cfg)
  <2>1. BatchOk(ControlBatch(s, chain, Eof(plan.next)), cfg)
    BY ControlOk DEF Eof
  <2>2. QED  BY <2>1, SingleQueue
<1> HIDE DEF R, E
<1>5. QueueOk(a, cfg) /\ QueueOk(b, cfg)
  BY <1>3, <1>4, EmptyQueue
<1>6. QED  BY <1>1, <1>5, ConcatQueue

\* Where a source starts is a block.
LEMMA StartTyped ==
    ASSUME NEW s, SourceTyped(SourceCfg(s)), DefaultStart(s) \in Nat, sc.height \in Nat,
           NEW restored \in OptNat, NEW answered
    PROVE  StartCursor(s, restored, answered) \in Nat
<1> DEFINE c == Max({Or(restored, 0), DefaultStart(s)})
           h == Max({0, sc.height - SourceCfg(s).confirmations})
<1>1. c \in Nat
  BY OrNat, OfTwo
<1>2. h \in Nat
  <2>1. 0 \in Int /\ sc.height - SourceCfg(s).confirmations \in Int
    BY DEF SourceTyped
  <2>2. QED  BY <2>1, OfTwo
<1>3. StartCursor(s, restored, answered) \in {c, h}
  BY DEF StartCursor
<1> HIDE DEF c, h
<1>4. QED  BY <1>1, <1>2, <1>3

\* The least cursor of a source's sinks, if all of them have one.
LEMMA RestoreTyped ==
    ASSUME CursorsInv, NEW s
    PROVE  Restore(s) \in OptNat
<1> DEFINE sinks == Reachable(Cfg, s)
           T == {mark[<<s, n>>] : n \in sinks}
<1>1. CASE sinks # {} /\ \A n \in sinks : <<s, n>> \in DOMAIN mark
  <2>1. T \subseteq Nat /\ T # {} /\ Restore(s) = Min(T)
    BY <1>1 DEF CursorsInv, Restore
  <2> HIDE DEF T
  <2>2. \E m \in T : \A k \in T : m =< k
    BY <2>1, LeastNatural
  <2>3. Min(T) \in T
    BY <2>2 DEF Min
  <2>4. QED  BY <2>1, <2>3 DEF OptNat
<1>2. CASE ~(sinks # {} /\ \A n \in sinks : <<s, n>> \in DOMAIN mark)
  BY <1>2 DEF Restore, OptNat
<1>3. QED  BY <1>1, <1>2


-----------------------------------------------------------------------------
(* What a processor makes of a batch.                                        *)

\* A batch with other records, and for data perhaps of another kind.
Product(b, x) ==
    \/ x = b
    \/ ~IsControl(b) /\ \E kind \in {b.kind, "decoded"} : \E records : x = Derive(b, kind, records)

\* What identifies and acks a batch stays through every stage.
LEMMA ProductOk ==
    ASSUME NEW cfg, NEW b, BatchOk(b, cfg), NEW x, Product(b, x)
    PROVE  BatchOk(x, cfg)
<1>1. CASE x = b
  BY <1>1
<1>2. ASSUME NEW kind \in {b.kind, "decoded"}, NEW records, ~IsControl(b), x = [b EXCEPT !.kind = kind, !.records = records]
      PROVE  BatchOk(x, cfg)
  <2>1. BatchFields \subseteq DOMAIN b /\ b.source \in NamesOf(cfg.sources) /\ AckBlock(b) \in Nat
    BY DEF BatchOk
  <2>2. /\ DOMAIN x = DOMAIN b /\ x.source = b.source /\ x.ack_block = b.ack_block /\ x.to = b.to
        /\ x.kind = kind
    BY <1>2, <2>1 DEF BatchFields
  <2>3. kind # "control"
    BY <1>2 DEF IsControl
  <2>4. AckBlock(x) = AckBlock(b) /\ ~IsRollback(x)
    BY <2>2, <2>3 DEF AckBlock, IsRollback, IsControl
  <2>5. QED  BY <2>1, <2>2, <2>4 DEF BatchOk
<1>3. QED  BY <1>1, <1>2 DEF Product, Derive

\* A control batch passes through.
LEMMA ControlPasses ==
    ASSUME NEW ctx, NEW inst, NEW b, IsControl(b)
    PROVE  CallProcess(ctx, inst, b) = Result("ok", inst, <<Encode(b)>>)
BY DEF CallProcess

\* A call that succeeds returns at most one batch, a product of the one it got.
LEMMA CallProduces ==
    ASSUME NEW ctx, NEW inst, NEW b, CallProcess(ctx, inst, b).res = "ok"
    PROVE  \/ CallProcess(ctx, inst, b).out = <<>> /\ ~IsControl(b)
           \/ \E wire : CallProcess(ctx, inst, b).out = <<wire>> /\ Product(b, wire.batch)
<1> DEFINE r == CallProcess(ctx, inst, b)
           returned(bs) == IF bs = None THEN Result("err", inst, <<>>)
                           ELSE Result("ok", inst, [i \in DOMAIN bs |-> Encode(bs[i])])
           Good(x) == x.res = "ok" => x.out = <<>> \/ \E wire : x.out = <<wire>> /\ Product(b, wire.batch)
           enriched == [i \in DOMAIN b.records |-> EnrichRecord(ctx.config, b.records[i])]
<1>1. \/ IsControl(b) /\ r = Result("ok", inst, <<Encode(b)>>)
      \/ /\ ~IsControl(b)
         /\ \/ r = returned(FilterBatch(ctx.config, b))
            \/ r = returned(DecodeBatch(ctx.config, b))
            \/ r = ChaosProcess(ctx.config, inst, b)
            \/ r = returned(<<Derive(b, b.kind, enriched)>>)
            \/ r = Result("ok", inst, <<[tag |-> 1, batch |-> b]>>)
  BY DEF CallProcess
<1>2. ASSUME NEW bs, bs = None \/ bs = <<>> \/ \E x : bs = <<x>> /\ Product(b, x)
      PROVE  Good(returned(bs))
  <2>1. CASE bs = None
    BY <2>1 DEF Result
  <2>2. CASE bs = <<>>
    BY <2>2 DEF Result
  <2>3. ASSUME NEW x, bs = <<x>>, Product(b, x)  PROVE Good(returned(bs))
    <3>1. [i \in DOMAIN bs |-> Encode(bs[i])] = <<Encode(x)>>
      BY <2>3
    <3>2. Encode(x).batch = x
      BY DEF Encode
    <3>3. returned(bs).out = <<Encode(x)>> \/ returned(bs).res = "err"
      BY <3>1 DEF Result
    <3> HIDE DEF returned
    <3>4. QED  BY <3>2, <3>3, <2>3
  <2>4. QED  BY <1>2, <2>1, <2>2, <2>3
<1>3. ASSUME NEW kind \in {b.kind, "decoded"}, NEW records, ~IsControl(b)
      PROVE  Product(b, Derive(b, kind, records))
  BY <1>3 DEF Product
<1>4. CASE IsControl(b)
  <2>1. Product(b, b)
    BY DEF Product
  <2>2. r.out = <<Encode(b)>> /\ Encode(b).batch = b
    BY <1>1, <1>4 DEF Result, Encode
  <2> HIDE DEF r
  <2>3. QED  BY <2>1, <2>2 DEF r
<1>5. CASE ~IsControl(b)
  <2>1. ASSUME NEW kind \in {b.kind, "decoded"}, NEW records  PROVE Good(returned(OneBatch(b, kind, records)))
    <3>1. OneBatch(b, kind, records) = <<>> \/ OneBatch(b, kind, records) = <<Derive(b, kind, records)>>
      BY DEF OneBatch
    <3> HIDE DEF returned, Good
    <3>2. QED  BY <3>1, <1>2, <1>3, <1>5
  <2>2. Good(returned(FilterBatch(ctx.config, b)))
    <3> HIDE DEF returned, Good
    <3>1. QED  BY <2>1 DEF FilterBatch
  <2>3. Good(returned(DecodeBatch(ctx.config, b)))
    <3>1. DecodeBatch(ctx.config, b) = None \/ \E records : DecodeBatch(ctx.config, b) = OneBatch(b, "decoded", records)
      BY Zenon DEF DecodeBatch
    <3> HIDE DEF returned, Good
    <3>2. QED  BY <2>1, <1>2, <3>1
  <2>4. Good(ChaosProcess(ctx.config, inst, b))
    <3> DEFINE q == ChaosProcess(ctx.config, inst, b)
    <3>1. \E res, i, records : q = Result(res, i, IF res = "ok" THEN <<Encode(Derive(b, b.kind, records))>> ELSE <<>>)
      BY Zenon DEF ChaosProcess
    <3> HIDE DEF q
    <3>2. PICK records : q.res = "ok" => q.out = <<Encode(Derive(b, b.kind, records))>>
      BY <3>1 DEF Result
    <3>3. Encode(Derive(b, b.kind, records)).batch = Derive(b, b.kind, records)
      BY DEF Encode
    <3>4. QED  BY <3>2, <3>3, <1>3, <1>5 DEF q
  <2>5. Good(returned(<<Derive(b, b.kind, enriched)>>))
    <3> HIDE DEF returned, Good, enriched
    <3>1. QED  BY <1>2, <1>3, <1>5
  <2>6. Good(Result("ok", inst, <<[tag |-> 1, batch |-> b]>>))
    <3>1. Product(b, [tag |-> 1, batch |-> b].batch)
      BY DEF Product
    <3>2. QED  BY <3>1 DEF Result
  <2> HIDE DEF returned, enriched, Good
  <2>7. Good(r)
    BY <1>1, <1>5, <2>2, <2>3, <2>4, <2>5, <2>6
  <2>8. QED  BY <1>5, <2>7 DEF Good
<1>6. QED  BY <1>4, <1>5


\* What a processor sends on: products of the batch it got, one at least.
Sends(ctx, inst, b) ==
    Forward(b, [i \in DOMAIN CallProcess(ctx, inst, b).out |-> CallProcess(ctx, inst, b).out[i].batch])

\* It is one product of the batch it got.
LEMMA SendsProducts ==
    ASSUME NEW ctx, NEW inst, NEW b, CallProcess(ctx, inst, b).res = "ok"
    PROVE  \E x : Sends(ctx, inst, b) = <<x>> /\ Product(b, x)
<1> DEFINE r == CallProcess(ctx, inst, b)
           out == [i \in DOMAIN r.out |-> r.out[i].batch]
<1>1. (r.out = <<>> /\ ~IsControl(b)) \/ \E wire : r.out = <<wire>> /\ Product(b, wire.batch)
  BY CallProduces
<1> HIDE DEF r
<1>2. CASE r.out = <<>> /\ ~IsControl(b)
  <2>1. out = <<>>
    BY <1>2
  <2>2. Forward(b, out) = <<Derive(b, b.kind, <<>>)>>
    BY <1>2, <2>1 DEF Forward
  <2>3. Product(b, Derive(b, b.kind, <<>>))
    BY <1>2 DEF Product
  <2>4. QED  BY <2>2, <2>3 DEF Sends, r
<1>3. ASSUME NEW wire, r.out = <<wire>>, Product(b, wire.batch)
      PROVE  \E x : Sends(ctx, inst, b) = <<x>> /\ Product(b, x)
  <2>1. out = <<wire.batch>>
    BY <1>3
  <2>2. out # <<>>
    BY <2>1
  <2> HIDE DEF out
  <2>3. Forward(b, out) = <<wire.batch>>
    BY <2>1, <2>2 DEF Forward
  <2>4. QED  BY <1>3, <2>3 DEF Sends, r, out
<1>4. QED  BY <1>1, <1>2, <1>3

\* It is a queue of good batches.
LEMMA ForwardedOk ==
    ASSUME NEW cfg, NEW b, BatchOk(b, cfg), NEW ctx, NEW inst, CallProcess(ctx, inst, b).res = "ok"
    PROVE  QueueOk(Sends(ctx, inst, b), cfg)
<1>1. PICK x : Sends(ctx, inst, b) = <<x>> /\ Product(b, x)
  BY SendsProducts
<1>2. BatchOk(x, cfg)
  BY <1>1, ProductOk
<1>3. QED  BY <1>1, <1>2, SingleQueue

-----------------------------------------------------------------------------
(* Every step keeps the invariant: starting.                                 *)

\* The stop flag, once set, takes nothing from a task.
LEMMA StopKeepsNode ==
    ASSUME NEW n, NEW me, NEW cfg, NEW old, NEW new, NodeOk(n, me, cfg, old), old => new
    PROVE  NodeOk(n, me, cfg, new)
BY DEF NodeOk

\* A task as it is spawned.
LEMMA FreshOk ==
    ASSUME run.cfg # None, CfgOk(run.cfg), NEW n, NEW ctx, NEW pool, NEW stop
    PROVE  NodeOk(n, Fresh(n, ctx, pool), run.cfg, stop)
<1> DEFINE me == Fresh(n, ctx, pool)
<1>1. /\ NodeFields \subseteq DOMAIN me /\ me.out = <<>> /\ me.pos = 1 /\ me.live = ConsumersOf(run.cfg, n)
      /\ me.inbox = <<>> /\ me.up = TRUE /\ me.attempt = 0
  BY DEF Fresh, NodeFields, Cfg
<1> HIDE DEF me
<1>2. IsSeq(me.live) /\ n \notin Range(me.live)
  BY <1>1, ConsumersTyped
<1>3. BranchesOk(n, me, run.cfg)
  BY <1>1, <1>2 DEF BranchesOk, CfgOk
<1>4. Len(me.inbox) <= ChannelCapacity(run.cfg)
  BY <1>1 DEF CfgOk
<1>5. QED  BY <1>1, <1>3, <1>4, EmptyQueue, AttemptsAssumption DEF NodeOk, me

\* What changes neither the process nor its cursors and queues.
LEMMA IdleKeepsPipe ==
    ASSUME PipeInv, UNCHANGED <<sc, run, src, node, mark, disk, past>>
    PROVE  PipeInv'
BY DEF PipeInv, Surrounded, RunInv, CursorsInv, NodesInv, TasksInv, DiskNotAhead, Wired

\* The elements of a list are its first and those of the rest.
LEMMA HeadAndTail ==
    ASSUME NEW q, IsSeq(q), q # <<>>
    PROVE  IsSeq(Tail(q)) /\ Range(q) = {Head(q)} \cup Range(Tail(q))
<1>1. q \in Seq(Range(q)) /\ Len(q) \in Nat \ {0} /\ DOMAIN q = 1 .. Len(q)
  BY DEF IsSeq
<1> DEFINE r == Tail(q)
<1>2. /\ r \in Seq(Range(q)) /\ DOMAIN r = 1 .. Len(q) - 1
      /\ \A i \in 1 .. Len(q) - 1 : r[i] = q[i + 1]
  BY <1>1
<1>3. Head(q) = q[1]
  BY <1>1
<1> HIDE DEF r
<1>4. IsSeq(r) /\ Range(r) \subseteq Range(q) /\ q[1] \in Range(q)
  BY <1>1, <1>2, SeqIsSeq DEF Range
<1>5. ASSUME NEW i \in DOMAIN q  PROVE q[i] \in {q[1]} \cup Range(r)
  <2>1. CASE i = 1
    BY <2>1
  <2>2. CASE i # 1
    <3>1. i - 1 \in DOMAIN r /\ r[i - 1] = q[i]
      BY <1>1, <1>2, <2>2
    <3>2. QED  BY <3>1 DEF Range
  <2>3. QED  BY <2>1, <2>2
<1>6. Range(q) \subseteq {q[1]} \cup Range(r)
  BY <1>5 DEF Range
<1>7. QED  BY <1>3, <1>4, <1>6 DEF r

\* No tasks and no cursors.
LEMMA NobodyThere == DOMAIN <<>> = {}
OBVIOUS

\* The document a process was started with, and what it makes of it.
LEMMA StartKeepsPipe ==
    ASSUME PipeInv, Start
    PROVE  PipeInv'
<1> DEFINE r == Load(sc.doc, sc.env)
<1>1. /\ run' = [phase |-> IF r.error # "" THEN "failed" ELSE IF sc.cmds[run.nth + 1] = "validate" THEN "ended" ELSE "open",
                 nth |-> run.nth + 1, cfg |-> r.cfg,
                 said |-> [error |-> r.error, quotes |-> r.quotes, missing |-> r.missing],
                 health |-> "starting", stop |-> FALSE, ticking |-> TRUE, todo |-> <<>>,
                 eof |-> FALSE, saved |-> FALSE, paused |-> {}]
      /\ src' = <<>> /\ node' = <<>> /\ mark' = <<>>
      /\ UNCHANGED <<sc, disk, past>>
  BY DEF Start
<1>2. r.error = "" => r.cfg # None
  BY ScenarioAssumption DEF PipeInv, Surrounded
<1>3. Wired' = r.cfg /\ Wired = r.cfg
  BY <1>1 DEF Wired
<1> HIDE DEF r
<1>4. /\ DOMAIN run' = RunFields /\ run'.cfg = r.cfg
      /\ run'.phase \in {"failed", "ended", "open"} /\ (run'.phase = "open" => r.error = "")
  BY <1>1 DEF RunFields
<1>5. DOMAIN node' = {} /\ DOMAIN mark' = {}
  <2>1. node' = <<>> /\ mark' = <<>>
    BY <1>1, Zenon
  <2>2. QED  BY <2>1, NobodyThere
<1>6. RunInv'
  BY <1>1, <1>2, <1>3, <1>4, <1>5 DEF RunInv, PipeInv, Phases, Down
<1>7. CursorsInv'
  BY <1>1, <1>3, <1>5 DEF CursorsInv, PipeInv
<1>8. NodesInv' /\ TasksInv' /\ DiskNotAhead'
  BY <1>4, <1>5 DEF NodesInv, TasksInv, DiskNotAhead
<1>9. Surrounded'
  BY <1>1 DEF PipeInv, Surrounded
<1>10. QED  BY <1>6, <1>7, <1>8, <1>9 DEF PipeInv


\* The process as a step within a run leaves it.
LEMMA RunKept ==
    ASSUME PipeInv, sc' = sc, DOMAIN run' = DOMAIN run, run'.cfg = run.cfg, run'.phase \in Phases,
           run.cfg # None, PastFields \subseteq DOMAIN past'
    PROVE  Surrounded' /\ RunInv' /\ Wired' = Wired /\ run.cfg = Wired
<1>1. Wired' = Wired
  BY DEF Wired
<1>2. Surrounded'
  BY DEF PipeInv, Surrounded
<1>3. QED  BY <1>1, <1>2 DEF PipeInv, RunInv

\* A run that ends, its tables left as they are.
LEMMA DownKeepsPipe ==
    ASSUME PipeInv, sc' = sc, run.cfg # None, NEW phase \in Down, run' = [run EXCEPT !.phase = phase],
           UNCHANGED <<node, mark, disk, past>>
    PROVE  PipeInv'
<1>1. DOMAIN run' = DOMAIN run /\ run'.cfg = run.cfg /\ run'.stop = run.stop /\ run'.phase = phase
  BY DEF PipeInv, RunInv, RunFields
<1>2. Surrounded' /\ RunInv' /\ Wired' = Wired
  BY <1>1, RunKept DEF Phases, PipeInv, RunInv
<1>3. CursorsInv' /\ NodesInv'
  BY <1>1, <1>2 DEF PipeInv, CursorsInv, NodesInv
<1>4. TasksInv' /\ DiskNotAhead'
  BY <1>1 DEF TasksInv, DiskNotAhead, Down
<1>5. QED  BY <1>2, <1>3, <1>4 DEF PipeInv

\* The tables are read, and the modules to load are listed.
LEMMA OpenKeepsPipe ==
    ASSUME PipeInv, Open
    PROVE  PipeInv'
<1>1. run.cfg # None /\ run.cfg = Wired /\ run.phase = "open"
  BY DEF Open, PipeInv, RunInv, Down
<1>2. CfgOk(run.cfg)
  BY <1>1, CfgOfRun DEF PipeInv, Cfg
<1> DEFINE ps == [i \in DOMAIN Cfg.processors |-> Cfg.processors[i].name]
           ks == IF Debug THEN <<>> ELSE [i \in DOMAIN Cfg.sinks |-> Cfg.sinks[i].name]
           todo == ps \o ks
<1>3. mark' = disk /\ UNCHANGED <<sc, src, node, disk, past>>
  BY DEF Open
<1>4. run' = [run EXCEPT !.phase = "load", !.todo = todo] \/ run' = [run EXCEPT !.phase = "failed"]
  BY DEF Open, Fail
<1>5. IsSeq(todo) /\ NamesOf(run.cfg.processors) \subseteq Range(todo)
  <2>1. IsSeq(ps) /\ NamesOf(run.cfg.processors) = Range(ps)
    <3>1. ps = [i \in DOMAIN Cfg.processors |-> ps[i]]
      OBVIOUS
    <3>2. NamesOf(run.cfg.processors) = Range(ps)
      BY DEF NamesOf, Range, Cfg
    <3> HIDE DEF ps
    <3>3. QED  BY <3>1, <3>2, <1>2, MappedIsSeq DEF CfgOk, Cfg
  <2>2. IsSeq(ks)
    <3> DEFINE names == [i \in DOMAIN Cfg.sinks |-> Cfg.sinks[i].name]
    <3>1. names = [i \in DOMAIN Cfg.sinks |-> names[i]]
      OBVIOUS
    <3>2. ks = <<>> \/ ks = names
      OBVIOUS
    <3> HIDE DEF names, ks
    <3>3. IsSeq(names)
      BY <3>1, <1>2, MappedIsSeq DEF CfgOk, Cfg
    <3>4. IsSeq(<<>>)
      BY DEF IsSeq
    <3>5. QED  BY <3>2, <3>3, <3>4
  <2> HIDE DEF ps, ks
  <2>3. Range(todo) = Range(ps) \cup Range(ks) /\ IsSeq(todo)
    BY <2>1, <2>2, RangeOfBoth
  <2>4. QED  BY <2>1, <2>3
<1> HIDE DEF todo
<1>6. /\ DOMAIN run' = DOMAIN run /\ run'.cfg = run.cfg /\ run'.stop = run.stop
      /\ \/ run'.phase = "failed"
         \/ run'.phase = "load" /\ run'.todo = todo
  BY <1>4 DEF PipeInv, RunInv, RunFields
<1>7. Surrounded' /\ RunInv' /\ Wired' = Wired
  BY <1>1, <1>3, <1>6, RunKept DEF Phases, Down, PipeInv, RunInv
<1>8. CursorsInv' /\ NodesInv'
  BY <1>1, <1>3, <1>6, <1>7 DEF PipeInv, CursorsInv, NodesInv
<1>9. TasksInv'
  BY <1>5, <1>6 DEF TasksInv
<1>10. DiskNotAhead'
  BY <1>3 DEF DiskNotAhead, PipeInv, CursorsInv
<1>11. QED  BY <1>7, <1>8, <1>9, <1>10 DEF PipeInv

\* A module that cannot be loaded ends the run.
LEMMA LoadFailsKeepsPipe ==
    ASSUME PipeInv, LoadFails
    PROVE  PipeInv'
<1>1. run.cfg # None
  BY DEF LoadFails, Loading, PipeInv, RunInv, Down
<1>2. QED  BY <1>1, DownKeepsPipe DEF LoadFails, Fail, Down

\* A task more.
LEMMA InstantiateKeepsPipe ==
    ASSUME PipeInv, Instantiate
    PROVE  PipeInv'
<1>1. run.cfg # None /\ run.cfg = Wired /\ run.phase = "load" /\ run.todo # <<>>
  BY DEF Instantiate, Loading, PipeInv, RunInv, Down
<1>2. CfgOk(run.cfg)
  BY <1>1, CfgOfRun DEF PipeInv, Cfg
<1>3. UNCHANGED <<sc, src, mark, disk, past>>
  BY DEF Instantiate
<1>4. CASE Fail /\ UNCHANGED node
  BY <1>1, <1>3, <1>4, DownKeepsPipe DEF Fail, Down
<1>5. ASSUME NEW ctx, NEW pool, node' = Put(node, Next1, Fresh(Next1, ctx, pool)), run' = [run EXCEPT !.todo = Tail(@)]
      PROVE  PipeInv'
  <2>1. DOMAIN run' = DOMAIN run /\ run'.cfg = run.cfg /\ run'.stop = run.stop /\ run'.phase = "load" /\ run'.todo = Tail(run.todo)
    BY <1>1, <1>5 DEF PipeInv, RunInv, RunFields
  <2>2. Surrounded' /\ RunInv' /\ Wired' = Wired
    BY <1>1, <1>3, <2>1, RunKept DEF Phases, PipeInv, RunInv
  <2>3. NodeOk(Next1, Fresh(Next1, ctx, pool), run.cfg, run.stop)
    BY <1>1, <1>2, FreshOk
  <2>4. /\ DOMAIN node' = DOMAIN node \cup {Next1}
        /\ \A n \in DOMAIN node' : node'[n] = IF n = Next1 THEN Fresh(Next1, ctx, pool) ELSE node[n]
    BY <1>5 DEF Put
  <2>5. NodesInv'
    BY <2>1, <2>3, <2>4 DEF PipeInv, NodesInv
  <2>6. CursorsInv'
    BY <1>3, <2>1, <2>2 DEF PipeInv, CursorsInv
  <2>7. IsSeq(run.todo) /\ NamesOf(run.cfg.processors) \subseteq DOMAIN node \cup Range(run.todo)
    BY <1>1 DEF PipeInv, TasksInv
  <2>8. IsSeq(Tail(run.todo)) /\ Range(run.todo) = {Head(run.todo)} \cup Range(Tail(run.todo))
    BY <1>1, <2>7, HeadAndTail
  <2>9. TasksInv'
    BY <2>1, <2>4, <2>7, <2>8 DEF TasksInv, Next1
  <2>10. DiskNotAhead'
    BY <1>1, <1>3 DEF PipeInv, DiskNotAhead
  <2>11. QED  BY <2>2, <2>5, <2>6, <2>9, <2>10 DEF PipeInv
<1>6. \/ Fail /\ UNCHANGED node
      \/ \E ctx, pool : node' = Put(node, Next1, Fresh(Next1, ctx, pool)) /\ run' = [run EXCEPT !.todo = Tail(@)]
  BY Zenon DEF Instantiate
<1>7. QED  BY <1>4, <1>5, <1>6


\* The graph is wired: every source has a cursor, every node a task.
LEMMA WireKeepsPipe ==
    ASSUME PipeInv, Wire
    PROVE  PipeInv'
<1>1. run.cfg # None /\ run.cfg = Wired /\ run.phase = "load" /\ run.todo = <<>>
  BY DEF Wire, PipeInv, RunInv, Down
<1>2. /\ CfgOk(run.cfg) /\ SourceNames = NamesOf(run.cfg.sources) /\ SinkNames = NamesOf(run.cfg.sinks)
      /\ sc.height \in Nat
  BY <1>1, CfgOfRun DEF PipeInv, Cfg
<1> DEFINE names == SourceNames \cup SinkNames
           new == [n \in names |-> Fresh(n, None, <<>>)]
<1>3. /\ node' = LaidOver(node, new) /\ run' = [run EXCEPT !.phase = "running", !.health = "running"]
      /\ UNCHANGED <<sc, mark, disk>>
  BY DEF Wire
<1>4. /\ DOMAIN src' = SourceNames
      /\ \A s \in SourceNames : DOMAIN src'[s] = {"cur", "loop", "sent"} /\ src'[s].cur \in Nat
  <2>1. PICK answered : src' = [s \in SourceNames |->
                [cur |-> StartCursor(s, [x \in SourceNames |-> Restore(x)][s], answered), loop |-> "poll", sent |-> None]]
    BY Zenon DEF Wire
  <2>2. ASSUME NEW s \in SourceNames  PROVE StartCursor(s, Restore(s), answered) \in Nat
    BY <1>1, <1>2, SourceCfgTyped, RestoreTyped, StartTyped DEF PipeInv, Cfg
  <2>3. \A s \in SourceNames : src'[s] = [cur |-> StartCursor(s, Restore(s), answered), loop |-> "poll", sent |-> None]
    BY <2>1
  <2>4. DOMAIN src' = SourceNames
    BY <2>1
  <2>5. QED  BY <2>2, <2>3, <2>4
<1>5. DOMAIN past' = DOMAIN past
  <2>1. \E began : past' = [past EXCEPT !.began = began]
    BY Zenon DEF Wire
  <2>2. QED  BY <2>1
<1>6. past'.unwound = past.unwound
  <2>1. \E began : past' = [past EXCEPT !.began = began]
    BY Zenon DEF Wire
  <2>2. QED  BY <2>1 DEF PipeInv, RunInv, PastFields
<1>7. DOMAIN run' = DOMAIN run /\ run'.cfg = run.cfg /\ run'.stop = run.stop /\ run'.phase = "running"
  BY <1>3 DEF PipeInv, RunInv, RunFields
<1>8. Surrounded' /\ RunInv' /\ Wired' = Wired
  BY <1>1, <1>3, <1>5, <1>7, RunKept DEF Phases, PipeInv, RunInv
<1>9. /\ DOMAIN node' = DOMAIN node \cup names
      /\ \A n \in DOMAIN node : node'[n] = node[n]
      /\ \A n \in names : n \notin DOMAIN node => node'[n] = Fresh(n, None, <<>>)
  BY <1>3 DEF LaidOver
<1> HIDE DEF names, new
<1>10. NodesInv'
  <2>1. \A n \in names : NodeOk(n, Fresh(n, None, <<>>), run.cfg, run.stop)
    BY <1>1, <1>2, FreshOk
  <2>2. QED  BY <2>1, <1>7, <1>9 DEF PipeInv, NodesInv
<1>11. CursorsInv'
  BY <1>3, <1>7, <1>8 DEF PipeInv, CursorsInv
<1>12. TasksInv'
  <2>1. NamesOf(run.cfg.processors) \subseteq DOMAIN node
    <3>1. Range(run.todo) = {}
      BY <1>1 DEF Range
    <3>2. QED  BY <3>1, <1>1 DEF PipeInv, TasksInv
  <2>2. QED  BY <2>1, <1>2, <1>4, <1>7, <1>9 DEF TasksInv, names
<1>13. DiskNotAhead'
  BY <1>1, <1>3, <1>6 DEF PipeInv, DiskNotAhead
<1>14. QED  BY <1>8, <1>10, <1>11, <1>12, <1>13 DEF PipeInv

-----------------------------------------------------------------------------
(* Every step keeps the invariant: sources, branches and processors.         *)

\* The facts of a process at work.
LEMMA AtWork ==
    ASSUME PipeInv, Active
    PROVE  /\ run.cfg # None /\ run.cfg = Wired /\ Cfg = run.cfg /\ CfgOk(run.cfg)
           /\ SourceNames = NamesOf(run.cfg.sources) /\ ProcessorNames = NamesOf(run.cfg.processors)
           /\ SinkNames = NamesOf(run.cfg.sinks)
           /\ IsSeq(sc.logs) /\ sc.height \in Nat /\ sc.page \in Nat /\ sc.fork \in Nat
           /\ SourceNames \cup ProcessorNames \cup SinkNames \subseteq DOMAIN node
           /\ \A n \in DOMAIN node : NodeOk(n, node[n], run.cfg, run.stop)
           /\ run.phase \in Phases
<1>1. run.cfg # None /\ run.cfg = Wired
  BY DEF Active, PipeInv, RunInv, Down
<1>2. /\ CfgOk(Cfg) /\ Cfg = run.cfg
      /\ SourceNames = NamesOf(Cfg.sources) /\ ProcessorNames = NamesOf(Cfg.processors) /\ SinkNames = NamesOf(Cfg.sinks)
      /\ IsSeq(sc.logs) /\ sc.height \in Nat /\ sc.page \in Nat /\ sc.fork \in Nat
  BY <1>1, CfgOfRun DEF PipeInv, Cfg
<1>3. QED  BY <1>1, <1>2 DEF Active, PipeInv, TasksInv, NodesInv, RunInv

\* A step at work that leaves the two tables alone.
LEMMA WorkKeepsPipe ==
    ASSUME PipeInv, Active, UNCHANGED <<sc, mark, disk>>,
           DOMAIN run' = DOMAIN run, run'.cfg = run.cfg, run'.phase = run.phase,
           DOMAIN past' = DOMAIN past, past'.unwound = past.unwound,
           DOMAIN node' = DOMAIN node, NodesInv',
           DOMAIN src' = DOMAIN src,
           \A s \in SourceNames : {"cur", "loop", "sent"} \subseteq DOMAIN src'[s] /\ src'[s].cur \in Nat
    PROVE  PipeInv'
<1>1. Surrounded' /\ RunInv' /\ Wired' = Wired
  BY AtWork, RunKept DEF PipeInv, RunInv
<1>2. CursorsInv'
  BY <1>1 DEF PipeInv, CursorsInv
<1>3. DiskNotAhead'
  BY DEF PipeInv, DiskNotAhead
<1>4. SourceNames = NamesOf(run.cfg.sources)
  BY AtWork
<1>5. TasksInv'
  BY <1>4 DEF PipeInv, TasksInv, Active
<1>6. QED  BY <1>1, <1>2, <1>3, <1>5 DEF PipeInv

\* A source puts batches in its feed.
LEMMA FeedKeepsNodes ==
    ASSUME PipeInv, Active, ~run.stop, NEW s \in SourceNames, NEW bs, QueueOk(bs, run.cfg),
           node' = [node EXCEPT ![s].out = @ \o bs], run' = run
    PROVE  NodesInv' /\ DOMAIN node' = DOMAIN node
<1>1. /\ CfgOk(run.cfg) /\ s \in NamesOf(run.cfg.sources) /\ s \in DOMAIN node
      /\ \A n \in DOMAIN node : NodeOk(n, node[n], run.cfg, run.stop)
  BY AtWork
<1> DEFINE me == node[s]
           mine == [me EXCEPT !.out = @ \o bs]
<1>2. DOMAIN node' = DOMAIN node /\ node'[s] = mine /\ \A n \in DOMAIN node \ {s} : node'[n] = node[n]
  BY <1>1
<1>3. NodeOk(s, me, run.cfg, run.stop) /\ me.up
  <2>1. NodeOk(s, me, run.cfg, run.stop)
    BY <1>1
  <2>2. QED  BY <2>1, <1>1 DEF NodeOk
<1> HIDE DEF me
<1>4. /\ DOMAIN mine = DOMAIN me /\ mine.out = me.out \o bs /\ mine.inbox = me.inbox /\ mine.live = me.live
      /\ mine.pos = me.pos /\ mine.up = me.up /\ mine.attempt = me.attempt
  BY <1>3 DEF NodeOk, NodeFields
<1> HIDE DEF mine
<1>5. QueueOk(mine.out, run.cfg)
  BY <1>3, <1>4, ConcatQueue DEF NodeOk
<1>6. s \notin NamesOf(run.cfg.sinks)
  BY <1>1 DEF CfgOk
<1>7. BranchesOk(s, mine, run.cfg)
  BY <1>3, <1>4 DEF NodeOk, BranchesOk
<1>8. NodeOk(s, mine, run.cfg, run.stop)
  BY <1>3, <1>4, <1>5, <1>6, <1>7 DEF NodeOk
<1>9. NodesInv'
  <2>1. ASSUME NEW n \in DOMAIN node'  PROVE NodeOk(n, node'[n], run.cfg, run.stop)
    BY <1>1, <1>2, <1>8
  <2>2. QED  BY <2>1 DEF NodesInv
<1>10. QED  BY <1>2, <1>9


\* A round of a source.
LEMMA SourcePageKeepsPipe ==
    ASSUME PipeInv, NEW s \in SourceNames, SourcePage(s)
    PROVE  PipeInv'
<1>1. Active /\ ~run.stop
  BY DEF SourcePage, Polling
<1>2. /\ run.cfg # None /\ Cfg = run.cfg /\ CfgOk(run.cfg) /\ s \in NamesOf(run.cfg.sources)
      /\ SourceNames = NamesOf(run.cfg.sources)
      /\ IsSeq(sc.logs) /\ sc.height \in Nat /\ sc.page \in Nat
      /\ \A x \in SourceNames : x \in DOMAIN src /\ {"cur", "loop", "sent"} \subseteq DOMAIN src[x] /\ src[x].cur \in Nat
  BY <1>1, AtWork DEF PipeInv, TasksInv, Active
<1> DEFINE c == SourceCfg(s)
           cur == src[s].cur
           resp == Asked(c, cur)
           plan == Planned(c, cur, resp)
           bs == Emitted(c, cur, resp, plan)
           loop == IF Ends(c, plan) THEN "done" ELSE "poll"
           sent == IF bs = <<>> THEN src[s].sent ELSE AckBlock(Last(bs))
<1>3. /\ node' = [node EXCEPT ![s].out = @ \o bs]
      /\ src' = [src EXCEPT ![s] = [cur |-> plan.next, loop |-> loop, sent |-> sent]]
      /\ UNCHANGED <<sc, run, mark, disk, past>>
  BY DEF SourcePage
<1>4. SourceTyped(c) /\ c.name = s /\ cur \in Nat
  BY <1>2, SourceCfgTyped DEF Cfg
<1> HIDE DEF cur
<1>5. IsSeq(resp.records) /\ resp.next_block \in Nat /\ resp.archive_height \in Nat
  <2>1. c = SourceCfg(s) /\ resp = ParseResponse(Answer(s, cur), cur, Selection(c.query, c.reorg.enabled))
    BY <1>4 DEF Asked
  <2> HIDE DEF c, resp
  <2>2. QED  BY <1>2, <1>4, <2>1, AskedTyped
<1> HIDE DEF c, resp
<1>6. plan.next \in Nat
  BY <1>4, <1>5, PlannedTyped
<1> HIDE DEF plan
<1>7. Knobs.default_max_records \in Nat
  BY <1>2 DEF Knobs, CfgOk
<1>8. QueueOk(bs, run.cfg)
  BY <1>2, <1>4, <1>5, <1>6, <1>7, EmittedTyped
<1> HIDE DEF bs, loop, sent
<1>9. NodesInv' /\ DOMAIN node' = DOMAIN node
  BY <1>1, <1>3, <1>8, FeedKeepsNodes
<1>10. /\ DOMAIN src' = DOMAIN src
       /\ \A x \in SourceNames : {"cur", "loop", "sent"} \subseteq DOMAIN src'[x] /\ src'[x].cur \in Nat
  BY <1>2, <1>3, <1>6
<1>11. QED  BY <1>1, <1>3, <1>9, <1>10, WorkKeepsPipe

\* A source that is told to stop.
LEMMA SourceStopsKeepsPipe ==
    ASSUME PipeInv, NEW s \in SourceNames, SourceStops(s)
    PROVE  PipeInv'
<1>1. Active /\ src' = [src EXCEPT ![s].loop = "done"] /\ UNCHANGED <<sc, run, node, mark, disk, past>>
  BY DEF SourceStops
<1>2. \A x \in SourceNames : x \in DOMAIN src /\ {"cur", "loop", "sent"} \subseteq DOMAIN src[x] /\ src[x].cur \in Nat
  BY <1>1, AtWork DEF PipeInv, TasksInv, Active
<1>3. /\ DOMAIN src' = DOMAIN src
      /\ \A x \in SourceNames : {"cur", "loop", "sent"} \subseteq DOMAIN src'[x] /\ src'[x].cur \in Nat
  BY <1>1, <1>2
<1>4. NodesInv'
  BY <1>1 DEF PipeInv, NodesInv
<1>5. QED  BY <1>1, <1>3, <1>4, WorkKeepsPipe

\* A source that finds a fork sends a rollback and goes back.
LEMMA ReorgNoticedKeepsPipe ==
    ASSUME PipeInv, NEW s \in SourceNames, ReorgNoticed(s)
    PROVE  PipeInv'
<1> DEFINE b == ControlBatch(s, ChainOf(s), Rollback(ChainOf(s), sc.fork))
           to == Max({sc.fork + 1, DefaultStart(s)})
           sent == IF src[s].sent = None THEN None ELSE Min({src[s].sent, sc.fork + 1})
<1>1. Active /\ ~run.stop /\ UNCHANGED <<sc, run, mark, disk>>
  BY DEF ReorgNoticed, Polling
<1>2. /\ node' = [node EXCEPT ![s].out = Append(@, b)]
      /\ src' = [src EXCEPT ![s].cur = to, ![s].sent = sent]
      /\ past' = [past EXCEPT !.flipped = @ \cup {s}]
  BY DEF ReorgNoticed
<1>3. /\ run.cfg # None /\ CfgOk(Cfg) /\ Cfg = run.cfg /\ SourceNames = NamesOf(run.cfg.sources)
      /\ sc.fork \in Nat /\ s \in DOMAIN node /\ NodeOk(s, node[s], run.cfg, run.stop)
      /\ \A x \in SourceNames : x \in DOMAIN src /\ {"cur", "loop", "sent"} \subseteq DOMAIN src[x] /\ src[x].cur \in Nat
  BY <1>1, AtWork DEF PipeInv, TasksInv, Active
<1>4. BatchOk(b, run.cfg)
  BY <1>3, ControlOk DEF Rollback
<1>5. to \in Nat
  <2>1. DefaultStart(s) \in Nat /\ sc.fork + 1 \in Nat
    BY <1>3, SourceCfgTyped
  <2>2. QED  BY <2>1, OfTwo
<1> HIDE DEF b, to, sent
<1>6. node' = [node EXCEPT ![s].out = @ \o <<b>>] /\ QueueOk(<<b>>, run.cfg)
  <2>1. Append(node[s].out, b) = node[s].out \o <<b>>
    BY <1>3 DEF NodeOk, QueueOk, IsSeq
  <2>2. [node EXCEPT ![s].out = Append(@, b)] = [node EXCEPT ![s].out = @ \o <<b>>]
    BY <2>1, Zenon
  <2>3. QED  BY <2>2, <1>2, <1>4, SingleQueue
<1>7. NodesInv' /\ DOMAIN node' = DOMAIN node
  BY <1>1, <1>6, FeedKeepsNodes
<1>8. DOMAIN past' = DOMAIN past /\ past'.unwound = past.unwound
  BY <1>2 DEF PipeInv, RunInv, PastFields
<1>9. /\ DOMAIN src' = DOMAIN src
      /\ \A x \in SourceNames : {"cur", "loop", "sent"} \subseteq DOMAIN src'[x] /\ src'[x].cur \in Nat
  BY <1>2, <1>3, <1>5
<1>10. QED  BY <1>1, <1>7, <1>8, <1>9, WorkKeepsPipe


\* One branch fewer.
LEMMA WithoutOne ==
    ASSUME NEW live, IsSeq(live), NEW pos \in 1 .. Len(live)
    PROVE  IsSeq(Without(live, pos)) /\ Range(Without(live, pos)) \subseteq Range(live)
<1>1. live \in Seq(Range(live)) /\ Len(live) \in Nat
  BY DEF IsSeq
<1> DEFINE a == SubSeq(live, 1, pos - 1)
           b == SubSeq(live, pos + 1, Len(live))
<1>2. a \in Seq(Range(live)) /\ b \in Seq(Range(live))
  BY <1>1
<1> HIDE DEF a, b
<1>3. a \o b \in Seq(Range(live))
  BY <1>2
<1>4. Without(live, pos) = a \o b
  BY DEF Without, a, b
<1>5. QED  BY <1>3, <1>4, SeqIsSeq

\* The branches a fan-out has left after one send, its next one, and its task.
LiveAfter(me, gone) == IF gone THEN Without(me.live, me.pos) ELSE me.live
PosAfter(me, gone) == IF gone THEN me.pos ELSE me.pos + 1
LastAfter(me, gone) == PosAfter(me, gone) > Len(LiveAfter(me, gone))
SentBy(me, gone) ==
    [me EXCEPT !.live = LiveAfter(me, gone), !.pos = IF LastAfter(me, gone) THEN 1 ELSE PosAfter(me, gone),
               !.out = IF LiveAfter(me, gone) = <<>> THEN <<>> ELSE IF LastAfter(me, gone) THEN Tail(@) ELSE @,
               !.inbox = IF LiveAfter(me, gone) = <<>> THEN <<>> ELSE @,
               !.up = LiveAfter(me, gone) # <<>>]

\* A node that works on a batch sends it to somebody else.
LEMMA BranchesElsewhere ==
    ASSUME NEW n, NEW me, NEW cfg, NEW stop, NodeOk(n, me, cfg, stop), me.up,
           n \in NamesOf(cfg.sources) \cup NamesOf(cfg.processors)
    PROVE  me.live[me.pos] # n
<1>1. /\ IsSeq(me.live) /\ n \notin Range(me.live) /\ me.live # <<>>
      /\ me.pos = 1 \/ me.pos \in 1 .. Len(me.live)
  BY DEF NodeOk, BranchesOk
<1>2. me.live \in Seq(Range(me.live))
  BY <1>1 DEF IsSeq
<1>3. Len(me.live) \in Nat /\ Len(me.live) # 0 /\ DOMAIN me.live = 1 .. Len(me.live)
  BY <1>1, <1>2
<1>4. me.pos \in DOMAIN me.live
  BY <1>1, <1>3
<1>5. QED  BY <1>1, <1>4 DEF Range

\* The sender of a batch after one send.
LEMMA SenderOk ==
    ASSUME NEW n, NEW me, NEW cfg, NEW stop, NodeOk(n, me, cfg, stop), CfgOk(cfg), me.up, me.out # <<>>,
           n \in NamesOf(cfg.sources) \cup NamesOf(cfg.processors), NEW gone \in BOOLEAN,
           NEW stopped, stop \/ (LiveAfter(me, gone) = <<>> /\ n \in NamesOf(cfg.sources)) => stopped
    PROVE  NodeOk(n, SentBy(me, gone), cfg, stopped)
<1> DEFINE live == LiveAfter(me, gone)
           pos == PosAfter(me, gone)
           last == LastAfter(me, gone)
           mine == SentBy(me, gone)
<1>1. /\ NodeFields \subseteq DOMAIN me /\ QueueOk(me.inbox, cfg) /\ QueueOk(me.out, cfg)
      /\ IsSeq(me.live) /\ n \notin Range(me.live) /\ me.live # <<>>
      /\ me.pos = 1 \/ me.pos \in 1 .. Len(me.live)
      /\ me.attempt \in 0 .. MaxAttempts /\ me.attempt < MaxAttempts
      /\ Len(me.inbox) <= ChannelCapacity(cfg) /\ ChannelCapacity(cfg) \in Nat
      /\ n \notin NamesOf(cfg.sinks)
  BY DEF NodeOk, BranchesOk, CfgOk
<1>2. Len(me.live) \in Nat /\ me.pos \in 1 .. Len(me.live) /\ DOMAIN me.live = 1 .. Len(me.live)
  <2>1. me.live \in Seq(Range(me.live))
    BY <1>1 DEF IsSeq
  <2>2. Len(me.live) \in Nat /\ Len(me.live) # 0 /\ DOMAIN me.live = 1 .. Len(me.live)
    BY <2>1, <1>1
  <2>3. QED  BY <2>2, <1>1
<1>4. IsSeq(live) /\ n \notin Range(live) /\ Len(live) \in Nat
  <2>1. IsSeq(live) /\ Range(live) \subseteq Range(me.live)
    BY <1>1, <1>2, WithoutOne DEF LiveAfter
  <2>2. QED  BY <2>1, <1>1 DEF IsSeq
<1>5. (IF last THEN 1 ELSE pos) = 1 \/ (IF last THEN 1 ELSE pos) \in 1 .. Len(live)
  <2>1. pos \in Nat /\ pos >= 1
    BY <1>2 DEF PosAfter
  <2>2. CASE last
    BY <2>2
  <2>3. CASE ~last
    <3>1. ~(pos > Len(live))
      BY <2>3 DEF LastAfter
    <3>2. pos \in 1 .. Len(live)
      BY <3>1, <2>1, <1>4
    <3>3. QED  BY <3>2, <2>3
  <2>4. QED  BY <2>2, <2>3
<1> DEFINE out == IF live = <<>> THEN <<>> ELSE IF last THEN Tail(me.out) ELSE me.out
           inbox == IF live = <<>> THEN <<>> ELSE me.inbox
<1>6. QueueOk(out, cfg) /\ QueueOk(inbox, cfg)
  BY <1>1, EmptyQueue, TailQueue
<1>7. Len(inbox) <= ChannelCapacity(cfg)
  BY <1>1
<1>8. live = <<>> => out = <<>> /\ inbox = <<>>
  OBVIOUS
<1> DEFINE at == IF last THEN 1 ELSE pos
           left == live # <<>>
<1>9. /\ DOMAIN mine = DOMAIN me /\ mine.live = live /\ mine.pos = at /\ mine.out = out /\ mine.inbox = inbox
      /\ mine.up = left /\ mine.attempt = me.attempt
  <2>1. mine = [me EXCEPT !.live = live, !.pos = at, !.out = out, !.inbox = inbox, !.up = left]
    BY Zenon DEF SentBy
  <2> HIDE DEF at, out, inbox, left, mine, live
  <2>2. QED  BY <2>1, <1>1 DEF NodeFields
<1> HIDE DEF out, inbox, mine
<1>10. BranchesOk(n, mine, cfg)
  BY <1>4, <1>5, <1>9 DEF BranchesOk
<1>11. QED  BY <1>1, <1>6, <1>7, <1>8, <1>9, <1>10 DEF NodeOk, mine

\* The receiver of a batch.
LEMMA ReceiverOk ==
    ASSUME NEW n, NEW me, NEW cfg, NEW stop, NodeOk(n, me, cfg, stop), me.up,
           NEW b, BatchOk(b, cfg), Len(me.inbox) < ChannelCapacity(cfg), ChannelCapacity(cfg) \in Nat,
           NEW mine, mine = [me EXCEPT !.inbox = Append(@, b)]
    PROVE  NodeOk(n, mine, cfg, stop)
<1>1. NodeFields \subseteq DOMAIN me /\ QueueOk(me.inbox, cfg)
  BY DEF NodeOk
<1>2. QueueOk(Append(me.inbox, b), cfg) /\ Len(Append(me.inbox, b)) = Len(me.inbox) + 1 /\ Len(me.inbox) \in Nat
  BY <1>1, AppendQueue DEF QueueOk, IsSeq
<1>3. /\ DOMAIN mine = DOMAIN me /\ mine.inbox = Append(me.inbox, b) /\ mine.out = me.out /\ mine.live = me.live
      /\ mine.pos = me.pos /\ mine.up = me.up /\ mine.attempt = me.attempt
  BY <1>1 DEF NodeFields
<1>4. BranchesOk(n, mine, cfg)
  BY <1>3 DEF NodeOk, BranchesOk
<1>5. Len(mine.inbox) <= ChannelCapacity(cfg)
  BY <1>2, <1>3
<1>6. QED  BY <1>2, <1>3, <1>4, <1>5 DEF NodeOk


\* A node that is passed over.
LEMMA PassedOverOk ==
    ASSUME NEW n, NEW me, NEW cfg, NEW stop, NodeOk(n, me, cfg, stop), NEW mine, mine = [me EXCEPT !.inbox = @]
    PROVE  NodeOk(n, mine, cfg, stop)
<1>1. /\ DOMAIN mine = DOMAIN me /\ mine.inbox = me.inbox /\ mine.out = me.out /\ mine.live = me.live
      /\ mine.pos = me.pos /\ mine.up = me.up /\ mine.attempt = me.attempt
  BY DEF NodeOk, NodeFields
<1>2. BranchesOk(n, mine, cfg)
  BY <1>1 DEF NodeOk, BranchesOk
<1>3. QED  BY <1>1, <1>2 DEF NodeOk

\* One send of a fan-out.
LEMMA FanSendKeepsPipe ==
    ASSUME PipeInv, NEW n \in SourceNames \cup ProcessorNames, FanSend(n)
    PROVE  PipeInv'
<1> DEFINE me == node[n]
           to == me.live[me.pos]
           gone == ~node[to].up
           live == LiveAfter(me, gone)
           mine == SentBy(me, gone)
           stop == run.stop \/ (live = <<>> /\ n \in SourceNames)
<1>1. /\ Active /\ me.up /\ me.out # <<>>
      /\ gone \/ Len(node[to].inbox) < Knobs.channel_capacity
      /\ node' = [node EXCEPT ![n] = mine, ![to].inbox = IF gone THEN @ ELSE Append(@, Head(me.out))]
      /\ run' = [run EXCEPT !.stop = stop]
      /\ UNCHANGED <<sc, src, mark, disk, past>>
  BY Zenon DEF FanSend, LiveAfter, PosAfter, LastAfter, SentBy
<1>2. /\ run.cfg # None /\ Cfg = run.cfg /\ CfgOk(run.cfg) /\ n \in DOMAIN node
      /\ SourceNames = NamesOf(run.cfg.sources) /\ ProcessorNames = NamesOf(run.cfg.processors)
      /\ \A m \in DOMAIN node : NodeOk(m, node[m], run.cfg, run.stop)
  BY <1>1, AtWork
<1>3. DOMAIN run' = DOMAIN run /\ run'.cfg = run.cfg /\ run'.phase = run.phase /\ run'.stop = stop
  <2> HIDE DEF stop
  <2>1. QED  BY <1>1 DEF PipeInv, RunInv, RunFields
<1>4. NodeOk(n, mine, run.cfg, stop) /\ to # n
  <2>1. NodeOk(n, me, run.cfg, run.stop) /\ n \in NamesOf(run.cfg.sources) \cup NamesOf(run.cfg.processors)
    BY <1>2
  <2>2. gone \in BOOLEAN /\ me.up /\ me.out # <<>>
    BY <1>1
  <2>3. run.stop \/ (live = <<>> /\ n \in NamesOf(run.cfg.sources)) => stop
    BY <1>2
  <2>4. CfgOk(run.cfg)
    BY <1>2
  <2> HIDE DEF mine, stop, me, gone
  <2>5. \A t : (run.stop \/ (live = <<>> /\ n \in NamesOf(run.cfg.sources)) => t) => NodeOk(n, mine, run.cfg, t)
    <3> DEFINE cfg == run.cfg
               old == run.stop
    <3>1. NodeOk(n, me, cfg, old) /\ CfgOk(cfg) /\ n \in NamesOf(cfg.sources) \cup NamesOf(cfg.processors)
      BY <2>1, <2>4
    <3> HIDE DEF cfg, old
    <3>2. \A t : (old \/ (live = <<>> /\ n \in NamesOf(cfg.sources)) => t) => NodeOk(n, mine, cfg, t)
      BY <3>1, <2>2, SenderOk DEF mine
    <3>3. QED  BY <3>2 DEF cfg, old
  <2>6. me.live[me.pos] # n
    BY <2>1, <2>2, <1>2, BranchesElsewhere
  <2> HIDE DEF live
  <2>7. QED  BY <2>3, <2>5, <2>6
<1>5. BatchOk(Head(me.out), run.cfg)
  BY <1>1, <1>2, TailQueue DEF NodeOk
<1> DEFINE b == Head(me.out)
           theirs == [node[to] EXCEPT !.inbox = Append(@, b)]
<1>6. /\ DOMAIN node' = DOMAIN node /\ node'[n] = mine
      /\ \A m \in DOMAIN node \ {n, to} : node'[m] = node[m]
  <2> HIDE DEF mine, to, me, gone
  <2>1. QED  BY <1>1, <1>2, <1>4
<1>7. to \in DOMAIN node => \/ gone /\ node'[to] = [node[to] EXCEPT !.inbox = @]
                            \/ ~gone /\ node'[to] = theirs
  <2> HIDE DEF mine, to, me, b
  <2>1. ASSUME to \in DOMAIN node PROVE node'[to] = [node[to] EXCEPT !.inbox = IF gone THEN @ ELSE Append(@, b)]
    <3> HIDE DEF gone
    <3>1. QED  BY <1>1, <1>4, <2>1 DEF b
  <2>2. CASE gone
    BY <2>1, <2>2
  <2>3. CASE ~gone
    BY <2>1, <2>3
  <2>4. QED  BY <2>2, <2>3
<1>8. ASSUME to \in DOMAIN node PROVE NodeOk(to, node'[to], run.cfg, stop)
  <2>0. run.stop => stop
    OBVIOUS
  <2>1. NodeOk(to, node[to], run.cfg, run.stop) /\ ChannelCapacity(run.cfg) \in Nat
    BY <1>2, <1>8 DEF CfgOk
  <2>2. CASE node'[to] = [node[to] EXCEPT !.inbox = @]
    <3> HIDE DEF to
    <3>1. NodeOk(to, node'[to], run.cfg, run.stop)
      BY <2>1, <2>2, PassedOverOk
    <3> HIDE DEF stop
    <3>2. QED  BY <3>1, <2>0, StopKeepsNode
  <2>3. CASE ~gone /\ node'[to] = theirs
    <3>1. Len(node[to].inbox) < ChannelCapacity(run.cfg)
      BY <1>1, <1>2, <2>3 DEF Knobs, ChannelCapacity
    <3>2. NodeOk(to, theirs, run.cfg, run.stop)
      <4> HIDE DEF to, b
      <4>1. node[to].up /\ BatchOk(b, run.cfg)
        BY <2>3, <1>5 DEF b
      <4>2. QED  BY <2>1, <3>1, <4>1, ReceiverOk
    <3> HIDE DEF theirs, stop
    <3>3. QED  BY <3>2, <2>0, <2>3, StopKeepsNode
  <2>4. QED  BY <1>7, <1>8, <2>2, <2>3
<1>9. NodesInv'
  <2>1. run.stop => stop
    OBVIOUS
  <2> HIDE DEF mine, to, me, stop, gone
  <2>2. ASSUME NEW m \in DOMAIN node'  PROVE NodeOk(m, node'[m], run.cfg, stop)
    <3>1. CASE m = n
      BY <3>1, <1>4, <1>6
    <3>2. CASE m = to
      BY <3>2, <1>6, <1>8
    <3>3. CASE m \notin {n, to}
      BY <3>3, <1>2, <1>6, <2>1, StopKeepsNode
    <3>4. QED  BY <3>1, <3>2, <3>3
  <2>3. QED  BY <2>2, <1>3 DEF NodesInv
<1>10. \A s \in SourceNames : {"cur", "loop", "sent"} \subseteq DOMAIN src'[s] /\ src'[s].cur \in Nat
  BY <1>1, <1>2 DEF PipeInv, TasksInv, Active
<1>11. QED  BY <1>1, <1>3, <1>6, <1>9, <1>10, WorkKeepsPipe


\* A batch through a processor: what the step changes.
ProcessOk(p) ==
    LET r == CallProcess(node[p].ctx, Instance(node[p].pool), Head(node[p].inbox)) IN
    r.res = "ok" /\ \A i \in DOMAIN r.out : Decodes(r.out[i])
ProcessSends(p) ==
    IF ProcessOk(p) THEN Sends(node[p].ctx, Instance(node[p].pool), Head(node[p].inbox)) ELSE <<>>

\* A step of a processor, spelled out.
LEMMA ProcessDoes ==
    ASSUME NEW p, Process(p)
    PROVE  /\ Active /\ node[p].up /\ node[p].inbox # <<>> /\ node[p].out = <<>>
           /\ \E pool : node' = [node EXCEPT ![p].inbox = Tail(@), ![p].out = ProcessSends(p), ![p].pool = pool]
           /\ past' = IF ProcessOk(p) THEN past
                      ELSE [past EXCEPT !.skipped = @ \cup ({p} \X (IdsOf(Head(node[p].inbox).records) \cup {None}))]
           /\ UNCHANGED <<sc, run, src, mark, disk>>
<1> DEFINE b == Head(node[p].inbox)
           r == CallProcess(node[p].ctx, Instance(node[p].pool), b)
           ok(x) == x.res = "ok" /\ \A i \in DOMAIN x.out : Decodes(x.out[i])
           sent(x) == IF ok(x) THEN Forward(b, [i \in DOMAIN x.out |-> x.out[i].batch]) ELSE <<>>
<1>1. PICK x \in {r} :
         /\ node' = [node EXCEPT ![p].inbox = Tail(@), ![p].out = sent(x),
                                 ![p].pool = IF x.res = "trap" THEN Others(@) ELSE Append(Others(@), x.inst)]
         /\ past' = IF ok(x) THEN past ELSE [past EXCEPT !.skipped = @ \cup ({p} \X (IdsOf(b.records) \cup {None}))]
  BY Zenon DEF Process
<1>2. x = r
  BY Zenon
<1>3. ok(r) = ProcessOk(p) /\ sent(r) = ProcessSends(p)
  BY Zenon DEF ProcessOk, ProcessSends, Sends
<1> HIDE DEF r, ok, sent
<1>4. \E pool : node' = [node EXCEPT ![p].inbox = Tail(@), ![p].out = ProcessSends(p), ![p].pool = pool]
  BY <1>1, <1>2, <1>3, Zenon
<1>5. past' = IF ProcessOk(p) THEN past ELSE [past EXCEPT !.skipped = @ \cup ({p} \X (IdsOf(b.records) \cup {None}))]
  BY <1>1, <1>2, <1>3, Zenon
<1>6. Active /\ node[p].up /\ node[p].inbox # <<>> /\ node[p].out = <<>> /\ UNCHANGED <<sc, run, src, mark, disk>>
  BY Zenon DEF Process
<1>7. QED  BY <1>4, <1>5, <1>6

\* It leaves good queues.
LEMMA ProcessKeepsPipe ==
    ASSUME PipeInv, NEW p \in ProcessorNames, Process(p)
    PROVE  PipeInv'
<1> DEFINE me == node[p]
           b == Head(me.inbox)
           sent == ProcessSends(p)
<1>1. Active /\ me.up /\ me.inbox # <<>> /\ UNCHANGED <<sc, run, src, mark, disk>>
  BY ProcessDoes
<1>2. PICK pool : node' = [node EXCEPT ![p].inbox = Tail(@), ![p].out = sent, ![p].pool = pool]
  BY ProcessDoes
<1>3. past' = past \/ \E S : past' = [past EXCEPT !.skipped = S]
  BY Zenon, ProcessDoes
<1>4. /\ CfgOk(run.cfg) /\ p \in DOMAIN node /\ p \in NamesOf(run.cfg.processors)
      /\ \A m \in DOMAIN node : NodeOk(m, node[m], run.cfg, run.stop)
  BY <1>1, AtWork
<1>5. NodeOk(p, me, run.cfg, run.stop) /\ p \notin NamesOf(run.cfg.sinks)
  BY <1>4 DEF CfgOk
<1>6. /\ QueueOk(Tail(me.inbox), run.cfg) /\ BatchOk(b, run.cfg)
      /\ Len(Tail(me.inbox)) = Len(me.inbox) - 1 /\ Len(me.inbox) \in Nat
  BY <1>1, <1>5, TailQueue DEF NodeOk
<1>7. QueueOk(sent, run.cfg)
  <2>1. CASE ProcessOk(p)
    <3>1. CallProcess(me.ctx, Instance(me.pool), b).res = "ok"
      BY <2>1, Zenon DEF ProcessOk
    <3>2. QueueOk(Sends(me.ctx, Instance(me.pool), b), run.cfg)
      BY <1>6, <3>1, ForwardedOk
    <3>3. QED  BY <2>1, <3>2 DEF ProcessSends
  <2>2. CASE ~ProcessOk(p)
    BY <2>2, EmptyQueue DEF ProcessSends
  <2>3. QED  BY <2>1, <2>2
<1> HIDE DEF sent, b
<1> DEFINE mine == [me EXCEPT !.inbox = Tail(@), !.out = sent, !.pool = pool]
<1>8. /\ DOMAIN node' = DOMAIN node /\ node'[p] = mine
      /\ \A m \in DOMAIN node \ {p} : node'[m] = node[m]
  BY <1>2, <1>4
<1> HIDE DEF me
<1>9. /\ DOMAIN mine = DOMAIN me /\ mine.inbox = Tail(me.inbox) /\ mine.out = sent /\ mine.live = me.live
      /\ mine.pos = me.pos /\ mine.up = me.up /\ mine.attempt = me.attempt
  BY <1>5 DEF NodeOk, NodeFields
<1> HIDE DEF mine
<1>10. BranchesOk(p, mine, run.cfg)
  BY <1>5, <1>9 DEF NodeOk, BranchesOk
<1>11. Len(mine.inbox) <= ChannelCapacity(run.cfg)
  BY <1>4, <1>5, <1>6, <1>9 DEF NodeOk, CfgOk
<1>12. NodeOk(p, mine, run.cfg, run.stop)
  BY <1>1, <1>5, <1>6, <1>7, <1>9, <1>10, <1>11 DEF NodeOk
<1>13. NodesInv'
  <2>1. ASSUME NEW m \in DOMAIN node'  PROVE NodeOk(m, node'[m], run.cfg, run.stop)
    BY <1>4, <1>8, <1>12
  <2>2. QED  BY <2>1, <1>1 DEF NodesInv
<1>14. DOMAIN past' = DOMAIN past /\ past'.unwound = past.unwound
  BY <1>3 DEF PipeInv, RunInv, PastFields
<1>15. \A s \in SourceNames : {"cur", "loop", "sent"} \subseteq DOMAIN src'[s] /\ src'[s].cur \in Nat
  BY <1>1, AtWork DEF PipeInv, TasksInv, Active
<1>16. QED  BY <1>1, <1>8, <1>13, <1>14, <1>15, WorkKeepsPipe

-----------------------------------------------------------------------------
(* Every step keeps the invariant: sinks, checkpoints and the end of a run.  *)

\* A sink after an attempt.
LEMMA SinkNodeOk ==
    ASSUME NEW n, NEW me, NEW cfg, NEW stop, NodeOk(n, me, cfg, stop), me.up, me.inbox # <<>>,
           CfgOk(cfg), n \in NamesOf(cfg.sinks), NEW pool, NEW up \in BOOLEAN, NEW failed \in BOOLEAN,
           failed /\ up => me.attempt + 1 < MaxAttempts,
           NEW mine,
           mine = [me EXCEPT !.pool = pool, !.up = up, !.attempt = IF failed THEN @ + 1 ELSE 0,
                             !.inbox = IF up THEN IF failed THEN @ ELSE Tail(@) ELSE <<>>]
    PROVE  NodeOk(n, mine, cfg, stop)
<1>1. /\ NodeFields \subseteq DOMAIN me /\ QueueOk(me.inbox, cfg) /\ QueueOk(me.out, cfg)
      /\ me.attempt \in 0 .. MaxAttempts /\ me.attempt < MaxAttempts /\ me.out = <<>>
      /\ Len(me.inbox) <= ChannelCapacity(cfg) /\ ChannelCapacity(cfg) \in Nat
      /\ n \notin NamesOf(cfg.sources) \cup NamesOf(cfg.processors)
  BY DEF NodeOk, CfgOk
<1> DEFINE inbox == IF up THEN IF failed THEN me.inbox ELSE Tail(me.inbox) ELSE <<>>
           attempt == IF failed THEN me.attempt + 1 ELSE 0
<1>2. /\ DOMAIN mine = DOMAIN me /\ mine.inbox = inbox /\ mine.attempt = attempt /\ mine.up = up
      /\ mine.out = me.out /\ mine.live = me.live /\ mine.pos = me.pos
  <2>1. mine = [me EXCEPT !.pool = pool, !.up = up, !.attempt = attempt, !.inbox = inbox]
    BY Zenon
  <2> HIDE DEF inbox, attempt
  <2>2. QED  BY <2>1, <1>1 DEF NodeFields
<1>3. QueueOk(inbox, cfg) /\ Len(inbox) <= ChannelCapacity(cfg)
  <2>1. QueueOk(Tail(me.inbox), cfg) /\ Len(Tail(me.inbox)) = Len(me.inbox) - 1 /\ Len(me.inbox) \in Nat
    BY <1>1, TailQueue
  <2>2. CASE up /\ failed
    BY <2>2, <1>1
  <2>3. CASE up /\ ~failed
    BY <2>3, <2>1, <1>1
  <2>4. CASE ~up
    <3>1. inbox = <<>> /\ Len(<<>>) = 0
      BY <2>4
    <3> HIDE DEF inbox
    <3>2. QED  BY <3>1, <1>1, EmptyQueue
  <2>5. QED  BY <2>2, <2>3, <2>4
<1>4. attempt \in 0 .. MaxAttempts /\ (up => attempt < MaxAttempts)
  BY <1>1, AttemptsAssumption
<1>5. ~up => inbox = <<>>
  OBVIOUS
<1> HIDE DEF inbox, attempt
<1>6. BranchesOk(n, mine, cfg)
  BY <1>1, <1>2 DEF NodeOk, BranchesOk
<1>7. QED  BY <1>1, <1>2, <1>3, <1>4, <1>5, <1>6 DEF NodeOk


\* An ack never lowers a watermark.
LEMMA AckedOk ==
    ASSUME NEW pair, NEW b, AckBlock(b) \in Nat, \A x \in DOMAIN mark : mark[x] \in Nat
    PROVE  \E v \in Nat : /\ Acked(pair, b) = Put(mark, pair, v) /\ AckBlock(b) <= v
                          /\ pair \in DOMAIN mark => mark[pair] <= v
<1> DEFINE old == Or(Get(mark, pair), 0)
<1>1. old \in Nat /\ (pair \in DOMAIN mark => old = mark[pair])
  BY NoneAssumption DEF Or, Get
<1> HIDE DEF old
<1>2. Max({AckBlock(b), old}) \in Nat /\ old <= Max({AckBlock(b), old}) /\ AckBlock(b) <= Max({AckBlock(b), old})
  <2> DEFINE acked == AckBlock(b)
  <2>1. acked \in Nat
    OBVIOUS
  <2> HIDE DEF acked
  <2>2. Max({acked, old}) \in Nat /\ old <= Max({acked, old}) /\ acked <= Max({acked, old})
    BY <1>1, <2>1, OfTwo
  <2>3. QED  BY <2>2 DEF acked
<1>3. Acked(pair, b) = Put(mark, pair, Max({AckBlock(b), old}))
  BY Zenon DEF Acked, old
<1>4. QED  BY <1>1, <1>2, <1>3

\* A rewind lowers a watermark to the block, or sets it there.
LEMMA RewoundOk ==
    ASSUME NEW pair, NEW to \in Nat, \A x \in DOMAIN mark : mark[x] \in Nat
    PROVE  \E v \in Nat : /\ Rewound(pair, to) = Put(mark, pair, v)
                          /\ pair \in DOMAIN mark => v = IF mark[pair] <= to THEN mark[pair] ELSE to
<1> DEFINE old == Or(Get(mark, pair), to)
<1>1. old \in Nat /\ (pair \in DOMAIN mark => old = mark[pair])
  BY NoneAssumption DEF Or, Get
<1> HIDE DEF old
<1>2. Min({old, to}) \in Nat /\ Min({old, to}) = IF old <= to THEN old ELSE to
  BY <1>1, OfTwo
<1>3. Rewound(pair, to) = Put(mark, pair, Min({old, to}))
  BY Zenon DEF Rewound, old
<1>4. QED  BY <1>1, <1>2, <1>3

\* The same of a row of the file.
LEMMA LoweredOk ==
    ASSUME NEW t, NEW pair, NEW to \in Nat, \A x \in DOMAIN t : t[x] \in Nat
    PROVE  /\ DOMAIN Lowered(t, pair, to) = DOMAIN t
           /\ \A x \in DOMAIN t : Lowered(t, pair, to)[x] = IF x = pair /\ to < t[x] THEN to ELSE t[x]
<1>1. CASE pair \in DOMAIN t
  <2>1. Min({t[pair], to}) = IF t[pair] <= to THEN t[pair] ELSE to
    <3> DEFINE a == t[pair]
    <3>1. a \in Int
      BY <1>1
    <3> HIDE DEF a
    <3>2. Min({a, to}) = IF a <= to THEN a ELSE to
      BY <3>1, OfTwo
    <3>3. QED  BY <3>2 DEF a
  <2>2. Lowered(t, pair, to) = [t EXCEPT ![pair] = Min({t[pair], to})]
    BY <1>1 DEF Lowered
  <2>3. QED  BY <1>1, <2>1, <2>2
<1>2. CASE pair \notin DOMAIN t
  BY <1>2 DEF Lowered
<1>3. QED  BY <1>1, <1>2

\* A table of blocks, and a file that is not ahead of it.
Blocks(t) == \A x \in DOMAIN t : t[x] \in Nat
Behind(t, d, U) == \A x \in DOMAIN d \ U : x \in DOMAIN t /\ d[x] <= t[x]

\* How an attempt moves the two tables: not at all, by an ack, by a rewind.
Moved(t, d, t1, d1, U1, pair) ==
    \/ t1 = t /\ d1 = d
    \/ \E v \in Nat : t1 = Put(t, pair, v) /\ (pair \in DOMAIN t => t[pair] <= v) /\ d1 = d
    \/ \E v \in Nat, to \in Nat :
          /\ t1 = Put(t, pair, v) /\ (pair \in DOMAIN t => v = IF t[pair] <= to THEN t[pair] ELSE to)
          /\ (pair \in U1 /\ d1 = d) \/ d1 = Lowered(d, pair, to)

\* The two tables after an attempt: an ack raises the watermark alone, a
\* rewind lowers both cursors or leaves its pair to the next checkpoint.
LEMMA WrittenTables ==
    ASSUME NEW t, NEW d, NEW t1, NEW d1, NEW U, NEW U1, NEW pair,
           Blocks(t), Blocks(d), Behind(t, d, U), U \subseteq U1, Moved(t, d, t1, d1, U1, pair)
    PROVE  /\ DOMAIN t1 \subseteq DOMAIN t \cup {pair} /\ DOMAIN d1 = DOMAIN d
           /\ Blocks(t1) /\ Blocks(d1) /\ Behind(t1, d1, U1)
<1> USE DEF Blocks, Behind
<1>1. CASE t1 = t /\ d1 = d
  BY <1>1
<1>2. ASSUME NEW v \in Nat, t1 = Put(t, pair, v), pair \in DOMAIN t => t[pair] <= v, d1 = d
      PROVE  /\ DOMAIN t1 \subseteq DOMAIN t \cup {pair} /\ DOMAIN d1 = DOMAIN d
             /\ Blocks(t1) /\ Blocks(d1) /\ Behind(t1, d1, U1)
  <2>1. /\ DOMAIN t1 = DOMAIN t \cup {pair} /\ t1[pair] = v
        /\ \A x \in DOMAIN t \ {pair} : t1[x] = t[x]
    BY <1>2 DEF Put
  <2>2. ASSUME NEW x \in DOMAIN d \ U1  PROVE x \in DOMAIN t1 /\ d[x] <= t1[x]
    BY <1>2, <2>1
  <2>3. QED  BY <1>2, <2>1, <2>2
<1>3. ASSUME NEW v \in Nat, NEW to \in Nat, t1 = Put(t, pair, v),
             pair \in DOMAIN t => v = IF t[pair] <= to THEN t[pair] ELSE to,
             (pair \in U1 /\ d1 = d) \/ d1 = Lowered(d, pair, to)
      PROVE  /\ DOMAIN t1 \subseteq DOMAIN t \cup {pair} /\ DOMAIN d1 = DOMAIN d
             /\ Blocks(t1) /\ Blocks(d1) /\ Behind(t1, d1, U1)
  <2>1. /\ DOMAIN t1 = DOMAIN t \cup {pair} /\ t1[pair] = v
        /\ \A x \in DOMAIN t \ {pair} : t1[x] = t[x]
    BY <1>3 DEF Put
  <2>2. CASE pair \in U1 /\ d1 = d
    BY <2>1, <2>2
  <2>3. CASE d1 = Lowered(d, pair, to)
    <3>1. /\ DOMAIN d1 = DOMAIN d
          /\ \A x \in DOMAIN d : d1[x] = IF x = pair /\ to < d[x] THEN to ELSE d[x]
      BY <2>3, LoweredOk
    <3>2. ASSUME NEW x \in DOMAIN d \ U1  PROVE x \in DOMAIN t1 /\ d1[x] <= t1[x]
      BY <1>3, <2>1, <3>1
    <3>3. QED  BY <2>1, <3>1, <3>2
  <2>4. QED  BY <1>3, <2>2, <2>3
<1>4. QED  BY <1>1, <1>2, <1>3 DEF Moved


\* One attempt of a sink on a batch, whatever the module answers.
LEMMA SinkStepKeepsPipe ==
    ASSUME PipeInv, NEW n \in SinkNames, NEW f, SinkStep(n, f)
    PROVE  PipeInv'
<1> DEFINE me == node[n]
           b == Head(me.inbox)
           pair == <<b.source, n>>
<1>1. Active /\ me.up /\ me.inbox # <<>> /\ UNCHANGED <<sc, src>>
  BY DEF SinkStep
<1>2. PICK w : Written(n, b, f, w)
  BY Zenon DEF SinkStep
<1> DEFINE rewinds == w.res = "ok" /\ IsRollback(b)
           unwound == rewinds /\ f.fault = "rewind"
           failed == w.res \notin {"ok", "panic"}
           pauses == w.res = "panic" \/ (failed /\ me.attempt + 1 >= MaxAttempts) \/ unwound
           mine == [me EXCEPT !.pool = w.pool, !.up = ~pauses, !.attempt = IF failed THEN @ + 1 ELSE 0,
                              !.inbox = IF ~pauses THEN IF failed THEN @ ELSE Tail(@) ELSE <<>>]
<1>3. /\ run.cfg # None /\ CfgOk(run.cfg) /\ n \in DOMAIN node /\ n \in NamesOf(run.cfg.sinks)
      /\ SourceNames = NamesOf(run.cfg.sources)
      /\ \A m \in DOMAIN node : NodeOk(m, node[m], run.cfg, run.stop)
      /\ run.cfg = Wired /\ run.phase \in Phases
  BY <1>1, AtWork
<1>4. NodeOk(n, me, run.cfg, run.stop) /\ BatchOk(b, run.cfg)
  BY <1>1, <1>3, TailQueue DEF NodeOk
<1>5. /\ b.source \in NamesOf(run.cfg.sources) /\ AckBlock(b) \in Nat
      /\ IsRollback(b) => b.control.at \in Nat
  BY <1>4 DEF BatchOk
<1>6. node' = [node EXCEPT ![n] = mine]
  <2>1. node' = [node EXCEPT ![n] =
                       [me EXCEPT !.pool = w.pool, !.up = ~pauses, !.attempt = IF failed THEN @ + 1 ELSE 0,
                                 !.inbox = IF pauses THEN <<>> ELSE IF failed THEN @ ELSE Tail(@)]]
    BY <1>2, Zenon DEF Written
  <2>2. (IF pauses THEN <<>> ELSE IF failed THEN me.inbox ELSE Tail(me.inbox))
        = IF ~pauses THEN IF failed THEN me.inbox ELSE Tail(me.inbox) ELSE <<>>
    BY Zenon
  <2> HIDE DEF pauses, failed
  <2>3. QED  BY <2>1, <2>2, Zenon
<1>7. run' = [run EXCEPT !.paused = @ \cup IF pauses THEN {n} ELSE {}]
  BY <1>2, Zenon DEF Written
<1>8. past' = [Recorded(n, b, f, w) EXCEPT !.unwound = @ \cup IF unwound THEN {pair} ELSE {}]
  BY <1>2, Zenon DEF Written
<1>9. /\ w.res # "ok" => UNCHANGED <<mark, disk>>
      /\ rewinds => /\ mark' = Rewound(pair, b.control.at + 1)
                    /\ disk' = IF unwound THEN disk ELSE Lowered(disk, pair, b.control.at + 1)
      /\ w.res = "ok" /\ ~IsRollback(b) => mark' = Acked(pair, b) /\ UNCHANGED disk
  BY <1>2, Zenon DEF Written
<1>10. failed /\ ~pauses => me.attempt + 1 < MaxAttempts
  BY <1>4, AttemptsAssumption DEF NodeOk
<1>11. pauses \in BOOLEAN /\ failed \in BOOLEAN
  OBVIOUS
<1> HIDE DEF pauses, failed
<1>12. NodeOk(n, mine, run.cfg, run.stop)
  BY <1>1, <1>3, <1>4, <1>10, <1>11, SinkNodeOk
<1> HIDE DEF mine, b
<1>13. DOMAIN run' = DOMAIN run /\ run'.cfg = run.cfg /\ run'.phase = run.phase /\ run'.stop = run.stop
  BY <1>7 DEF PipeInv, RunInv, RunFields
<1>14. /\ DOMAIN past' = DOMAIN past
       /\ past'.unwound = past.unwound \cup IF unwound THEN {pair} ELSE {}
  <2>1. DOMAIN Recorded(n, b, f, w) = DOMAIN past /\ Recorded(n, b, f, w).unwound = past.unwound
    BY DEF Recorded, PipeInv, RunInv, PastFields
  <2> HIDE DEF unwound, pair
  <2>2. QED  BY <1>8, <2>1 DEF PipeInv, RunInv, PastFields
<1>15. Surrounded' /\ RunInv' /\ Wired' = Wired
  BY <1>1, <1>3, <1>13, <1>14, RunKept DEF PipeInv, RunInv
<1>16. NodesInv' /\ DOMAIN node' = DOMAIN node
  <2>1. /\ DOMAIN node' = DOMAIN node /\ node'[n] = mine
        /\ \A m \in DOMAIN node \ {n} : node'[m] = node[m]
    BY <1>3, <1>6
  <2>2. ASSUME NEW m \in DOMAIN node'  PROVE NodeOk(m, node'[m], run.cfg, run.stop)
    BY <1>3, <1>12, <2>1
  <2>3. QED  BY <2>1, <2>2, <1>13 DEF NodesInv
<1>17. TasksInv'
  BY <1>1, <1>13, <1>16 DEF PipeInv, TasksInv, Active
<1>18. pair \in Pairs(run.cfg)
  BY <1>3, <1>5 DEF Pairs
<1>19. /\ DOMAIN mark' \subseteq DOMAIN mark \cup {pair} /\ DOMAIN disk' = DOMAIN disk
       /\ Blocks(mark') /\ Blocks(disk') /\ Behind(mark', disk', past'.unwound)
  <2>1. Blocks(mark) /\ Blocks(disk) /\ Behind(mark, disk, past.unwound)
    BY <1>1 DEF PipeInv, CursorsInv, DiskNotAhead, Active, Blocks, Behind
  <2>2. past.unwound \subseteq past'.unwound /\ (unwound => pair \in past'.unwound)
    BY <1>14
  <2> HIDE DEF pair
  <2>3. Moved(mark, disk, mark', disk', past'.unwound, pair)
    <3>1. CASE w.res # "ok"
      BY <3>1, <1>9 DEF Moved
    <3>2. CASE w.res = "ok" /\ ~IsRollback(b)
      <4>1. mark' = Acked(pair, b) /\ disk' = disk
        BY <3>2, <1>9
      <4>2. QED  BY <4>1, <2>1, <1>5, AckedOk DEF Moved, Blocks
    <3>3. CASE rewinds
      <4>1. b.control.at + 1 \in Nat
        BY <3>3, <1>5
      <4> DEFINE to == b.control.at + 1
      <4>2. mark' = Rewound(pair, to) /\ disk' = IF unwound THEN disk ELSE Lowered(disk, pair, to)
        BY <3>3, <1>9
      <4> HIDE DEF to
      <4>3. to \in Nat
        BY <4>1 DEF to
      <4>4. \E v \in Nat : mark' = Put(mark, pair, v) /\ (pair \in DOMAIN mark => v = IF mark[pair] <= to THEN mark[pair] ELSE to)
        BY <4>2, <4>3, <2>1, RewoundOk DEF Blocks
      <4>5. (pair \in past'.unwound /\ disk' = disk) \/ disk' = Lowered(disk, pair, to)
        BY <4>2, <2>2
      <4>6. QED  BY <4>3, <4>4, <4>5 DEF Moved
    <3>4. QED  BY <3>1, <3>2, <3>3
  <2>4. QED  BY <2>1, <2>2, <2>3, WrittenTables
<1> HIDE DEF pair
<1>20. CursorsInv'
  BY <1>3, <1>13, <1>15, <1>18, <1>19 DEF PipeInv, CursorsInv, Blocks
<1>21. DiskNotAhead'
  BY <1>19 DEF DiskNotAhead, Behind
<1>22. QED  BY <1>15, <1>16, <1>17, <1>20, <1>21 DEF PipeInv


\* A checkpoint writes the watermarks to the file, or leaves it.
LEMMA SnapshotTables ==
    ASSUME PipeInv, run.phase \in {"running", "stopping"}, NEW done,
           disk' = PersistSnapshot(done),
           past' = [past EXCEPT !.lost = done.lost, !.overwritten = done.overwritten,
                                !.unwound = IF done.ok THEN {} ELSE @]
    PROVE  /\ DOMAIN past' = DOMAIN past
           /\ \A x \in DOMAIN disk' : Wired # None /\ x \in Pairs(Wired) /\ disk'[x] \in Nat
           /\ Behind(mark, disk', past'.unwound)
<1>1. /\ DOMAIN past' = DOMAIN past
      /\ past'.unwound = IF done.ok THEN {} ELSE past.unwound
  BY DEF PipeInv, RunInv, PastFields
<1>2. run.cfg # None /\ run.cfg = Wired
  BY DEF PipeInv, RunInv, Down
<1>3. Behind(mark, disk, past.unwound)
  BY DEF PipeInv, DiskNotAhead, Behind
<1>4. CASE done.ok
  <2>1. disk' = mark /\ past'.unwound = {}
    BY <1>1, <1>4 DEF PersistSnapshot
  <2>2. QED  BY <1>1, <1>2, <2>1 DEF PipeInv, CursorsInv, Behind
<1>5. CASE ~done.ok
  <2>1. disk' = disk /\ past'.unwound = past.unwound
    BY <1>1, <1>5 DEF PersistSnapshot
  <2>2. QED  BY <1>1, <1>3, <2>1 DEF PipeInv, CursorsInv
<1>6. QED  BY <1>4, <1>5

\* The periodic checkpoint changes the pools of the sinks, and the file.
LEMMA TickKeepsPipe ==
    ASSUME PipeInv, Tick
    PROVE  PipeInv'
<1>1. PICK done : /\ disk' = PersistSnapshot(done)
                  /\ past' = [past EXCEPT !.lost = done.lost, !.overwritten = done.overwritten,
                                          !.unwound = IF done.ok THEN {} ELSE @]
                  /\ node' = [n \in DOMAIN node |->
                                IF n \in SinkNames THEN [node[n] EXCEPT !.pool = done.pools[n]] ELSE node[n]]
  BY Zenon DEF Tick, Checkpoint
<1>2. run.phase = "running" /\ run' = [run EXCEPT !.ticking = ~run.stop] /\ UNCHANGED <<sc, src, mark>>
  BY DEF Tick
<1>3. Active
  BY <1>2 DEF Active
<1>4. DOMAIN run' = DOMAIN run /\ run'.cfg = run.cfg /\ run'.phase = run.phase /\ run'.stop = run.stop
  BY <1>2 DEF PipeInv, RunInv, RunFields
<1>5. /\ DOMAIN past' = DOMAIN past
      /\ \A x \in DOMAIN disk' : Wired # None /\ x \in Pairs(Wired) /\ disk'[x] \in Nat
      /\ Behind(mark, disk', past'.unwound)
  BY <1>1, <1>2, SnapshotTables
<1>6. Surrounded' /\ RunInv' /\ Wired' = Wired
  BY <1>2, <1>3, <1>4, <1>5, AtWork, RunKept DEF PipeInv, RunInv
<1>7. NodesInv' /\ DOMAIN node' = DOMAIN node
  <2>1. ASSUME NEW n \in DOMAIN node'  PROVE NodeOk(n, node'[n], run.cfg, run.stop)
    <3>1. n \in DOMAIN node /\ NodeOk(n, node[n], run.cfg, run.stop)
      BY <1>1, <1>3, AtWork
    <3>2. CASE n \in SinkNames
      <4>1. node'[n] = [node[n] EXCEPT !.pool = done.pools[n]]
        BY <1>1, <3>1, <3>2
      <4>2. QED  BY <4>1, <3>1 DEF NodeOk, NodeFields, BranchesOk
    <3>3. CASE n \notin SinkNames
      BY <1>1, <3>1, <3>3
    <3>4. QED  BY <3>2, <3>3
  <2>2. QED  BY <1>1, <1>4, <2>1 DEF NodesInv
<1>8. TasksInv'
  BY <1>2, <1>3, <1>4, <1>7 DEF PipeInv, TasksInv, Active
<1>9. CursorsInv' /\ DiskNotAhead'
  BY <1>2, <1>4, <1>5, <1>6 DEF PipeInv, CursorsInv, DiskNotAhead, Behind
<1>10. QED  BY <1>6, <1>7, <1>8, <1>9 DEF PipeInv

\* A process that ends leaves the file alone.
LEMMA GoneKeepsPipe ==
    ASSUME PipeInv, sc' = sc, run.cfg # None, DOMAIN run' = DOMAIN run, run'.cfg = run.cfg, run'.phase \in Down,
           node' = <<>>, mark' = <<>>, PastFields \subseteq DOMAIN past',
           \A x \in DOMAIN disk' : Wired # None /\ x \in Pairs(Wired) /\ disk'[x] \in Nat
    PROVE  PipeInv'
<1>1. Surrounded' /\ RunInv' /\ Wired' = Wired
  BY RunKept DEF Phases
<1>2. CursorsInv' /\ NodesInv'
  BY <1>1, NobodyThere DEF CursorsInv, NodesInv
<1>3. TasksInv' /\ DiskNotAhead'
  BY DEF TasksInv, DiskNotAhead, Down
<1>4. QED  BY <1>1, <1>2, <1>3 DEF PipeInv

\* The last checkpoint.
LEMMA FinalKeepsPipe ==
    ASSUME PipeInv, Final
    PROVE  PipeInv'
<1>1. PICK done : /\ disk' = PersistSnapshot(done)
                  /\ past' = [past EXCEPT !.lost = done.lost, !.overwritten = done.overwritten,
                                          !.unwound = IF done.ok THEN {} ELSE @]
                  /\ node' = <<>>
  BY Zenon DEF Final, Checkpoint
<1>2. /\ run.phase = "stopping" /\ run' = [run EXCEPT !.phase = "ended", !.saved = (disk' = mark)]
      /\ mark' = <<>> /\ sc' = sc
  BY DEF Final
<1>3. DOMAIN run' = DOMAIN run /\ run'.cfg = run.cfg /\ run'.phase = "ended" /\ run.cfg # None
  BY <1>2 DEF PipeInv, RunInv, RunFields, Down
<1>4. /\ DOMAIN past' = DOMAIN past
      /\ \A x \in DOMAIN disk' : Wired # None /\ x \in Pairs(Wired) /\ disk'[x] \in Nat
  BY <1>1, <1>2, SnapshotTables
<1>5. QED  BY <1>1, <1>2, <1>3, <1>4, GoneKeepsPipe DEF PipeInv, RunInv, Down

\* The process dies.
LEMMA CrashKeepsPipe ==
    ASSUME PipeInv, Crash
    PROVE  PipeInv'
<1>1. /\ run.phase \notin Down /\ run' = [run EXCEPT !.phase = "crashed"]
      /\ node' = <<>> /\ mark' = <<>> /\ UNCHANGED <<sc, disk, past>>
  BY DEF Crash
<1>2. DOMAIN run' = DOMAIN run /\ run'.cfg = run.cfg /\ run'.phase = "crashed" /\ run.cfg # None
  BY <1>1 DEF PipeInv, RunInv, RunFields
<1>3. QED  BY <1>1, <1>2, GoneKeepsPipe DEF PipeInv, RunInv, CursorsInv, Down

\* Every task has returned, or a signal has come: the tasks stay as they are.
LEMMA EndingKeepsPipe ==
    ASSUME PipeInv, Finish \/ Signal
    PROVE  PipeInv'
<1>1. /\ run.phase = "running" /\ UNCHANGED <<sc, src, node, mark, disk, past>>
      /\ \/ run' = [run EXCEPT !.phase = "stopping", !.health = "stopping", !.eof = TRUE]
         \/ run' = [run EXCEPT !.phase = "stopping", !.health = "stopping", !.stop = TRUE]
  BY DEF Finish, Signal
<1>2. /\ DOMAIN run' = DOMAIN run /\ run'.cfg = run.cfg /\ run'.phase = "stopping"
      /\ run'.stop = run.stop \/ run'.stop = TRUE
  BY <1>1 DEF PipeInv, RunInv, RunFields
<1>3. Active
  BY <1>1 DEF Active
<1>4. Surrounded' /\ RunInv' /\ Wired' = Wired
  BY <1>1, <1>2, <1>3, AtWork, RunKept DEF Phases, PipeInv, RunInv
<1>5. NodesInv'
  <2>1. ASSUME NEW n \in DOMAIN node  PROVE NodeOk(n, node[n], run.cfg, run'.stop)
    <3>1. NodeOk(n, node[n], run.cfg, run.stop)
      BY <1>3, AtWork
    <3>2. QED  BY <3>1, <1>2 DEF NodeOk
  <2>2. QED  BY <2>1, <1>1, <1>2 DEF NodesInv
<1>6. CursorsInv' /\ TasksInv' /\ DiskNotAhead'
  BY <1>1, <1>2, <1>4 DEF PipeInv, CursorsInv, TasksInv, DiskNotAhead
<1>7. QED  BY <1>4, <1>5, <1>6 DEF PipeInv


-----------------------------------------------------------------------------
(* The invariant holds throughout, and says what the runs check.             *)

\* It holds before the first start.
LEMMA InitPipeInv == Init => PipeInv
<1> SUFFICES ASSUME Init PROVE PipeInv  OBVIOUS
<1>1. Surrounded
  BY DEF Init, Surrounded
<1>2. node = <<>> /\ mark = <<>> /\ disk = <<>> /\ run = Off /\ past = NoPast
  BY DEF Init
<1>3. /\ RunFields \subseteq DOMAIN run /\ PastFields \subseteq DOMAIN past
      /\ run.phase = "off" /\ run.cfg = None
  BY <1>2 DEF Off, NoPast, RunFields, PastFields
<1>4. RunInv /\ CursorsInv /\ NodesInv
  BY <1>2, <1>3, NobodyThere DEF RunInv, CursorsInv, NodesInv, Phases, Down
<1>5. TasksInv /\ DiskNotAhead
  BY <1>3 DEF TasksInv, DiskNotAhead
<1>6. QED  BY <1>1, <1>4, <1>5 DEF PipeInv

\* Every step keeps it.
LEMMA NextPipeInv ==
    ASSUME PipeInv, [Next]_pvars
    PROVE  PipeInv'
<1>1. CASE UNCHANGED pvars
  BY <1>1, IdleKeepsPipe DEF pvars, pipeVars
<1>2. CASE Start
  BY <1>2, StartKeepsPipe
<1>3. CASE Open
  BY <1>3, OpenKeepsPipe
<1>4. CASE LoadFails
  BY <1>4, LoadFailsKeepsPipe
<1>5. CASE Instantiate
  BY <1>5, InstantiateKeepsPipe
<1>6. CASE Wire
  BY <1>6, WireKeepsPipe
<1>7. ASSUME NEW s \in SourceNames, SourcePage(s) \/ SourceStops(s) \/ ReorgNoticed(s)
      PROVE  PipeInv'
  BY <1>7, SourcePageKeepsPipe, SourceStopsKeepsPipe, ReorgNoticedKeepsPipe
<1>8. ASSUME NEW n \in SourceNames \cup ProcessorNames, FanSend(n)
      PROVE  PipeInv'
  BY <1>8, FanSendKeepsPipe
<1>9. ASSUME NEW p \in ProcessorNames, Process(p)
      PROVE  PipeInv'
  BY <1>9, ProcessKeepsPipe
<1>10. ASSUME NEW n \in SinkNames, NEW f \in Faults, SinkStep(n, f)
       PROVE  PipeInv'
  BY <1>10, SinkStepKeepsPipe
<1>11. CASE Tick
  BY <1>11, TickKeepsPipe
<1>12. CASE Finish \/ Signal
  BY <1>12, EndingKeepsPipe
<1>13. CASE Final
  BY <1>13, FinalKeepsPipe
<1>14. CASE Crash
  BY <1>14, CrashKeepsPipe
<1>15. CASE Compile \/ MainWrites \/ RivalCompiles \/ RivalWrites
  BY <1>15, IdleKeepsPipe DEF Compile, MainWrites, RivalCompiles, RivalWrites, pipeVars
<1>16. CASE RivalCrashes
  BY <1>16, IdleKeepsPipe DEF RivalCrashes
<1>17. CASE Over
  BY <1>17, IdleKeepsPipe DEF Over, pvars, pipeVars
<1>18. QED  BY <1>1, <1>2, <1>3, <1>4, <1>5, <1>6, <1>7, <1>8, <1>9, <1>10, <1>11, <1>12,
               <1>13, <1>14, <1>15, <1>16, <1>17 DEF Next

\* Every state the process can be in satisfies it.
LEMMA PipeInvHolds == Spec => []PipeInv
BY InitPipeInv, NextPipeInv, PTL DEF Spec

\* What it says of types.
LEMMA PipeInvTyped ==
    ASSUME PipeInv
    PROVE  PTypeOK
<1>1. /\ run.phase \in Down \cup {"open", "load", "running", "stopping"}
      /\ \A x \in DOMAIN disk : disk[x] \in Nat
  BY DEF PipeInv, RunInv, Phases, CursorsInv
<1>2. CASE run.cfg = None
  BY <1>1, <1>2 DEF PipeInv, RunInv, PTypeOK
<1>3. CASE run.cfg # None
  <2>1. /\ SourceNames = NamesOf(run.cfg.sources) /\ SinkNames = NamesOf(run.cfg.sinks)
        /\ Knobs.channel_capacity = ChannelCapacity(run.cfg)
    BY <1>3 DEF SourceNames, SinkNames, Knobs, ChannelCapacity, Cfg
  <2>2. \A x \in DOMAIN mark : x \in SourceNames \X SinkNames /\ mark[x] \in Nat
    BY <2>1 DEF PipeInv, CursorsInv, Pairs
  <2>3. ASSUME NEW n \in DOMAIN node
        PROVE  /\ node[n].attempt \in 0 .. MaxAttempts
               /\ node[n].pos \in 1 .. Len(node[n].live) + 1
               /\ Len(node[n].inbox) <= Knobs.channel_capacity
               /\ ~node[n].up => Idle(n)
    <3>1. NodeOk(n, node[n], run.cfg, run.stop)
      BY DEF PipeInv, NodesInv
    <3>2. Len(node[n].live) \in Nat /\ (node[n].pos = 1 \/ node[n].pos \in 1 .. Len(node[n].live))
      BY <3>1 DEF NodeOk, BranchesOk, IsSeq
    <3>3. node[n].pos \in 1 .. Len(node[n].live) + 1
      BY <3>2
    <3>4. QED  BY <2>1, <3>1, <3>3 DEF NodeOk, Idle
  <2>4. QED  BY <1>1, <2>2, <2>3 DEF PTypeOK
<1>4. QED  BY <1>2, <1>3

\* Watermarks and cursors are blocks, watermarks only of pairs of the graph; no
\* task fails more often than it may, loses its place among its branches or
\* holds more than its channel does; and a task that has returned holds nothing.
THEOREM PipelineTyped == Spec => []PTypeOK
<1>1. PipeInv => PTypeOK
  BY PipeInvTyped
<1>2. QED  BY <1>1, PipeInvHolds, PTL

\* A checkpoint file is never ahead of the watermarks of the process that reads
\* it, over acks of replayed blocks, rewinds, failed flushes and restarts.
THEOREM PipelineDiskNotAhead == Spec => []DiskNotAhead
<1>1. PipeInv => DiskNotAhead
  BY DEF PipeInv
<1>2. QED  BY <1>1, PipeInvHolds, PTL


-----------------------------------------------------------------------------
(* The graph.                                                                *)

SourcesOf(cfg) == NamesOf(cfg.sources)
SinksOf(cfg) == NamesOf(cfg.sinks)
NodesOf(cfg) == NamesOf(cfg.sources) \cup NamesOf(cfg.processors) \cup NamesOf(cfg.sinks)
Feeds(cfg, m) == Range(ConsumersOf(cfg, m))

\* Sets of nodes that hold, with a node, those it feeds.
Closed(cfg, S) == \A m \in S : Feeds(cfg, m) \subseteq S

\* What lies below a node: what is in each closed set of nodes that holds its
\* consumers.
Below(cfg, s, n) ==
    \A S \in SUBSET NodesOf(cfg) : Closed(cfg, S) /\ Feeds(cfg, s) \subseteq S => n \in S

\* A closed set without a cycle: each part of it has a node that feeds none of
\* that part, and one that none of that part feeds.
Acyclic(cfg, B) ==
    /\ Closed(cfg, B)
    /\ \A S \in SUBSET B : S # {} =>
          /\ \E m \in S : Feeds(cfg, m) \cap S = {}
          /\ \E m \in S : \A p \in S : m \notin Feeds(cfg, p)

-----------------------------------------------------------------------------
(* The loader's search for cycles.                                           *)

\* A recursive definition, which says of an argument what depends only on values
\* for arguments of a lesser measure, is that of a function.
WellDefined(D, V, m, step) ==
    /\ V # {} /\ m \in [D -> Nat] /\ step \in [[D -> V] -> [D -> V]]
    /\ \A g, h \in [D -> V] : \A x \in D :
          (\A y \in D : m[y] < m[x] => g[y] = h[y]) => step[g][x] = step[h][x]

LEMMA RecursionExists ==
    ASSUME NEW D, NEW V, NEW m, NEW step, WellDefined(D, V, m, step)
    PROVE  \E f \in [D -> V] : f = step[f]
<1>a. m \in [D -> Nat]
  BY DEF WellDefined
<1>b. V # {} /\ step \in [[D -> V] -> [D -> V]]
  BY DEF WellDefined
<1>c. \A g, h \in [D -> V] : \A x \in D :
         (\A y \in D : m[y] < m[x] => g[y] = h[y]) => step[g][x] = step[h][x]
  BY DEF WellDefined
<1> USE <1>a, <1>b, <1>c
<1> DEFINE Right(k) == {g \in [D -> V] : \A x \in D : m[x] < k => g[x] = step[g][x]}
<1>1. ASSUME NEW k \in Nat, NEW g \in Right(k), NEW h \in Right(k), NEW z \in D, m[z] < k
      PROVE  g[z] = h[z]
  <2> DEFINE Bad == {m[x] : x \in {x \in D : m[x] < k /\ g[x] # h[x]}}
  <2>0. g[z] # h[z] => m[z] \in Bad
    BY <1>1
  <2>1. SUFFICES ASSUME Bad # {} PROVE FALSE
    <3> HIDE DEF Bad
    <3>1. QED  BY <2>0
  <2>2. PICK b \in Bad : \A c \in Bad : b <= c
    <3>1. Bad \subseteq Nat
      OBVIOUS
    <3> HIDE DEF Bad
    <3>2. QED  BY <2>1, <3>1, LeastNatural
  <2>3. PICK x \in D : m[x] = b /\ m[x] < k /\ g[x] # h[x]
    OBVIOUS
  <2>4. \A y \in D : m[y] < m[x] => g[y] = h[y]
    <3>1. SUFFICES ASSUME NEW y \in D, m[y] < m[x], g[y] # h[y] PROVE FALSE
      OBVIOUS
    <3>2. m[y] \in Nat /\ m[x] \in Nat /\ m[y] < k
      BY <3>1, <2>3
    <3>3. m[y] \in Bad
      BY <3>1, <3>2
    <3> HIDE DEF Bad
    <3>4. QED  BY <3>1, <3>2, <3>3, <2>2, <2>3
  <2>5. step[g][x] = step[h][x]
    BY <2>4
  <2>6. QED  BY <2>3, <2>5
<1>2. ASSUME NEW k \in Nat
      PROVE  Right(k) # {}
  <2> DEFINE T == {n \in 0 .. k : Right(n) # {}}
  <2>1. 0 \in T
    <3>1. PICK v : v \in V
      OBVIOUS
    <3>2. [x \in D |-> v] \in Right(0)
      BY <3>1
    <3>3. QED  BY <3>2
  <2>2. ASSUME NEW n \in 0 .. k - 1, n \in T
        PROVE  n + 1 \in T
    <3>1. PICK g : g \in Right(n)
      BY <2>2
    <3>2. step[g] \in [D -> V]
      BY <3>1
    <3>3. ASSUME NEW x \in D, m[x] < n + 1
          PROVE  step[g][x] = step[step[g]][x]
      <4>1. \A y \in D : m[y] < m[x] => g[y] = step[g][y]
        <5>1. \A y \in D : m[y] < m[x] => m[y] < n
          BY <3>3
        <5>2. QED  BY <5>1, <3>1
      <4>2. QED  BY <4>1, <3>1, <3>2
    <3>4. step[g] \in Right(n + 1)
      BY <3>2, <3>3
    <3>5. QED  BY <3>4
  <2> HIDE DEF T
  <2>3. k \in T
    BY <2>1, <2>2, UpTo
  <2>4. QED  BY <2>3 DEF T
<1> DEFINE G(k) == CHOOSE g : g \in Right(k)
           f == [x \in D |-> G(m[x] + 1)[x]]
<1>3. \A k \in Nat : G(k) \in Right(k)
  BY <1>2
<1>4. \A j, k \in Nat : j <= k => Right(k) \subseteq Right(j)
  OBVIOUS
<1>5. \A k \in Nat : G(k) \in [D -> V] /\ \A x \in D : m[x] < k => G(k)[x] = step[G(k)][x]
  BY <1>3
<1> HIDE DEF Right, G
<1>6. f \in [D -> V]
  BY <1>5
<1>7. ASSUME NEW x \in D
      PROVE  f[x] = step[f][x]
  <2>1. m[x] + 1 \in Nat /\ m[x] < m[x] + 1
    OBVIOUS
  <2>2. f[x] = step[G(m[x] + 1)][x]
    BY <2>1, <1>5
  <2>3. ASSUME NEW y \in D, m[y] < m[x]
        PROVE  f[y] = G(m[x] + 1)[y]
    <3>1. m[y] + 1 \in Nat /\ m[y] + 1 <= m[x] + 1 /\ m[y] < m[y] + 1
      BY <2>3
    <3>2. G(m[y] + 1) \in Right(m[y] + 1) /\ G(m[x] + 1) \in Right(m[y] + 1)
      BY <3>1, <2>1, <1>3, <1>4
    <3>3. G(m[y] + 1)[y] = G(m[x] + 1)[y]
      BY <3>1, <3>2, <1>1
    <3>4. QED  BY <3>3
  <2> HIDE DEF f
  <2>4. step[f][x] = step[G(m[x] + 1)][x]
    BY <2>1, <2>3, <1>5, <1>6
  <2>5. QED  BY <2>2, <2>4
<1> HIDE DEF f
<1>8. step[f] \in [D -> V]
  BY <1>6
<1>9. f = step[f]
  BY <1>6, <1>7, <1>8
<1>10. QED  BY <1>6, <1>9

\* The states of the search, what it answers, and the search itself.
Visits(N) == [todo : Seq(N), grey : SUBSET N, black : SUBSET N]
Found(N) == [cycle : BOOLEAN, black : SUBSET N]
Searched(cfg, N) == CHOOSE f : f = [v \in Visits(N) |-> Visit(cfg, f, v)]

\* The two states a round hands on: the rest of the list, and the consumers of
\* its first node.
Onward(v, black) == [todo |-> Tail(v.todo), grey |-> v.grey, black |-> black]
Deeper(cfg, v) ==
    [todo |-> ConsumersOf(cfg, Head(v.todo)), grey |-> v.grey \cup {Head(v.todo)}, black |-> v.black]

\* A round, in terms of these.
RoundIs(cfg, f, v) ==
    LET c == Head(v.todo) IN
    /\ v.todo = <<>> => Visit(cfg, f, v) = [cycle |-> FALSE, black |-> v.black]
    /\ v.todo # <<>> /\ c \in v.grey => Visit(cfg, f, v) = [cycle |-> TRUE, black |-> v.black]
    /\ v.todo # <<>> /\ c \notin v.grey /\ c \in v.black => Visit(cfg, f, v) = f[Onward(v, v.black)]
    /\ v.todo # <<>> /\ c \notin v.grey \cup v.black =>
          /\ f[Deeper(cfg, v)].cycle => Visit(cfg, f, v) = f[Deeper(cfg, v)]
          /\ ~f[Deeper(cfg, v)].cycle => Visit(cfg, f, v) = f[Onward(v, f[Deeper(cfg, v)].black \cup {c})]

LEMMA RoundOf ==
    ASSUME NEW cfg, NEW f, NEW v
    PROVE  RoundIs(cfg, f, v)
<1> DEFINE c == Head(v.todo)
<1>1. Visit(cfg, f, v) =
        IF v.todo = <<>> THEN [cycle |-> FALSE, black |-> v.black]
        ELSE CASE c \in v.grey -> [cycle |-> TRUE, black |-> v.black]
               [] c \in v.black \ v.grey -> f[Onward(v, v.black)]
               [] OTHER -> IF f[Deeper(cfg, v)].cycle THEN f[Deeper(cfg, v)]
                           ELSE f[Onward(v, f[Deeper(cfg, v)].black \cup {c})]
  BY Zenon DEF Visit, Deeper, Onward
<1> HIDE DEF c
<1>2. QED  BY <1>1 DEF c, RoundIs

\* What a round hands on are states again, with fewer nodes that are not grey or
\* with fewer to visit.
LEMMA RoundHandsOn ==
    ASSUME NEW cfg, NEW N, \A n \in N : ConsumersOf(cfg, n) \in Seq(N),
           NEW v \in Visits(N), v.todo # <<>>
    PROVE  /\ Head(v.todo) \in N /\ Deeper(cfg, v) \in Visits(N)
           /\ \A B \in SUBSET N : Onward(v, B) \in Visits(N)
           /\ Len(v.todo) \in Nat \ {0} /\ Len(Tail(v.todo)) = Len(v.todo) - 1
           /\ Range(v.todo) = {Head(v.todo)} \cup Range(Tail(v.todo))
<1>1. v.todo \in Seq(N) /\ v.grey \in SUBSET N /\ v.black \in SUBSET N
  BY DEF Visits
<1>2. /\ Head(v.todo) \in N /\ Tail(v.todo) \in Seq(N)
      /\ Len(v.todo) \in Nat \ {0} /\ Len(Tail(v.todo)) = Len(v.todo) - 1
  BY <1>1
<1>3. Deeper(cfg, v) \in Visits(N) /\ \A B \in SUBSET N : Onward(v, B) \in Visits(N)
  BY <1>1, <1>2 DEF Deeper, Onward, Visits
<1>4. Range(v.todo) = {Head(v.todo)} \cup Range(Tail(v.todo))
  <2>1. IsSeq(v.todo)
    BY <1>1, SeqIsSeq
  <2>2. QED  BY <2>1, HeadAndTail
<1>5. QED  BY <1>2, <1>3, <1>4

\* The measure of a state: it falls with each round.
LEMMA LessToSearch ==
    ASSUME NEW c \in Nat, NEW d \in Nat, d < c, NEW K \in Nat, NEW j \in Nat, NEW k \in Nat, k <= K
    PROVE  d * (K + 1) + k < c * (K + 1) + j
<1>1. (d + 1) * (K + 1) <= c * (K + 1)
  OBVIOUS
<1>2. (d + 1) * (K + 1) = d * (K + 1) + K + 1
  OBVIOUS
<1>3. d * (K + 1) \in Nat /\ c * (K + 1) \in Nat
  OBVIOUS
<1>4. QED  BY <1>1, <1>2, <1>3
\* A graph to search: finitely many nodes, which feed at most K nodes each.
Searchable(cfg, N, K) ==
    /\ IsFiniteSet(N) /\ K \in Nat
    /\ \A n \in N : ConsumersOf(cfg, n) \in Seq(N) /\ Len(ConsumersOf(cfg, n)) <= K
ToVisit(N, K, v) == Cardinality(N \ v.grey) * (K + 1) + Len(v.todo)

LEMMA RoundsFall ==
    ASSUME NEW cfg, NEW N, NEW K, Searchable(cfg, N, K), NEW v \in Visits(N)
    PROVE  /\ ToVisit(N, K, v) \in Nat
           /\ v.todo # <<>> =>
                 /\ \A B \in SUBSET N : ToVisit(N, K, Onward(v, B)) < ToVisit(N, K, v)
                 /\ Head(v.todo) \notin v.grey => ToVisit(N, K, Deeper(cfg, v)) < ToVisit(N, K, v)
<1>1. /\ v.todo \in Seq(N) /\ v.grey \in SUBSET N /\ Len(v.todo) \in Nat /\ K \in Nat /\ IsFiniteSet(N)
      /\ \A n \in N : ConsumersOf(cfg, n) \in Seq(N) /\ Len(ConsumersOf(cfg, n)) \in Nat /\ Len(ConsumersOf(cfg, n)) <= K
  BY DEF Visits, Searchable
<1>2. IsFiniteSet(N \ v.grey) /\ Cardinality(N \ v.grey) \in Nat
  <2>1. IsFiniteSet(N \ v.grey)
    BY <1>1, FS_Subset
  <2>2. QED  BY <2>1, FS_CardinalityType
<1>3. ToVisit(N, K, v) \in Nat
  <2>1. Cardinality(N \ v.grey) * (K + 1) \in Nat
    BY <1>1, <1>2
  <2>2. QED  BY <2>1, <1>1 DEF ToVisit
<1>4. ASSUME v.todo # <<>>, NEW B
      PROVE  ToVisit(N, K, Onward(v, B)) < ToVisit(N, K, v)
  <2>1. Len(Tail(v.todo)) = Len(v.todo) - 1
    BY <1>1, <1>4
  <2>2. Onward(v, B).todo = Tail(v.todo) /\ Onward(v, B).grey = v.grey
    BY DEF Onward
  <2> DEFINE c == Cardinality(N \ v.grey) * (K + 1)
  <2>3. c \in Nat
    BY <1>1, <1>2
  <2>4. ToVisit(N, K, Onward(v, B)) = c + Len(Tail(v.todo)) /\ ToVisit(N, K, v) = c + Len(v.todo)
    BY <2>2 DEF ToVisit
  <2> HIDE DEF c
  <2>5. QED  BY <2>1, <2>3, <2>4, <1>1
<1>5. ASSUME v.todo # <<>>, Head(v.todo) \notin v.grey
      PROVE  ToVisit(N, K, Deeper(cfg, v)) < ToVisit(N, K, v)
  <2> DEFINE h == Head(v.todo)
             d == Cardinality(N \ (v.grey \cup {h}))
  <2>1. h \in N
    BY <1>1, <1>5
  <2>2. Cardinality((N \ v.grey) \ {h}) = Cardinality(N \ v.grey) - 1
    BY <1>2, <1>5, <2>1, FS_RemoveElement
  <2>3. (N \ v.grey) \ {h} = N \ (v.grey \cup {h})
    OBVIOUS
  <2>4. d \in Nat /\ d < Cardinality(N \ v.grey)
    <3>1. IsFiniteSet(N \ (v.grey \cup {h}))
      BY <1>1, FS_Subset
    <3>2. d \in Nat
      BY <3>1, FS_CardinalityType
    <3>3. QED  BY <1>2, <2>2, <2>3, <3>2
  <2>5. ToVisit(N, K, Deeper(cfg, v)) = d * (K + 1) + Len(ConsumersOf(cfg, h))
    BY DEF ToVisit, Deeper
  <2> HIDE DEF h, d
  <2>6. d * (K + 1) + Len(ConsumersOf(cfg, h)) < Cardinality(N \ v.grey) * (K + 1) + Len(v.todo)
    BY <1>1, <1>2, <2>1, <2>4, LessToSearch
  <2>7. QED  BY <2>5, <2>6 DEF ToVisit
<1>6. QED  BY <1>3, <1>4, <1>5

\* So the search is the function its definition means.
LEMMA SearchRecurs ==
    ASSUME NEW cfg, NEW N, NEW K, Searchable(cfg, N, K)
    PROVE  \A v \in Visits(N) : Searched(cfg, N)[v] = Visit(cfg, Searched(cfg, N), v)
<1> DEFINE D == Visits(N)
           V == Found(N)
           m == [v \in D |-> ToVisit(N, K, v)]
           step == [f \in [D -> V] |-> [v \in D |-> Visit(cfg, f, v)]]
<1>1. m \in [D -> Nat]
  BY RoundsFall
<1>2. V # {} /\ \A r \in V : r.cycle \in BOOLEAN /\ r.black \in SUBSET N
  <2>1. [cycle |-> TRUE, black |-> {}] \in V
    BY DEF Found
  <2>2. QED  BY <2>1 DEF Found
<1>3. \A n \in N : ConsumersOf(cfg, n) \in Seq(N)
  BY DEF Searchable
<1>4. ASSUME NEW f \in [D -> V], NEW v \in D  PROVE Visit(cfg, f, v) \in V
  <2>1. v.black \in SUBSET N
    BY DEF Visits
  <2>0. RoundIs(cfg, f, v)
    BY RoundOf
  <2>2. CASE v.todo = <<>>
    <3>1. [cycle |-> FALSE, black |-> v.black] \in V
      BY <2>1 DEF Found
    <3> HIDE DEF V
    <3>2. QED  BY <2>0, <2>2, <3>1 DEF RoundIs
  <2>3. CASE v.todo # <<>>
    <3> DEFINE c == Head(v.todo)
    <3>1. c \in N /\ Deeper(cfg, v) \in D /\ \A B \in SUBSET N : Onward(v, B) \in D
      BY <2>3, <1>3, RoundHandsOn
    <3>2. f[Deeper(cfg, v)] \in V /\ \A B \in SUBSET N : f[Onward(v, B)] \in V
      BY <3>1
    <3>3. f[Deeper(cfg, v)].black \cup {c} \in SUBSET N
      BY <3>1, <3>2, <1>2
    <3>4. [cycle |-> TRUE, black |-> v.black] \in V
      BY <2>1 DEF Found
    <3> HIDE DEF D, V
    <3>5. QED  BY <2>0, <2>1, <2>3, <3>2, <3>3, <3>4 DEF RoundIs
  <2>4. QED  BY <2>2, <2>3
<1>5. step \in [[D -> V] -> [D -> V]]
  BY <1>4
<1>6. ASSUME NEW g \in [D -> V], NEW h \in [D -> V], NEW v \in D,
             \A y \in D : m[y] < m[v] => g[y] = h[y]
      PROVE  Visit(cfg, g, v) = Visit(cfg, h, v)
  <2>1. v.black \in SUBSET N
    BY DEF Visits
  <2>0. RoundIs(cfg, g, v) /\ RoundIs(cfg, h, v)
    BY RoundOf
  <2>2. CASE v.todo = <<>>
    BY <2>0, <2>2 DEF RoundIs
  <2>3. CASE v.todo # <<>>
    <3> DEFINE c == Head(v.todo)
    <3>1. c \in N /\ Deeper(cfg, v) \in D /\ \A B \in SUBSET N : Onward(v, B) \in D
      BY <2>3, <1>3, RoundHandsOn
    <3>2. \A B \in SUBSET N : m[Onward(v, B)] < m[v]
      BY <2>3, <3>1, RoundsFall
    <3>3. c \notin v.grey => m[Deeper(cfg, v)] < m[v]
      BY <2>3, <3>1, RoundsFall
    <3> HIDE DEF m
    <3>4. /\ \A B \in SUBSET N : g[Onward(v, B)] = h[Onward(v, B)]
          /\ c \notin v.grey => g[Deeper(cfg, v)] = h[Deeper(cfg, v)]
      BY <1>6, <3>1, <3>2, <3>3
    <3>5. g[Deeper(cfg, v)].black \cup {c} \in SUBSET N
      BY <3>1, <1>2
    <3> HIDE DEF D, V
    <3>6. QED  BY <2>0, <2>1, <2>3, <3>4, <3>5 DEF RoundIs
  <2>4. QED  BY <2>2, <2>3
<1> HIDE DEF D, V, m
<1>7. \A g, h \in [D -> V] : \A x \in D :
         (\A y \in D : m[y] < m[x] => g[y] = h[y]) => step[g][x] = step[h][x]
  <2>1. ASSUME NEW g \in [D -> V], NEW h \in [D -> V], NEW x \in D,
               \A y \in D : m[y] < m[x] => g[y] = h[y]
        PROVE  step[g][x] = step[h][x]
    <3>1. Visit(cfg, g, x) = Visit(cfg, h, x)
      BY <2>1, <1>6
    <3>2. QED  BY <3>1
  <2>2. QED  BY <2>1
<1>8. PICK f \in [D -> V] : f = step[f]
  <2> HIDE DEF step
  <2>1. WellDefined(D, V, m, step)
    BY <1>1, <1>2, <1>5, <1>7 DEF WellDefined
  <2>2. QED  BY <2>1, RecursionExists
<1>9. f = [v \in D |-> Visit(cfg, f, v)]
  BY <1>8
<1>10. Searched(cfg, N) = [v \in D |-> Visit(cfg, Searched(cfg, N), v)]
  BY <1>9, Zenon DEF Searched, D
<1> DEFINE F == Searched(cfg, N)
<1>11. F = [v \in D |-> Visit(cfg, F, v)]
  BY <1>10
<1> HIDE DEF F
<1>12. \A v \in D : F[v] = Visit(cfg, F, v)
  BY <1>11, Zenon
<1>13. QED  BY <1>12 DEF D, F

\* A node whose consumers are all in a closed set without a cycle can be added.
LEMMA NodeAdded ==
    ASSUME NEW cfg, NEW B, Acyclic(cfg, B), NEW c, c \notin B, Feeds(cfg, c) \subseteq B
    PROVE  Acyclic(cfg, B \cup {c})
<1>1. Closed(cfg, B \cup {c}) /\ \A m \in B \cup {c} : c \notin Feeds(cfg, m)
  BY DEF Acyclic, Closed
<1>2. ASSUME NEW S \in SUBSET (B \cup {c}), S # {}
      PROVE  \E m \in S : Feeds(cfg, m) \cap S = {}
  <2>1. CASE S \cap B = {}
    BY <2>1, <1>2
  <2>2. CASE S \cap B # {}
    <3>1. PICK m \in S \cap B : Feeds(cfg, m) \cap (S \cap B) = {}
      BY <2>2 DEF Acyclic
    <3>2. QED  BY <3>1, <1>1, <1>2
  <2>3. QED  BY <2>1, <2>2
<1>3. ASSUME NEW S \in SUBSET (B \cup {c}), S # {}
      PROVE  \E m \in S : \A p \in S : m \notin Feeds(cfg, p)
  <2>1. CASE c \in S
    BY <2>1, <1>1
  <2>2. CASE c \notin S
    <3>1. S \in SUBSET B
      BY <2>2
    <3>2. QED  BY <3>1, <1>3 DEF Acyclic
  <2>3. QED  BY <2>1, <2>2
<1>4. QED  BY <1>1, <1>2, <1>3 DEF Acyclic

\* What the search keeps: no grey node is black, the black ones are closed and
\* without a cycle, and what is to visit lies below every grey node.
Sound(cfg, v) == v.grey \cap v.black = {} /\ Acyclic(cfg, v.black)
Leads(cfg, v) == \A g \in v.grey : \A c \in Range(v.todo) : Below(cfg, g, c)

\* What it answers: a cycle that is there, or more black nodes of that kind.
Answers(cfg, v, r) ==
    /\ r \in Found(NodesOf(cfg))
    /\ Sound(cfg, v) /\ ~r.cycle =>
          /\ v.black \cup Range(v.todo) \subseteq r.black /\ r.black \cap v.grey = {}
          /\ Acyclic(cfg, r.black)
    /\ Leads(cfg, v) /\ r.cycle => \E n \in NodesOf(cfg) : Below(cfg, n, n)

\* One round answers right if the rounds it goes on to do.
LEMMA RoundAnswers ==
    ASSUME NEW cfg, NEW K, Searchable(cfg, NodesOf(cfg), K), NEW v \in Visits(NodesOf(cfg)), NEW f,
           v.todo # <<>> =>
              /\ \A B \in SUBSET NodesOf(cfg) : Answers(cfg, Onward(v, B), f[Onward(v, B)])
              /\ Head(v.todo) \notin v.grey => Answers(cfg, Deeper(cfg, v), f[Deeper(cfg, v)])
    PROVE  Answers(cfg, v, Visit(cfg, f, v))
<1> DEFINE c == Head(v.todo)
           N == NodesOf(cfg)
           r == Visit(cfg, f, v)
           d == f[Deeper(cfg, v)]
<1>1. v.black \in SUBSET N /\ v.grey \in SUBSET N /\ RoundIs(cfg, f, v)
  BY RoundOf DEF Visits
<1>2. CASE v.todo = <<>>
  <2>1. r = [cycle |-> FALSE, black |-> v.black]
    BY <1>1, <1>2 DEF RoundIs
  <2>2. r \in Found(N) /\ r.black = v.black /\ ~r.cycle
    BY <2>1, <1>1 DEF Found
  <2>3. Range(v.todo) = {}
    BY <1>2 DEF Range
  <2> HIDE DEF N, r
  <2>4. QED  BY <2>2, <2>3, <1>2 DEF Answers, Sound, N, r
<1>3. CASE v.todo # <<>>
  <2>1. c \in N /\ Range(v.todo) = {c} \cup Range(Tail(v.todo))
    BY <1>3, RoundHandsOn DEF Searchable
  <2> HIDE DEF N
  <2>2. ASSUME NEW B \in SUBSET N
        PROVE  /\ Answers(cfg, Onward(v, B), f[Onward(v, B)])
               /\ Onward(v, B).todo = Tail(v.todo) /\ Onward(v, B).grey = v.grey /\ Onward(v, B).black = B
               /\ Leads(cfg, v) => Leads(cfg, Onward(v, B))
    BY <1>3, <2>1 DEF N, Onward, Leads
  <2> HIDE DEF c, r
  <2>3. CASE c \in v.grey
    <3>1. r = [cycle |-> TRUE, black |-> v.black]
      BY <1>1, <1>3, <2>3 DEF RoundIs, c, r
    <3>2. r \in Found(N) /\ r.cycle
      BY <3>1, <1>1 DEF Found
    <3>3. Leads(cfg, v) => Below(cfg, c, c)
      BY <2>1, <2>3 DEF Leads
    <3>4. QED  BY <3>2, <3>3, <2>1 DEF Answers, N, r
  <2>4. CASE c \notin v.grey /\ c \in v.black
    <3>1. r = f[Onward(v, v.black)]
      BY <1>1, <1>3, <2>4 DEF RoundIs, c, r
    <3>2. Answers(cfg, Onward(v, v.black), r)
      BY <3>1, <2>2, <1>1
    <3>3. Sound(cfg, v) => Sound(cfg, Onward(v, v.black))
      BY <2>2, <1>1 DEF Sound
    <3>4. QED  BY <3>2, <3>3, <2>1, <2>2, <2>4, <1>1 DEF Answers, r
  <2>5. CASE c \notin v.grey \cup v.black
    <3>1. Answers(cfg, Deeper(cfg, v), d)
      BY <1>3, <2>5 DEF c
    <3>2. /\ Deeper(cfg, v).grey = v.grey \cup {c} /\ Deeper(cfg, v).black = v.black
          /\ Range(Deeper(cfg, v).todo) = Feeds(cfg, c)
      BY DEF Deeper, c, Feeds
    <3>3. Leads(cfg, v) => Leads(cfg, Deeper(cfg, v))
      BY <3>2, <2>1 DEF Leads, Below, Closed
    <3>4. Sound(cfg, v) => Sound(cfg, Deeper(cfg, v))
      BY <3>2, <2>5 DEF Sound
    <3> HIDE DEF d
    <3>5. CASE d.cycle
      <4>1. r = d
        BY <1>1, <1>3, <2>5, <3>5 DEF RoundIs, c, r, d
      <4>2. QED  BY <3>1, <3>3, <3>5, <4>1 DEF Answers, r
    <3>6. CASE ~d.cycle
      <4> DEFINE B == d.black \cup {c}
      <4>1. B \in SUBSET N
        BY <3>1, <2>1 DEF Answers, Found, N
      <4>2. r = f[Onward(v, B)]
        BY <1>1, <1>3, <2>5, <3>6 DEF RoundIs, c, r, d
      <4>3. ASSUME Sound(cfg, v)
            PROVE  v.black \subseteq B /\ Sound(cfg, Onward(v, B))
        <5>1. /\ v.black \cup Feeds(cfg, c) \subseteq d.black /\ d.black \cap (v.grey \cup {c}) = {}
              /\ Acyclic(cfg, d.black)
          BY <3>1, <3>2, <3>4, <3>6, <4>3 DEF Answers
        <5>2. Acyclic(cfg, B)
          BY <5>1, NodeAdded
        <5>3. QED  BY <5>1, <5>2, <4>1, <2>2, <2>5 DEF Sound
      <4> HIDE DEF B
      <4>4. c \in B
        BY DEF B
      <4>5. Answers(cfg, Onward(v, B), r)
        BY <4>1, <4>2, <2>2
      <4>6. QED  BY <4>1, <4>3, <4>4, <4>5, <2>1, <2>2 DEF Answers, r
    <3>7. QED  BY <3>5, <3>6
  <2>6. QED  BY <2>3, <2>4, <2>5
<1>4. QED  BY <1>2, <1>3

\* So every answer of the search is right.
LEMMA SearchAnswers ==
    ASSUME NEW cfg, NEW K, Searchable(cfg, NodesOf(cfg), K), NEW v \in Visits(NodesOf(cfg))
    PROVE  Answers(cfg, v, Searched(cfg, NodesOf(cfg))[v])
<1> DEFINE N == NodesOf(cfg)
           D == Visits(N)
           f == Searched(cfg, N)
           Wrong == {x \in D : ~Answers(cfg, x, f[x])}
           Sizes == {ToVisit(N, K, x) : x \in Wrong}
<1>1. SUFFICES ASSUME v \in Wrong PROVE FALSE
  OBVIOUS
<1>2. \A x \in D : f[x] = Visit(cfg, f, x)
  BY SearchRecurs
<1> HIDE DEF f, N
<1>3. PICK m \in Sizes : \A k \in Sizes : m <= k
  <2>1. Sizes \subseteq Nat
    <3>1. \A x \in D : ToVisit(N, K, x) \in Nat
      BY RoundsFall DEF N
    <3>2. QED  BY <3>1
  <2>2. Sizes # {}
    BY <1>1
  <2> HIDE DEF Sizes
  <2>3. QED  BY <2>1, <2>2, LeastNatural
<1>4. PICK x \in Wrong : ToVisit(N, K, x) = m
  OBVIOUS
<1>5. ToVisit(N, K, x) \in Nat /\ x \in D
  BY <1>4, RoundsFall DEF N
<1>6. ASSUME NEW y \in D, ToVisit(N, K, y) < ToVisit(N, K, x)
      PROVE  Answers(cfg, y, f[y])
  <2>1. ToVisit(N, K, y) \in Nat
    BY RoundsFall DEF N
  <2>2. ToVisit(N, K, y) \notin Sizes
    <3> HIDE DEF Sizes
    <3>1. QED  BY <1>3, <1>4, <1>5, <1>6, <2>1
  <2>3. QED  BY <2>2
<1> HIDE DEF Wrong, Sizes
<1>7. ASSUME x.todo # <<>>
      PROVE  /\ \A B \in SUBSET N : Answers(cfg, Onward(x, B), f[Onward(x, B)])
             /\ Head(x.todo) \notin x.grey => Answers(cfg, Deeper(cfg, x), f[Deeper(cfg, x)])
  <2>1. Deeper(cfg, x) \in D /\ \A B \in SUBSET N : Onward(x, B) \in D
    BY <1>5, <1>7, RoundHandsOn DEF Searchable, N
  <2>2. /\ \A B \in SUBSET N : ToVisit(N, K, Onward(x, B)) < ToVisit(N, K, x)
        /\ Head(x.todo) \notin x.grey => ToVisit(N, K, Deeper(cfg, x)) < ToVisit(N, K, x)
    BY <1>5, <1>7, RoundsFall DEF N
  <2>3. QED  BY <2>1, <2>2, <1>6
<1>8. Answers(cfg, x, Visit(cfg, f, x))
  BY <1>5, <1>7, RoundAnswers DEF N
<1>9. QED  BY <1>2, <1>4, <1>5, <1>8 DEF Wrong

\* The names of a configuration, in a list.
LEMMA AllNamesOf ==
    ASSUME NEW cfg, IsSeq(cfg.sources), IsSeq(cfg.processors), IsSeq(cfg.sinks)
    PROVE  IsSeq(AllNames(cfg)) /\ Range(AllNames(cfg)) = NodesOf(cfg) /\ IsFiniteSet(NodesOf(cfg))
<1> DEFINE both == cfg.sources \o cfg.processors
           all == both \o cfg.sinks
           q == AllNames(cfg)
<1>1. IsSeq(both) /\ NamesOf(both) = NamesOf(cfg.sources) \cup NamesOf(cfg.processors)
  BY RangeOfBoth, NamesOfBoth
<1> HIDE DEF both
<1>2. IsSeq(all) /\ NamesOf(all) = NodesOf(cfg)
  BY <1>1, RangeOfBoth, NamesOfBoth DEF NodesOf
<1>3. q = [i \in DOMAIN all |-> all[i].name]
  BY DEF AllNames, both
<1> HIDE DEF all, q
<1>4. IsSeq(q) /\ DOMAIN q = DOMAIN all
  BY <1>2, <1>3, MappedIsSeq
<1>5. Range(q) = NodesOf(cfg)
  BY <1>2, <1>3, <1>4 DEF Range, NamesOf
<1>6. IsFiniteSet(Range(q))
  <2>0. q \in [1 .. Len(q) -> Range(q)] /\ Len(q) \in Int /\ 1 \in Int /\ DOMAIN q = 1 .. Len(q)
    BY <1>4 DEF IsSeq
  <2>1. q \in Surjection(1 .. Len(q), Range(q))
    BY <2>0 DEF Surjection, Range
  <2>2. IsFiniteSet(1 .. Len(q))
    BY <2>0, FS_Interval, Zenon
  <2>3. QED  BY <2>1, <2>2, FS_Surjection
<1>7. QED  BY <1>4, <1>5, <1>6 DEF q

\* The search finds exactly the cycles: it ends without one if and only if no
\* node lies below itself, and then the graph falls into no part that feeds
\* itself all round.
LEMMA CycleFound ==
    ASSUME NEW cfg, IsSeq(cfg.sources), IsSeq(cfg.processors), IsSeq(cfg.sinks),
           \A n \in NodesOf(cfg) : ConsumersOf(cfg, n) \in Seq(NodesOf(cfg))
    PROVE  /\ ~DetectCycle(cfg) => Acyclic(cfg, NodesOf(cfg))
           /\ DetectCycle(cfg) => \E n \in NodesOf(cfg) : Below(cfg, n, n)
<1> DEFINE N == NodesOf(cfg)
           q == AllNames(cfg)
           root == [todo |-> q, grey |-> {}, black |-> {}]
           r == Searched(cfg, N)[root]
<1>1. IsSeq(q) /\ Range(q) = N /\ IsFiniteSet(N)
  BY AllNamesOf
<1>2. \E K : Searchable(cfg, N, K)
  <2> DEFINE len(i) == Len(ConsumersOf(cfg, q[i]))
             T == {k \in 0 .. Len(q) : \E K \in Nat : \A i \in 1 .. k : len(i) <= K}
  <2>1. Len(q) \in Nat /\ DOMAIN q = 1 .. Len(q) /\ \A i \in 1 .. Len(q) : q[i] \in N
    BY <1>1 DEF IsSeq, Range
  <2>2. \A i \in 1 .. Len(q) : len(i) \in Nat
    BY <2>1
  <2> HIDE DEF len, N
  <2>3. 0 \in T
    <3>1. 0 \in Nat /\ \A i \in 1 .. 0 : len(i) <= 0
      OBVIOUS
    <3>2. QED  BY <3>1, <2>1
  <2>4. ASSUME NEW k \in 0 .. Len(q) - 1, k \in T  PROVE k + 1 \in T
    <3>1. PICK K \in Nat : \A i \in 1 .. k : len(i) <= K
      BY <2>4
    <3>2. len(k + 1) \in Nat
      BY <2>1, <2>2
    <3>3. K + len(k + 1) \in Nat /\ \A i \in 1 .. k + 1 : len(i) <= K + len(k + 1)
      <4>1. ASSUME NEW i \in 1 .. k + 1  PROVE len(i) <= K + len(k + 1)
        <5>1. len(i) \in Nat
          BY <2>1, <2>2
        <5>2. i = k + 1 \/ i \in 1 .. k
          BY <2>1
        <5>3. QED  BY <5>1, <5>2, <3>1, <3>2
      <4>2. QED  BY <4>1, <3>2
    <3>4. k + 1 \in 0 .. Len(q)
      BY <2>1
    <3>5. QED  BY <3>3, <3>4
  <2>5. Len(q) \in T
    <3> HIDE DEF T
    <3>1. QED  BY <2>1, <2>3, <2>4, UpTo
  <2>6. PICK K \in Nat : \A i \in 1 .. Len(q) : len(i) <= K
    BY <2>5
  <2>7. \A n \in N : Len(ConsumersOf(cfg, n)) <= K
    BY <1>1, <2>1, <2>6 DEF len, Range
  <2>8. QED  BY <1>1, <2>6, <2>7 DEF Searchable, N
<1>3. DetectCycle(cfg) = r.cycle
  BY <1>1, Zenon DEF DetectCycle, Searched, Visits
<1>4. root \in Visits(N)
  BY <1>1 DEF Visits, IsSeq
<1>5. Answers(cfg, root, r)
  BY <1>2, <1>4, SearchAnswers
<1>6. Sound(cfg, root) /\ Leads(cfg, root)
  BY DEF Sound, Leads, Acyclic, Closed
<1>7. ASSUME ~r.cycle  PROVE Acyclic(cfg, N)
  <2>1. N \subseteq r.black /\ r.black \subseteq N /\ Acyclic(cfg, r.black)
    BY <1>1, <1>5, <1>6, <1>7 DEF Answers, Found
  <2>2. N = r.black
    BY <2>1
  <2>3. QED  BY <2>1, <2>2
<1>8. r.cycle => \E n \in N : Below(cfg, n, n)
  BY <1>5, <1>6 DEF Answers
<1>9. QED  BY <1>3, <1>7, <1>8

\* In a graph without a cycle no node lies below itself.
LEMMA NotBelowItself ==
    ASSUME NEW cfg, Acyclic(cfg, NodesOf(cfg)), NEW n \in NodesOf(cfg)
    PROVE  ~Below(cfg, n, n)
<1> DEFINE N == NodesOf(cfg)
           S == {m \in N : Below(cfg, m, n)}
<1>1. SUFFICES ASSUME n \in S PROVE FALSE
  OBVIOUS
<1>2. PICK m \in S : Feeds(cfg, m) \cap S = {}
  BY <1>1 DEF Acyclic
<1>3. Closed(cfg, N) /\ Feeds(cfg, m) \subseteq N
  BY DEF Acyclic, Closed
\* From each consumer of m there is a way round n; they make one round n from m.
<1> DEFINE Round(c) == {T \in SUBSET N : Closed(cfg, T) /\ Feeds(cfg, c) \subseteq T /\ n \notin T}
           Apart == {x \in N : \E c \in Feeds(cfg, m) : x = c \/ \E T \in Round(c) : x \in T}
<1>4. \A c \in Feeds(cfg, m) : Round(c) # {} /\ c # n
  BY <1>1, <1>2, <1>3 DEF Below
<1>5. Feeds(cfg, m) \subseteq Apart /\ n \notin Apart /\ Apart \in SUBSET N
  BY <1>3, <1>4
<1>6. ASSUME NEW x \in Apart, NEW y \in Feeds(cfg, x)
      PROVE  y \in Apart
  <2>1. y \in N
    BY <1>3, <1>6 DEF Closed
  <2>2. PICK c \in Feeds(cfg, m) : x = c \/ \E T \in Round(c) : x \in T
    BY <1>6
  <2>3. CASE x = c
    <3>1. PICK T : T \in Round(c)
      BY <1>4
    <3>2. y \in T
      BY <3>1, <2>3, <1>6
    <3>3. QED  BY <3>1, <3>2, <2>1
  <2>4. ASSUME NEW T \in Round(c), x \in T  PROVE y \in Apart
    <3>1. y \in T
      BY <2>4, <1>6 DEF Closed
    <3>2. QED  BY <3>1, <2>1
  <2>5. QED  BY <2>2, <2>3, <2>4
<1> HIDE DEF Apart
<1>7. Closed(cfg, Apart)
  BY <1>6 DEF Closed
<1>8. Below(cfg, m, n)
  OBVIOUS
<1>9. QED  BY <1>5, <1>7, <1>8 DEF Below

-----------------------------------------------------------------------------
(* What the loader accepts can be run.                                       *)

\* Its sources have an endpoint, everything else has an input, and its graph
\* has no cycle.
Runnable(cfg) ==
    /\ \A i \in DOMAIN cfg.sources : cfg.sources[i].resolved # None
    /\ \A i \in DOMAIN Consumers(cfg) : Consumers(cfg)[i].inputs # <<>>
    /\ Acyclic(cfg, NodesOf(cfg))

LEMMA LoadedRunnable ==
    ASSUME NEW doc, NEW env, Readable(doc), Load(doc, env).cfg # None
    PROVE  Runnable(Load(doc, env).cfg)
<1> DEFINE T == Typed(ResolveSecrets(doc, env))
           W == Load(doc, env).cfg
<1>1. /\ ShapeOk(doc) /\ ShapeOk(ResolveSecrets(doc, env)) /\ FirstBroken(T) = ""
      /\ W = WithEndpoints(T)
  BY LoadedIsTyped, Zenon
<1>2. /\ {"sources", "processors", "sinks", "resource_size"} \subseteq DOMAIN T
      /\ IsSeq(T.sources) /\ IsSeq(T.processors) /\ IsSeq(T.sinks)
      /\ \A i \in DOMAIN T.sources : SourceNumbers \cup {"name", "resolved"} \subseteq DOMAIN T.sources[i]
  BY <1>1, TypedLists, Zenon
<1>3. CfgOk(W)
  BY LoadedOk
<1> HIDE DEF T, W
<1>4. /\ \A i \in DOMAIN Consumers(T) : InputsOk(T, Consumers(T)[i])
      /\ ~DetectCycle(T) /\ \A i \in DOMAIN T.sources : SourceOk(T.sources[i])
  BY <1>1, RulesKept
<1>5. /\ W.sources = [i \in DOMAIN T.sources |-> Resolve(T.sources[i])]
      /\ W.processors = T.processors /\ W.sinks = T.sinks
  BY <1>1, <1>2 DEF WithEndpoints
<1>6. \A i \in DOMAIN T.sources : /\ Resolve(T.sources[i]).name = T.sources[i].name
                                  /\ Resolve(T.sources[i]).resolved # None
  BY <1>2, <1>4 DEF Resolve, SourceOk
<1>7. NamesOf(W.sources) = NamesOf(T.sources) /\ NodesOf(W) = NodesOf(T)
  <2>1. NamesOf(W.sources) = NamesOf(T.sources)
    BY <1>5, <1>6 DEF NamesOf
  <2>2. QED  BY <2>1, <1>5 DEF NodesOf
<1>8. Consumers(W) = Consumers(T) /\ \A n : ConsumersOf(W, n) = ConsumersOf(T, n)
  <2>1. Consumers(W) = Consumers(T)
    BY <1>5 DEF Consumers
  <2>2. QED  BY <2>1, Zenon DEF ConsumersOf
<1>9. ASSUME NEW n  PROVE ConsumersOf(T, n) \in Seq(NodesOf(T))
  <2>1. IsSeq(ConsumersOf(W, n)) /\ Range(ConsumersOf(W, n)) \subseteq NamesOf(Consumers(W))
    BY <1>3, ConsumersTyped
  <2>2. NamesOf(Consumers(W)) \subseteq NodesOf(W)
    BY <1>3, NamesOfBoth DEF CfgOk, Consumers, NodesOf
  <2>3. QED  BY <2>1, <2>2, <1>7, <1>8 DEF IsSeq
<1>10. Acyclic(T, NodesOf(T))
  BY <1>2, <1>4, <1>9, CycleFound
<1>11. Acyclic(W, NodesOf(W))
  <2>1. \A n : Feeds(W, n) = Feeds(T, n)
    BY <1>8 DEF Feeds
  <2>2. QED  BY <2>1, <1>7, <1>10 DEF Acyclic, Closed
<1>12. QED  BY <1>4, <1>5, <1>6, <1>8, <1>11 DEF Runnable, InputsOk, W

\* A list without elements.
LEMMA NothingListed ==
    ASSUME NEW q, IsSeq(q), Range(q) = {}
    PROVE  q = <<>>
BY DEF IsSeq, Range

\* Down from a source there is always a sink: among the nodes at or below the
\* source there is one that feeds none of them, so that it feeds nobody.
LEMMA SourceReachesSink ==
    ASSUME NEW cfg, CfgOk(cfg), Acyclic(cfg, NodesOf(cfg)), NEW s \in SourcesOf(cfg)
    PROVE  \E k \in SinksOf(cfg) : Below(cfg, s, k)
<1> DEFINE N == NodesOf(cfg)
           S == {s} \cup {m \in N : Below(cfg, s, m)}
<1>1. s \in N /\ S \in SUBSET N /\ S # {}
  BY DEF NodesOf, SourcesOf
<1>2. PICK m \in S : Feeds(cfg, m) \cap S = {}
  BY <1>1 DEF Acyclic
<1>3. ASSUME NEW c \in Feeds(cfg, m)  PROVE c \in S
  <2>1. c \in N
    BY <1>1, <1>2, <1>3 DEF Acyclic, Closed
  <2>2. Below(cfg, s, c)
    BY <1>2, <1>3 DEF Below, Closed
  <2>3. QED  BY <2>1, <2>2
<1>4. Feeds(cfg, m) = {}
  BY <1>2, <1>3
<1>5. ConsumersOf(cfg, m) = <<>>
  BY <1>4, ConsumersTyped, NothingListed DEF Feeds
<1>6. m \in SinksOf(cfg) /\ m # s
  <2>1. m \notin NamesOf(cfg.sources) \cup NamesOf(cfg.processors)
    BY <1>5 DEF CfgOk
  <2>2. QED  BY <1>1, <1>2, <2>1 DEF NodesOf, SinksOf, SourcesOf
<1>7. QED  BY <1>2, <1>6

\* Up from a sink or processor there is always a source: among the nodes below
\* no source there is one that none of them feeds, yet it has an input.
LEMMA ConsumerHasSource ==
    ASSUME NEW cfg, CfgOk(cfg), Runnable(cfg), NEW n \in NamesOf(Consumers(cfg))
    PROVE  \E s \in SourcesOf(cfg) : Below(cfg, s, n)
<1> DEFINE S == {m \in NamesOf(Consumers(cfg)) : \A s \in SourcesOf(cfg) : ~Below(cfg, s, m)}
<1>1. SUFFICES ASSUME n \in S PROVE FALSE
  OBVIOUS
<1>2. NamesOf(Consumers(cfg)) = NamesOf(cfg.processors) \cup NamesOf(cfg.sinks)
  BY NamesOfBoth DEF CfgOk, Consumers
<1>3. S \in SUBSET NodesOf(cfg)
  BY <1>2 DEF NodesOf
<1>4. PICK m \in S : \A p \in S : m \notin Feeds(cfg, p)
  BY <1>1, <1>3 DEF Runnable, Acyclic
<1>5. PICK k \in DOMAIN Consumers(cfg) : Consumers(cfg)[k].name = m
  BY <1>4 DEF NamesOf
<1>6. IsSeq(Consumers(cfg)[k].inputs) /\ Consumers(cfg)[k].inputs # <<>>
      /\ Range(Consumers(cfg)[k].inputs) \subseteq NamesOf(cfg.sources) \cup NamesOf(cfg.processors)
  BY DEF CfgOk, Runnable
<1>7. PICK p : p \in Range(Consumers(cfg)[k].inputs)
  BY <1>6, NothingListed
<1>8. m \in Feeds(cfg, p)
  BY <1>5, <1>7, ListedIsFed DEF Feeds
<1>9. CASE p \in NamesOf(cfg.sources)
  BY <1>4, <1>8, <1>9 DEF Below, SourcesOf
<1>10. CASE p \in NamesOf(cfg.processors)
  <2>1. PICK s \in SourcesOf(cfg) : Below(cfg, s, p)
    BY <1>2, <1>4, <1>8, <1>10
  <2>2. Below(cfg, s, m)
    BY <1>8, <2>1 DEF Below, Closed
  <2>3. QED  BY <1>4, <2>2
<1>11. QED  BY <1>6, <1>7, <1>9, <1>10

\* What validation accepts can be run, whatever the document: every source has
\* an endpoint and feeds some sink, every sink and processor is fed by some
\* source, and no node feeds itself through others, in which case its task
\* would wait for its own channel to close.
THEOREM PipelineAcceptedIsRunnable == Spec => []AcceptedIsRunnable
<1>1. ASSUME PipeInv  PROVE AcceptedIsRunnable
  <2> DEFINE N == SourceNames \cup ProcessorNames \cup SinkNames
             below(n) == Range(ConsumersOf(Cfg, n))
             closed == {S \in SUBSET N : \A m \in S : below(m) \subseteq S}
             after(n) == {m \in N : \A S \in closed : below(n) \subseteq S => m \in S}
  <2>1. SUFFICES ASSUME Cfg # None
                 PROVE  /\ \A s \in SourceNames : SourceCfg(s).resolved # None /\ after(s) \cap SinkNames # {}
                        /\ \A n \in SinkNames \cup ProcessorNames : /\ n \notin after(n)
                                                                    /\ \E s \in SourceNames : n \in after(s)
    BY Zenon DEF AcceptedIsRunnable
  <2>2. Surrounded /\ run.cfg # None /\ run.cfg = Wired
    BY <1>1, <2>1 DEF PipeInv, RunInv, Cfg
  <2>3. /\ CfgOk(Cfg) /\ SourceNames = NamesOf(Cfg.sources)
        /\ ProcessorNames = NamesOf(Cfg.processors) /\ SinkNames = NamesOf(Cfg.sinks)
    BY <2>2, CfgOfRun
  <2>4. Runnable(Cfg)
    <3>1. Readable(sc.doc)
      BY <2>2, ScenarioAssumption DEF Surrounded
    <3>2. Runnable(Load(sc.doc, sc.env).cfg)
      BY <3>1, <2>2, LoadedRunnable DEF Wired
    <3>3. QED  BY <3>2, <2>2 DEF Wired, Cfg
  <2>5. N = NodesOf(Cfg) /\ SourceNames = SourcesOf(Cfg) /\ SinkNames = SinksOf(Cfg)
    BY <2>3 DEF NodesOf, SourcesOf, SinksOf
  <2>6. \A n, m : m \in after(n) <=> m \in NodesOf(Cfg) /\ Below(Cfg, n, m)
    BY <2>5 DEF Below, Closed, Feeds
  <2> HIDE DEF after, N
  <2>7. ASSUME NEW s \in SourceNames
        PROVE  SourceCfg(s).resolved # None /\ after(s) \cap SinkNames # {}
    <3>1. \E c \in Range(Cfg.sources) : c.name = s
      BY <2>3 DEF NamesOf, Range
    <3>2. SourceCfg(s) \in Range(Cfg.sources)
      BY <3>1 DEF SourceCfg
    <3>3. SourceCfg(s).resolved # None
      BY <3>2, <2>4 DEF Runnable, Range
    <3>4. PICK k \in SinksOf(Cfg) : Below(Cfg, s, k)
      BY <2>3, <2>4, <2>5, SourceReachesSink DEF Runnable
    <3>5. k \in after(s)
      BY <3>4, <2>6 DEF NodesOf, SinksOf
    <3>6. QED  BY <3>3, <3>4, <3>5, <2>5
  <2>8. ASSUME NEW n \in SinkNames \cup ProcessorNames
        PROVE  n \notin after(n) /\ \E s \in SourceNames : n \in after(s)
    <3>1. n \in NodesOf(Cfg)
      BY <2>3 DEF NodesOf
    <3>2. ~Below(Cfg, n, n)
      BY <2>4, <3>1, NotBelowItself DEF Runnable
    <3>3. n \in NamesOf(Consumers(Cfg))
      BY <2>3, NamesOfBoth DEF CfgOk, Consumers
    <3>4. \E s \in SourcesOf(Cfg) : Below(Cfg, s, n)
      BY <2>3, <2>4, <3>3, ConsumerHasSource
    <3>5. QED  BY <2>5, <2>6, <3>1, <3>2, <3>4
  <2>9. QED  BY <2>7, <2>8
<1>2. QED  BY <1>1, PipeInvHolds, PTL


-----------------------------------------------------------------------------
(* What a range of blocks is cut into.                                       *)

\* The number of chunks is the one that covers the list, and no more.
LEMMA ChunksCover ==
    ASSUME NEW len \in Nat, NEW n \in Nat \ {0}
    PROVE  LET N == (len + n - 1) \div n IN
           N \in Nat /\ len <= N * n /\ \A i \in 1 .. N : (i - 1) * n \in Nat /\ i * n = (i - 1) * n + n /\ (i - 1) * n < len
<1> DEFINE a == len + n - 1
           N == a \div n
<1>1. a \in Nat
  OBVIOUS
<1> HIDE DEF a
<1>2. N \in Nat /\ n * N <= a /\ a < n * N + n
  BY <1>1
<1> HIDE DEF N
<1>3. N * n \in Nat /\ N * n = n * N
  BY <1>2
<1>4. len <= N * n /\ N * n < len + n
  BY <1>2, <1>3 DEF a
<1>5. ASSUME NEW i \in 1 .. N
      PROVE  (i - 1) * n \in Nat /\ i * n = (i - 1) * n + n /\ (i - 1) * n < len
  <2>1. i \in Nat /\ i - 1 \in Nat /\ i <= N
    BY <1>2
  <2>2. (i - 1) * n \in Nat /\ i * n = (i - 1) * n + n /\ i * n \in Nat
    BY <2>1
  <2>3. i * n <= N * n
    BY <2>1, <1>2
  <2>4. QED  BY <2>2, <2>3, <1>3, <1>4
<1>6. QED  BY <1>2, <1>4, <1>5 DEF N, a

\* One part of a list and the next one.
LEMMA TwoParts ==
    ASSUME NEW S, NEW s \in Seq(S), NEW a \in 0 .. Len(s), NEW b \in a .. Len(s)
    PROVE  /\ SubSeq(s, a + 1, b) \in Seq(S) /\ Len(SubSeq(s, a + 1, b)) = b - a
           /\ SubSeq(s, 1, a) \o SubSeq(s, a + 1, b) = SubSeq(s, 1, b)
OBVIOUS

\* The chunks of a list, none of them empty or too long, put behind one another
\* are the list.
LEMMA ChunksAreWhole ==
    ASSUME NEW seq, IsSeq(seq), NEW n \in Nat \ {0}
    PROVE  LET cs == Chunks(seq, n) IN
           /\ IsSeq(cs) /\ \A i \in DOMAIN cs : Len(cs[i]) \in 1 .. n
           /\ FlattenSeq(cs) = seq
<1> DEFINE S == Range(seq)
           L == Len(seq)
           N == (L + n - 1) \div n
           cs == Chunks(seq, n)
           to(i) == IF i * n < L THEN i * n ELSE L
<1>1. seq \in Seq(S) /\ L \in Nat
  BY DEF IsSeq
<1>2. N \in Nat /\ L <= N * n
      /\ \A i \in 1 .. N : (i - 1) * n \in Nat /\ i * n = (i - 1) * n + n /\ (i - 1) * n < L
  <2> HIDE DEF L
  <2>1. QED  BY <1>1, ChunksCover
<1>3. cs = [i \in 1 .. N |-> SubSeq(seq, (i - 1) * n + 1, to(i))]
  BY DEF Chunks
<1> HIDE DEF cs, N, L
<1>4. ASSUME NEW i \in 1 .. N
      PROVE  /\ (i - 1) * n \in 0 .. L /\ to(i) \in (i - 1) * n .. L
             /\ to(i) - (i - 1) * n \in 1 .. n
  BY <1>1, <1>2
<1>5. ASSUME NEW i \in 1 .. N
      PROVE  cs[i] \in Seq(S) /\ Len(cs[i]) \in 1 .. n
  <2>1. cs[i] = SubSeq(seq, (i - 1) * n + 1, to(i))
    BY <1>3
  <2> DEFINE a == (i - 1) * n
             b == to(i)
  <2>2. a \in 0 .. L /\ b \in a .. L /\ b - a \in 1 .. n
    BY <1>4
  <2>3. cs[i] = SubSeq(seq, a + 1, b)
    BY <2>1
  <2> HIDE DEF a, b
  <2>4. QED  BY <1>1, <2>2, <2>3, TwoParts DEF L
<1>6. cs \in Seq(Seq(S)) /\ Len(cs) = N /\ DOMAIN cs = 1 .. N
  <2>1. cs = [i \in 1 .. N |-> cs[i]]
    BY <1>3
  <2>2. QED  BY <2>1, <1>2, <1>5
<1>7. FlattenSeq(cs) = seq
  <2>1. PICK f : /\ FlattenSeq(cs) = IF N = 0 THEN cs ELSE f[N]
                 /\ \A i \in 1 .. N : f[i] = IF i = 1 THEN cs[i] ELSE f[i - 1] \o cs[i]
    BY <1>6, FlattenRecurs
  <2> DEFINE T == {k \in 0 .. N : k = 0 \/ f[k] = SubSeq(seq, 1, to(k))}
  <2>2. 0 \in T
    BY <1>2
  <2>3. ASSUME NEW k \in 0 .. N - 1, k \in T  PROVE k + 1 \in T
    <3>1. k \in Nat /\ k + 1 \in 1 .. N /\ k + 1 \in 0 .. N /\ (k + 1) - 1 = k
      BY <1>2
    <3> DEFINE a == k * n
               b == to(k + 1)
    <3>2. a \in 0 .. L /\ b \in a .. L /\ cs[k + 1] = SubSeq(seq, a + 1, b) /\ a < L
      BY <3>1, <1>2, <1>3, <1>4
    <3>3. f[k + 1] = IF k + 1 = 1 THEN cs[k + 1] ELSE f[k] \o cs[k + 1]
      BY <3>1, <2>1
    <3>4. CASE k = 0
      <4>1. a = 0 /\ k + 1 = 1
        BY <3>4
      <4>2. f[k + 1] = SubSeq(seq, 1, b)
        <5> HIDE DEF a, b
        <5>1. f[k + 1] = SubSeq(seq, a + 1, b) /\ a + 1 = 1
          BY <4>1, <3>2, <3>3
        <5>2. QED  BY <5>1
      <4>3. QED  BY <4>2, <3>1
    <3>5. CASE k # 0
      <4>1. k + 1 # 1
        <5>1. k \in Nat /\ k # 0 => k + 1 # 1
          OBVIOUS
        <5>2. QED  BY <5>1, <3>1, <3>5
      <4>2. f[k] = SubSeq(seq, 1, a)
        BY <2>3, <3>2, <3>5
      <4> HIDE DEF a, b, to
      <4>3. f[k + 1] = SubSeq(seq, 1, a) \o SubSeq(seq, a + 1, b)
        BY <3>2, <3>3, <4>1, <4>2
      <4>4. f[k + 1] = SubSeq(seq, 1, b)
        BY <1>1, <3>2, <4>3, TwoParts DEF L
      <4>5. QED  BY <3>1, <4>4 DEF b
    <3>6. QED  BY <3>4, <3>5
  <2>4. N \in T
    <3> HIDE DEF T
    <3>1. QED  BY <1>2, <2>2, <2>3, UpTo
  <2>5. CASE N = 0
    <3>1. L = 0
      BY <1>1, <1>2, <2>5
    <3>2. cs = <<>> /\ seq = <<>>
      BY <1>1, <1>6, <2>5, <3>1 DEF L
    <3>3. QED  BY <2>1, <2>5, <3>2
  <2>6. CASE N # 0
    <3>1. to(N) = L
      BY <1>1, <1>2
    <3>2. f[N] = SubSeq(seq, 1, L)
      BY <2>4, <2>6, <3>1
    <3>3. SubSeq(seq, 1, L) = seq
      BY <1>1 DEF L
    <3>4. QED  BY <2>1, <2>6, <3>2, <3>3
  <2>7. QED  BY <2>5, <2>6
<1>8. IsSeq(cs)
  BY <1>6, SeqIsSeq
<1>9. QED  BY <1>5, <1>6, <1>7, <1>8 DEF cs

\* The batches HyperSyncSource::run makes of a range, for any records and any
\* limit: they hold the records, each once and in order, none is empty or above
\* the limit, no two have the same id, and only the last one acks the end of the
\* range, the others its start: a crash between them loses no record.
THEOREM RangeBatchesAreWhole ==
    ASSUME NEW source, NEW chain, NEW cursor \in Nat, NEW next, NEW records, IsSeq(records), NEW max \in Nat \ {0}
    PROVE  LET q == RangeBatches(source, chain, cursor, next, records, max) IN
           /\ FlattenSeq([i \in DOMAIN q |-> q[i].records]) = records
           /\ \A i \in DOMAIN q : Len(q[i].records) \in 1 .. max
           /\ \A i, j \in DOMAIN q : q[i].batch_id = q[j].batch_id => i = j
           /\ \A i \in DOMAIN q : AckBlock(q[i]) = IF i = Len(q) THEN next ELSE cursor
<1> DEFINE q == RangeBatches(source, chain, cursor, next, records, max)
           cs == Chunks(records, max)
           N == Len(cs)
<1>1. /\ IsSeq(cs) /\ \A i \in DOMAIN cs : Len(cs[i]) \in 1 .. max
      /\ FlattenSeq(cs) = records
  BY ChunksAreWhole, Zenon
<1>2. q = [i \in DOMAIN cs |-> [NewBatch(source, chain, cursor, next, i - 1, "log", cs[i])
                                   EXCEPT !.ack_block = IF i < N THEN cursor ELSE None]]
  BY DEF RangeBatches
<1> HIDE DEF cs, q
<1>3. N \in Nat /\ DOMAIN cs = 1 .. N
  BY <1>1 DEF IsSeq
<1>4. DOMAIN q = 1 .. N /\ Len(q) = N
  BY <1>2, <1>3
<1> HIDE DEF N
<1>5. ASSUME NEW i \in 1 .. N
      PROVE  /\ q[i].records = cs[i] /\ q[i].batch_id = <<source, cursor, next, i - 1>>
             /\ q[i].ack_block = (IF i < N THEN cursor ELSE None) /\ q[i].to = next
  <2> DEFINE a == IF i < N THEN cursor ELSE None
             id == MakeBatchId(source, cursor, next, i - 1)
             recs == cs[i]
  <2>1. q[i] = [NewBatch(source, chain, cursor, next, i - 1, "log", recs) EXCEPT !.ack_block = a]
    BY <1>2, <1>3
  <2> HIDE DEF a, recs, id
  <2>2. q[i] = [batch_id |-> id, source |-> source, chain_id |-> chain, from |-> cursor, to |-> next,
                ack_block |-> a, kind |-> "log", records |-> recs, control |-> None]
    BY <2>1 DEF NewBatch, id
  <2>3. q[i].records = recs /\ q[i].batch_id = id /\ q[i].ack_block = a /\ q[i].to = next
    BY <2>2
  <2>4. QED  BY <2>3 DEF MakeBatchId, a, recs, id
<1>6. [i \in DOMAIN q |-> q[i].records] = cs
  <2>1. cs = [i \in 1 .. N |-> cs[i]]
    BY <1>1, <1>3 DEF IsSeq
  <2>2. QED  BY <2>1, <1>4, <1>5
<1>7. \A i \in 1 .. N : AckBlock(q[i]) = IF i = N THEN next ELSE cursor
  <2>1. cursor # None
    BY NoneAssumption
  <2>2. \A i \in 1 .. N : i < N \/ i = N
    BY <1>3
  <2>3. \A i \in 1 .. N : ~(i < N /\ i = N)
    BY <1>3
  <2>4. QED  BY <1>5, <2>1, <2>2, <2>3 DEF AckBlock, Or
<1>8. ASSUME NEW i \in 1 .. N, NEW j \in 1 .. N, q[i].batch_id = q[j].batch_id
      PROVE  i = j
  <2>1. <<source, cursor, next, i - 1>> = <<source, cursor, next, j - 1>>
    BY <1>5, <1>8
  <2>2. i - 1 = j - 1
    BY <2>1
  <2>3. QED  BY <2>2, <1>3
<1>9. QED  BY <1>1, <1>3, <1>4, <1>5, <1>6, <1>7, <1>8 DEF q


-----------------------------------------------------------------------------
(* How the filter compares numbers.                                          *)

\* Digits read from the left: the numbers that longer and longer parts of them
\* stand for.
Reading(d, val) ==
    /\ val \in [0 .. Len(d) -> Nat] /\ val[0] = 0
    /\ \A i \in 1 .. Len(d) : val[i] = 10 * val[i - 1] + d[i]
Stands(d, m) == \E val : Reading(d, val) /\ m = val[Len(d)]

\* One digit more.
LEMMA NextDigit ==
    ASSUME NEW x \in Nat, NEW y \in Nat, NEW c \in 0 .. 9, NEW d \in 0 .. 9, x < y \/ (x = y /\ c < d)
    PROVE  10 * x + c < 10 * y + d
OBVIOUS

\* Any digits stand for a number.
LEMMA AllStand ==
    ASSUME NEW d \in Seq(0 .. 9)
    PROVE  \E m \in Nat : Stands(d, m)
<1> DEFINE L == Len(d)
           Read(k, val) == val \in [0 .. k -> Nat] /\ val[0] = 0 /\ \A i \in 1 .. k : val[i] = 10 * val[i - 1] + d[i]
           T == {k \in 0 .. L : \E val : Read(k, val)}
<1>1. L \in Nat /\ \A i \in 1 .. L : d[i] \in Nat
  OBVIOUS
<1>2. 0 \in T
  <2>1. Read(0, [i \in 0 .. 0 |-> 0])
    OBVIOUS
  <2> HIDE DEF Read, L
  <2>2. QED  BY <1>1, <2>1
<1>3. ASSUME NEW k \in 0 .. L - 1, k \in T  PROVE k + 1 \in T
  <2>1. PICK val : Read(k, val)
    BY <1>3
  <2>2. k \in Nat /\ k + 1 \in 0 .. L /\ d[k + 1] \in Nat
    BY <1>1
  <2> DEFINE more == [i \in 0 .. k + 1 |-> IF i = k + 1 THEN 10 * val[k] + d[k + 1] ELSE val[i]]
  <2> HIDE DEF L
  <2>3. more \in [0 .. k + 1 -> Nat] /\ more[0] = 0
    BY <2>1, <2>2
  <2>4. ASSUME NEW i \in 1 .. k + 1  PROVE more[i] = 10 * more[i - 1] + d[i]
    <3>1. i \in 0 .. k + 1 /\ i - 1 \in 0 .. k /\ i - 1 \in 0 .. k + 1 /\ i - 1 # k + 1
      BY <2>2
    <3>2. more[i - 1] = val[i - 1] /\ more[i] = IF i = k + 1 THEN 10 * val[k] + d[k + 1] ELSE val[i]
      BY <3>1
    <3>3. CASE i = k + 1
      <4>1. i - 1 = k
        BY <2>2, <3>3
      <4>2. QED  BY <3>2, <3>3, <4>1
    <3>4. CASE i # k + 1
      <4>1. i \in 1 .. k
        BY <2>2, <3>4
      <4> HIDE DEF more
      <4>2. QED  BY <2>1, <3>2, <3>4, <4>1
    <3>5. QED  BY <3>3, <3>4
  <2> HIDE DEF more
  <2>5. Read(k + 1, more)
    BY <2>3, <2>4
  <2>6. QED  BY <2>2, <2>5
<1>4. L \in T
  <2> HIDE DEF T, L
  <2>1. QED  BY <1>1, <1>2, <1>3, UpTo
<1>5. PICK val : Read(L, val)
  BY <1>4
<1>6. Reading(d, val) /\ val[L] \in Nat
  BY <1>1, <1>5 DEF Reading
<1>7. QED  BY <1>6 DEF Stands

\* Who is ahead at some place stays ahead to the end, if as much follows.
LEMMA AheadStaysAhead ==
    ASSUME NEW a \in Seq(0 .. 9), NEW b \in Seq(0 .. 9), NEW va, NEW vb, Reading(a, va), Reading(b, vb),
           NEW e \in Nat, Len(b) = Len(a) + e, NEW i \in 0 .. Len(a), va[i] < vb[i + e]
    PROVE  va[Len(a)] < vb[Len(b)]
<1> DEFINE L == Len(a)
           T == {k \in 0 .. L - i : va[i + k] < vb[i + k + e]}
<1>1. L \in Nat /\ i \in Nat /\ i <= L /\ L - i \in Nat
  OBVIOUS
<1>2. 0 \in T
  BY <1>1
<1>3. ASSUME NEW k \in 0 .. (L - i) - 1, k \in T  PROVE k + 1 \in T
  <2> DEFINE j == i + k
  <2>1. j \in Nat /\ j + 1 \in 1 .. L /\ j \in 0 .. L /\ j + e \in 0 .. Len(b) /\ (j + e) + 1 \in 1 .. Len(b)
    BY <1>1
  <2>2. va[j] \in Nat /\ vb[j + e] \in Nat /\ va[j] < vb[j + e]
    BY <1>3, <2>1 DEF Reading
  <2>3. va[j + 1] = 10 * va[j] + a[j + 1] /\ a[j + 1] \in 0 .. 9
    <3>1. (j + 1) - 1 = j
      BY <2>1
    <3>2. QED  BY <2>1, <3>1 DEF Reading
  <2>4. vb[(j + e) + 1] = 10 * vb[j + e] + b[(j + e) + 1] /\ b[(j + e) + 1] \in 0 .. 9
    <3>1. ((j + e) + 1) - 1 = j + e
      BY <2>1
    <3>2. QED  BY <2>1, <3>1 DEF Reading
  <2>5. va[j + 1] < vb[(j + e) + 1]
    BY <2>2, <2>3, <2>4, NextDigit
  <2>6. k + 1 \in 0 .. L - i /\ i + (k + 1) = j + 1 /\ i + (k + 1) + e = (j + e) + 1
    BY <1>1
  <2> HIDE DEF j
  <2>7. QED  BY <2>5, <2>6
<1>4. L - i \in T
  <2> HIDE DEF T, L
  <2>1. QED  BY <1>1, <1>2, <1>3, UpTo
<1>5. i + (L - i) = L /\ i + (L - i) + e = Len(b)
  BY <1>1
<1>6. QED  BY <1>4, <1>5

\* Parts that are the same stand for the same.
LEMMA SameSoFar ==
    ASSUME NEW a \in Seq(0 .. 9), NEW b \in Seq(0 .. 9), NEW va, NEW vb, Reading(a, va), Reading(b, vb),
           NEW n \in Nat, n <= Len(a), n <= Len(b), \A j \in 1 .. n : a[j] = b[j]
    PROVE  va[n] = vb[n]
<1> DEFINE T == {k \in 0 .. n : va[k] = vb[k]}
<1>1. 0 \in T
  BY DEF Reading
<1>2. ASSUME NEW k \in 0 .. n - 1, k \in T  PROVE k + 1 \in T
  <2>1. k + 1 \in 1 .. Len(a) /\ k + 1 \in 1 .. Len(b) /\ k + 1 \in 1 .. n /\ (k + 1) - 1 = k /\ k + 1 \in 0 .. n
    OBVIOUS
  <2>2. va[k + 1] = 10 * va[k] + a[k + 1] /\ vb[k + 1] = 10 * vb[k] + b[k + 1]
    BY <2>1 DEF Reading
  <2>3. va[k] = vb[k] /\ a[k + 1] = b[k + 1]
    BY <1>2, <2>1
  <2>4. QED  BY <2>1, <2>2, <2>3
<1>3. n \in T
  <2> HIDE DEF T
  <2>1. QED  BY <1>1, <1>2, UpTo
<1>4. QED  BY <1>3

\* Digits none of which leads as a zero.
Trimmed(d) == d \in Seq(0 .. 9) /\ (d # <<>> => d[1] # 0)

\* Without leading zeros, the order by length and then as text is that of numbers.
LEMMA LessIsLess ==
    ASSUME NEW a, NEW b, Trimmed(a), Trimmed(b), NEW m, NEW n, Stands(a, m), Stands(b, n), LessMagnitude(a, b)
    PROVE  m < n
<1>1. PICK va : Reading(a, va) /\ m = va[Len(a)]
  BY DEF Stands
<1>2. PICK vb : Reading(b, vb) /\ n = vb[Len(b)]
  BY DEF Stands
<1>3. a \in Seq(0 .. 9) /\ b \in Seq(0 .. 9) /\ Len(a) \in Nat /\ Len(b) \in Nat
  BY DEF Trimmed
<1>4. CASE Len(a) < Len(b)
  <2> DEFINE e == Len(b) - Len(a)
  <2>1. e \in Nat /\ e >= 1 /\ Len(b) = Len(a) + e /\ e <= Len(b)
    BY <1>3, <1>4
  <2>2. b[1] \in 1 .. 9 /\ vb[1] = 10 * vb[0] + b[1] /\ vb[0] = 0
    <3>1. 1 \in 1 .. Len(b) /\ 1 - 1 = 0 /\ b # <<>>
      BY <1>3, <1>4
    <3>2. b[1] \in 0 .. 9 /\ b[1] # 0
      BY <1>3, <3>1 DEF Trimmed
    <3>3. vb[1] = 10 * vb[1 - 1] + b[1]
      BY <1>2, <3>1 DEF Reading
    <3>4. QED  BY <1>2, <3>1, <3>2, <3>3 DEF Reading
  \* From its first digit on the longer one stands for more than nothing.
  <2> DEFINE T == {k \in 0 .. e - 1 : vb[k + 1] > 0}
  <2>3. e - 1 \in Nat
    BY <2>1
  <2>4. 0 \in T
    BY <2>2, <2>3
  <2>5. ASSUME NEW k \in 0 .. (e - 1) - 1, k \in T  PROVE k + 1 \in T
    <3>1. k \in Nat /\ k + 1 \in 0 .. e - 1 /\ k + 1 \in 0 .. Len(b) /\ (k + 1) + 1 \in 1 .. Len(b) /\ ((k + 1) + 1) - 1 = k + 1
      BY <2>1, <1>3
    <3>2. vb[(k + 1) + 1] = 10 * vb[k + 1] + b[(k + 1) + 1] /\ b[(k + 1) + 1] \in 0 .. 9 /\ vb[k + 1] \in Nat
      BY <1>2, <1>3, <3>1 DEF Reading
    <3>3. vb[k + 1] > 0
      BY <2>5
    <3>4. vb[(k + 1) + 1] > 0
      BY <3>2, <3>3
    <3>5. QED  BY <3>1, <3>4
  <2>6. e - 1 \in T
    <3> HIDE DEF T, e
    <3>1. QED  BY <2>3, <2>4, <2>5, UpTo
  <2>7. va[0] < vb[0 + e]
    <3>1. (e - 1) + 1 = e /\ 0 + e = e
      BY <2>1
    <3>2. va[0] = 0
      BY <1>1 DEF Reading
    <3> HIDE DEF e
    <3>3. QED  BY <2>6, <3>1, <3>2
  <2>8. 0 \in 0 .. Len(a)
    BY <1>3
  <2> HIDE DEF e
  <2>9. QED  BY <1>1, <1>2, <1>3, <2>1, <2>7, <2>8, AheadStaysAhead
<1>5. CASE Len(a) = Len(b) /\ \E i \in DOMAIN a : a[i] < b[i] /\ \A j \in 1 .. i - 1 : a[j] = b[j]
  <2>1. PICK i \in 1 .. Len(a) : a[i] < b[i] /\ \A j \in 1 .. i - 1 : a[j] = b[j]
    BY <1>3, <1>5
  <2>2. i - 1 \in Nat /\ i - 1 <= Len(a) /\ i - 1 <= Len(b) /\ i \in 1 .. Len(b) /\ i \in 0 .. Len(a)
    BY <1>3, <1>5
  <2>3. va[i - 1] = vb[i - 1]
    BY <1>1, <1>2, <1>3, <2>1, <2>2, SameSoFar
  <2>4. /\ va[i] = 10 * va[i - 1] + a[i] /\ vb[i] = 10 * vb[i - 1] + b[i]
        /\ a[i] \in 0 .. 9 /\ b[i] \in 0 .. 9
    BY <1>1, <1>2, <1>3, <2>1, <2>2 DEF Reading
  <2>5. va[i - 1] \in Nat
    BY <1>1, <2>2 DEF Reading
  <2>6. va[i] < vb[i + 0]
    <3>1. i + 0 = i
      BY <2>2
    <3>2. va[i] < vb[i]
      BY <2>1, <2>3, <2>4, <2>5, NextDigit
    <3>3. QED  BY <3>1, <3>2
  <2>7. 0 \in Nat /\ Len(b) = Len(a) + 0
    BY <1>3, <1>5
  <2>8. QED  BY <1>1, <1>2, <1>3, <2>2, <2>6, <2>7, AheadStaysAhead
<1>6. QED  BY <1>4, <1>5 DEF LessMagnitude

\* Of two lists of digits one is less, or they are the same.
LEMMA OneIsLess ==
    ASSUME NEW a \in Seq(0 .. 9), NEW b \in Seq(0 .. 9)
    PROVE  LessMagnitude(a, b) \/ LessMagnitude(b, a) \/ a = b
<1>1. Len(a) \in Nat /\ Len(b) \in Nat /\ DOMAIN a = 1 .. Len(a) /\ DOMAIN b = 1 .. Len(b)
  OBVIOUS
<1>2. CASE Len(a) # Len(b)
  <2>1. Len(a) < Len(b) \/ Len(b) < Len(a)
    <3>1. \A x, y \in Nat : x # y => x < y \/ y < x
      OBVIOUS
    <3>2. QED  BY <1>1, <1>2, <3>1
  <2>2. QED  BY <2>1 DEF LessMagnitude
<1>3. CASE Len(a) = Len(b)
  <2> DEFINE D == {i \in 1 .. Len(a) : a[i] # b[i]}
  <2>1. CASE D = {}
    <3>1. \A i \in 1 .. Len(a) : a[i] = b[i]
      BY <2>1
    <3>2. a = b
      BY <1>1, <1>3, <3>1
    <3>3. QED  BY <3>2
  <2>2. CASE D # {}
    <3>1. D \subseteq Nat
      BY <1>1
    <3>2. PICK i \in D : \A k \in D : i <= k
      <4> HIDE DEF D
      <4>1. QED  BY <2>2, <3>1, LeastNatural
    <3>3. i \in 1 .. Len(a) /\ a[i] # b[i] /\ a[i] \in 0 .. 9 /\ b[i] \in 0 .. 9
      BY <1>1, <1>3
    <3>4. \A j \in 1 .. i - 1 : a[j] = b[j]
      BY <1>1, <3>2, <3>3
    <3>5. a[i] < b[i] \/ b[i] < a[i]
      BY <3>3
    <3>6. QED  BY <1>1, <1>3, <3>3, <3>4, <3>5 DEF LessMagnitude
  <2>3. QED  BY <2>1, <2>2
<1>4. QED  BY <1>2, <1>3

\* The same digits stand for one number.
LEMMA StandsForOne ==
    ASSUME NEW d \in Seq(0 .. 9), NEW m, NEW n, Stands(d, m), Stands(d, n)
    PROVE  m = n
<1>1. PICK va : Reading(d, va) /\ m = va[Len(d)]
  BY DEF Stands
<1>2. PICK vb : Reading(d, vb) /\ n = vb[Len(d)]
  BY DEF Stands
<1>3. Len(d) \in Nat /\ Len(d) <= Len(d)
  OBVIOUS
<1>4. QED  BY <1>1, <1>2, <1>3, SameSoFar


\* Without its leading zeros a list stands for the number it did, and is empty
\* only for zero.
LEMMA TrimmedStands ==
    ASSUME NEW v, v.digits \in Seq(0 .. 9), NEW m, Stands(v.digits, m)
    PROVE  LET t == SplitSign(v).mag IN
           /\ Trimmed(t) /\ Stands(t, m) /\ m \in Nat
           /\ SplitSign(v).neg = (v.neg /\ t # <<>>)
<1> DEFINE d == v.digits
           L == Len(d)
           nonzero == {i \in DOMAIN d : d[i] # 0}
           t == SplitSign(v).mag
<1>1. /\ SplitSign(v).neg = (v.neg /\ nonzero # {})
      /\ t = IF nonzero = {} THEN <<>> ELSE SubSeq(d, Min(nonzero), L)
  BY DEF SplitSign
<1>2. d \in Seq(0 .. 9) /\ L \in Nat /\ DOMAIN d = 1 .. L /\ Stands(d, m)
  OBVIOUS
<1> HIDE DEF d, t
<1>3. PICK val : Reading(d, val) /\ m = val[L]
  BY <1>2 DEF Stands
<1>4. m \in Nat
  BY <1>2, <1>3 DEF Reading
\* Up to the first digit that is not zero there is nothing.
<1>5. ASSUME NEW z \in 0 .. L, \A i \in 1 .. z : d[i] = 0
      PROVE  val[z] = 0
  <2> DEFINE T == {k \in 0 .. z : val[k] = 0}
  <2>1. 0 \in T
    BY <1>2, <1>3 DEF Reading
  <2>2. ASSUME NEW k \in 0 .. z - 1, k \in T  PROVE k + 1 \in T
    <3>1. k + 1 \in 1 .. L /\ k + 1 \in 1 .. z /\ k + 1 \in 0 .. z /\ (k + 1) - 1 = k
      BY <1>2
    <3>2. val[k + 1] = 10 * val[k] + d[k + 1] /\ d[k + 1] = 0 /\ val[k] = 0
      BY <1>3, <1>5, <2>2, <3>1 DEF Reading
    <3>3. QED  BY <3>1, <3>2
  <2>3. z \in Nat
    BY <1>2
  <2>4. z \in T
    <3> HIDE DEF T
    <3>1. QED  BY <2>1, <2>2, <2>3, UpTo
  <2>5. QED  BY <2>4
<1>6. CASE nonzero = {}
  <2>1. \A i \in 1 .. L : d[i] = 0
    BY <1>2, <1>6
  <2>2. m = 0
    BY <1>2, <1>3, <1>5, <2>1
  <2>3. t = <<>> /\ Trimmed(t)
    BY <1>1, <1>6 DEF Trimmed
  <2>4. Reading(<<>>, [i \in 0 .. 0 |-> 0]) /\ Len(<<>>) = 0
    BY DEF Reading
  <2>5. Stands(<<>>, 0)
    BY <2>4 DEF Stands
  <2>6. QED  BY <1>1, <1>4, <1>6, <2>2, <2>3, <2>5 DEF t
<1>7. CASE nonzero # {}
  <2> DEFINE z == Min(nonzero)
  <2>1. z \in nonzero /\ \A k \in nonzero : z <= k
    <3>1. nonzero \subseteq Nat
      BY <1>2
    <3> HIDE DEF nonzero
    <3>2. \E x \in nonzero : \A k \in nonzero : x <= k
      BY <1>7, <3>1, LeastNatural
    <3>3. QED  BY <3>2 DEF Min
  <2> HIDE DEF z
  <2>2. z \in 1 .. L /\ d[z] # 0 /\ \A i \in 1 .. z - 1 : d[i] = 0
    <3>1. z \in 1 .. L /\ d[z] # 0
      BY <1>2, <2>1
    <3>2. ASSUME NEW i \in 1 .. z - 1  PROVE d[i] = 0
      <4>1. i \in 1 .. L /\ ~(z <= i)
        BY <1>2, <3>1
      <4>2. i \notin nonzero
        BY <2>1, <4>1
      <4>3. QED  BY <1>2, <4>1, <4>2
    <3>3. QED  BY <3>1, <3>2
  <2>3. val[z - 1] = 0
    <3>1. z - 1 \in 0 .. L
      BY <1>2, <2>2
    <3>2. QED  BY <1>5, <2>2, <3>1
  <2>4. t = SubSeq(d, z, L)
    BY <1>1, <1>7 DEF z
  <2>5. /\ t \in Seq(0 .. 9) /\ Len(t) = L - (z - 1)
        /\ \A i \in 1 .. Len(t) : t[i] = d[(z - 1) + i]
    BY <1>2, <2>2, <2>4
  <2>6. Trimmed(t) /\ t # <<>>
    <3>1. 1 \in 1 .. Len(t) /\ (z - 1) + 1 = z
      BY <1>2, <2>2, <2>5
    <3>2. t[1] # 0
      BY <2>2, <2>5, <3>1
    <3>3. QED  BY <2>5, <3>1, <3>2 DEF Trimmed
  <2> DEFINE rest == [i \in 0 .. Len(t) |-> val[(z - 1) + i]]
  <2>7. Reading(t, rest) /\ rest[Len(t)] = m
    <3>1. Len(t) \in Nat /\ z - 1 \in Nat /\ (z - 1) + Len(t) = L /\ (z - 1) + 0 = z - 1
      BY <1>2, <2>2, <2>5
    <3>2. rest \in [0 .. Len(t) -> Nat] /\ rest[0] = 0
      <4>1. ASSUME NEW i \in 0 .. Len(t)  PROVE val[(z - 1) + i] \in Nat
        <5>1. (z - 1) + i \in 0 .. L
          BY <3>1
        <5>2. QED  BY <1>3, <5>1 DEF Reading
      <4>2. 0 \in 0 .. Len(t)
        BY <3>1
      <4>3. QED  BY <2>3, <3>1, <4>1, <4>2
    <3>3. ASSUME NEW i \in 1 .. Len(t)  PROVE rest[i] = 10 * rest[i - 1] + t[i]
      <4>1. /\ i \in 0 .. Len(t) /\ i - 1 \in 0 .. Len(t) /\ (z - 1) + i \in 1 .. L
            /\ ((z - 1) + i) - 1 = (z - 1) + (i - 1)
        BY <3>1
      <4>2. val[(z - 1) + i] = 10 * val[(z - 1) + (i - 1)] + d[(z - 1) + i]
        BY <1>3, <4>1 DEF Reading
      <4>3. rest[i] = val[(z - 1) + i] /\ rest[i - 1] = val[(z - 1) + (i - 1)]
        BY <4>1
      <4>4. t[i] = d[(z - 1) + i]
        BY <2>5
      <4> HIDE DEF rest
      <4>5. QED  BY <4>2, <4>3, <4>4
    <3>4. rest[Len(t)] = m
      BY <1>3, <3>1
    <3> HIDE DEF rest
    <3>5. QED  BY <3>2, <3>3, <3>4 DEF Reading
  <2> HIDE DEF rest
  <2>8. Stands(t, m)
    BY <2>7 DEF Stands
  <2>9. QED  BY <1>1, <1>4, <1>7, <2>6, <2>8 DEF t
<1>8. QED  BY <1>6, <1>7

\* Only zero is left without a digit.
LEMMA ZeroIsEmpty ==
    ASSUME NEW t, Trimmed(t), NEW m, Stands(t, m)
    PROVE  m \in Nat /\ (t = <<>> <=> m = 0)
<1>1. Reading(<<>>, [i \in 0 .. 0 |-> 0]) /\ Len(<<>>) = 0 /\ Trimmed(<<>>) /\ <<>> \in Seq(0 .. 9)
  BY DEF Reading, Trimmed
<1>2. Stands(<<>>, 0)
  BY <1>1 DEF Stands
<1>3. m \in Nat
  <2>1. Len(t) \in Nat
    BY DEF Trimmed
  <2>2. QED  BY <2>1 DEF Stands, Reading
<1>4. CASE t = <<>>
  BY <1>1, <1>2, <1>3, <1>4, StandsForOne
<1>5. CASE t # <<>>
  <2>1. Len(<<>>) < Len(t)
    <3>1. t \in Seq(0 .. 9)
      BY DEF Trimmed
    <3>2. QED  BY <1>5, <3>1
  <2>2. 0 < m
    BY <1>1, <1>2, <2>1, LessIsLess DEF LessMagnitude
  <2>3. QED  BY <1>3, <1>5, <2>2
<1>6. QED  BY <1>4, <1>5

\* cmp_decimal orders numbers, of any length and either sign, written with or
\* without leading zeros, as integers: it never reads a value longer than a u64
\* as a smaller one, minus zero is zero, and values compare as equal exactly if
\* they are.
THEOREM FilterOrderIsNumeric ==
    ASSUME NEW x, NEW y, x.digits \in Seq(0 .. 9), y.digits \in Seq(0 .. 9), x.neg \in BOOLEAN, y.neg \in BOOLEAN,
           NEW m, NEW n, Stands(x.digits, m), Stands(y.digits, n)
    PROVE  LET a == IF x.neg THEN 0 - m ELSE m
               b == IF y.neg THEN 0 - n ELSE n
           IN  /\ LessDecimal(x, y) <=> a < b
               /\ SplitSign(x) = SplitSign(y) <=> a = b
<1> DEFINE p == SplitSign(x)
           q == SplitSign(y)
           a == IF x.neg THEN 0 - m ELSE m
           b == IF y.neg THEN 0 - n ELSE n
<1>1. Trimmed(p.mag) /\ Stands(p.mag, m) /\ m \in Nat /\ p.neg = (x.neg /\ p.mag # <<>>)
  BY TrimmedStands, Zenon
<1>2. Trimmed(q.mag) /\ Stands(q.mag, n) /\ n \in Nat /\ q.neg = (y.neg /\ q.mag # <<>>)
  BY TrimmedStands, Zenon
<1>3. (p.mag = <<>> <=> m = 0) /\ (q.mag = <<>> <=> n = 0)
  BY <1>1, <1>2, ZeroIsEmpty
<1>4. p.neg \in BOOLEAN /\ q.neg \in BOOLEAN
  BY <1>1, <1>2
<1>5. p = [neg |-> p.neg, mag |-> p.mag] /\ q = [neg |-> q.neg, mag |-> q.mag]
  BY DEF SplitSign
<1>6. LessDecimal(x, y) = LessSigned(p, q)
  BY DEF LessDecimal
<1> HIDE DEF p, q
<1>7. a = (IF p.neg THEN 0 - m ELSE m) /\ b = (IF q.neg THEN 0 - n ELSE n)
      /\ (p.neg => m # 0) /\ (q.neg => n # 0)
  <2>1. (p.neg <=> x.neg /\ m # 0) /\ (q.neg <=> y.neg /\ n # 0)
    BY <1>1, <1>2, <1>3
  <2>2. 0 - 0 = 0
    OBVIOUS
  <2>3. m = 0 => a = 0 /\ (IF p.neg THEN 0 - m ELSE m) = 0
    BY <2>2
  <2>4. n = 0 => b = 0 /\ (IF q.neg THEN 0 - n ELSE n) = 0
    BY <2>2
  <2>5. m # 0 => a = (IF p.neg THEN 0 - m ELSE m)
    BY <2>1
  <2>6. n # 0 => b = (IF q.neg THEN 0 - n ELSE n)
    BY <2>1
  <2> HIDE DEF a, b
  <2>7. QED  BY <2>1, <2>3, <2>4, <2>5, <2>6
<1>8. /\ LessMagnitude(p.mag, q.mag) => m < n
      /\ LessMagnitude(q.mag, p.mag) => n < m
      /\ p.mag = q.mag => m = n
      /\ LessMagnitude(p.mag, q.mag) \/ LessMagnitude(q.mag, p.mag) \/ p.mag = q.mag
  <2>1. p.mag \in Seq(0 .. 9) /\ q.mag \in Seq(0 .. 9)
    BY <1>1, <1>2 DEF Trimmed
  <2>2. p.mag = q.mag => m = n
    BY <1>1, <1>2, <2>1, StandsForOne
  <2>3. LessMagnitude(p.mag, q.mag) => m < n
    BY <1>1, <1>2, LessIsLess
  <2>4. LessMagnitude(q.mag, p.mag) => n < m
    BY <1>1, <1>2, LessIsLess
  <2>5. QED  BY <2>1, <2>2, <2>3, <2>4, OneIsLess
<1> DEFINE lt == LessMagnitude(p.mag, q.mag)
           gt == LessMagnitude(q.mag, p.mag)
<1>9. (lt <=> m < n) /\ (gt <=> n < m) /\ (p.mag = q.mag <=> m = n)
  <2>1. ~(m < n /\ n < m) /\ ~(m < n /\ m = n) /\ ~(n < m /\ m = n)
    BY <1>1, <1>2
  <2>2. QED  BY <1>8, <2>1
<1> HIDE DEF a, b, lt, gt
<1>10. LessSigned(p, q) <=> IF p.neg # q.neg THEN p.neg ELSE IF p.neg THEN gt ELSE lt
  BY DEF LessSigned, lt, gt
<1>11. LessSigned(p, q) <=> a < b
  <2>1. CASE p.neg /\ q.neg
    <3>1. a = 0 - m /\ b = 0 - n
      BY <1>7, <2>1
    <3>2. LessSigned(p, q) <=> n < m
      BY <1>9, <1>10, <2>1
    <3>3. QED  BY <1>1, <1>2, <3>1, <3>2
  <2>2. CASE p.neg /\ ~q.neg
    <3>1. a = 0 - m /\ b = n /\ m # 0 /\ LessSigned(p, q)
      BY <1>7, <1>10, <2>2
    <3>2. QED  BY <1>1, <1>2, <3>1
  <2>3. CASE ~p.neg /\ q.neg
    <3>1. a = m /\ b = 0 - n /\ n # 0 /\ ~LessSigned(p, q)
      BY <1>4, <1>7, <1>10, <2>3
    <3>2. QED  BY <1>1, <1>2, <3>1
  <2>4. CASE ~p.neg /\ ~q.neg
    <3>1. a = m /\ b = n
      BY <1>7, <2>4
    <3>2. LessSigned(p, q) <=> m < n
      BY <1>4, <1>9, <1>10, <2>4
    <3>3. QED  BY <3>1, <3>2
  <2>5. QED  BY <2>1, <2>2, <2>3, <2>4
<1>12. p = q <=> a = b
  <2>1. p = q <=> p.neg = q.neg /\ p.mag = q.mag
    BY <1>5
  <2>2. CASE p.neg /\ q.neg
    <3>1. a = 0 - m /\ b = 0 - n /\ p.neg = q.neg
      BY <1>4, <1>7, <2>2
    <3>2. 0 - m = 0 - n <=> m = n
      BY <1>1, <1>2
    <3>3. QED  BY <1>9, <2>1, <3>1, <3>2
  <2>3. CASE p.neg /\ ~q.neg
    <3>1. a = 0 - m /\ b = n /\ m # 0 /\ p.neg # q.neg
      BY <1>7, <2>3
    <3>2. a # b
      BY <1>1, <1>2, <3>1
    <3>3. QED  BY <2>1, <3>1, <3>2
  <2>4. CASE ~p.neg /\ q.neg
    <3>1. a = m /\ b = 0 - n /\ n # 0 /\ p.neg # q.neg
      BY <1>7, <2>4
    <3>2. a # b
      BY <1>1, <1>2, <3>1
    <3>3. QED  BY <2>1, <3>1, <3>2
  <2>5. CASE ~p.neg /\ ~q.neg
    <3>1. a = m /\ b = n /\ p.neg = q.neg
      BY <1>4, <1>7, <2>5
    <3>2. QED  BY <1>9, <2>1, <3>1
  <2>6. QED  BY <2>2, <2>3, <2>4, <2>5
<1>13. QED  BY <1>6, <1>11, <1>12 DEF a, b, p, q


=============================================================================

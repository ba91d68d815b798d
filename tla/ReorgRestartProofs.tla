------------------------- MODULE ReorgRestartProofs --------------------------
(* Proofs about ReorgSource, concluded: a reorg survives restarts, for every
   chain, number of reorgs and crashes, set of sinks, page size, window and
   channel capacity. *)
EXTENDS ReorgWindowProofs

-----------------------------------------------------------------------------
(* StreamInv, step by step: at each place of its channel, what a sink will    *)
(* have acked was sent.                                                       *)

Below(s, i) ==
    \A b \in Numbers : b < Stop(s, i) /\ Stays(s, b, i) =>
        b < Sent /\ (b = Stop(s, i) - 1 => Reached(b))

\* StreamInv, in these terms.
LEMMA StreamParts ==
    ASSUME NEW s
    PROVE  StreamInv(s) <=> \A i \in {0} \cup DOMAIN inbox[s] : Below(s, i) /\ Ordered(s, i)
BY DEF StreamInv, Below

\* A place at which the cursor stays what it was.
LEMMA BelowKeeps ==
    ASSUME NEW s, Keeps(s), NEW i \in {0} \cup DOMAIN inbox[s], Below(s, i), Stop(s, i)' = Stop(s, i)
    PROVE  Below(s, i)'
BY DEF Keeps, Below

\* A step that leaves the sink and its channel alone, or the source.
LEMMA StreamFrame ==
    ASSUME NEW s, StreamInv(s), inbox'[s] = inbox[s], cursors'[Pair(s)] = cursors[Pair(s)],
           Keeps(s) \/ (UNCHANGED <<cursor, loop, resp, fork, trackerAt, vouched>> /\ kvLast'[Hashes] = kvLast[Hashes])
    PROVE  StreamInv(s)'
<1>1. \A i : Stop(s, i)' = Stop(s, i)
  BY DEF Stop
<1>2. \A i : Ordered(s, i)' <=> Ordered(s, i)
  BY <1>1 DEF Ordered
<1>0. StreamInv(s)' <=> \A i \in {0} \cup DOMAIN inbox'[s] : Below(s, i)' /\ Ordered(s, i)'
  BY DEF StreamInv, Below
<1>3. CASE Keeps(s)
  BY <1>0, <1>1, <1>2, <1>3, BelowKeeps, StreamParts
<1>4. CASE UNCHANGED <<cursor, loop, resp, fork, trackerAt, vouched>> /\ kvLast'[Hashes] = kvLast[Hashes]
  <2>1. Latest' = Latest /\ Sent' = Sent
    BY <1>4 DEF Latest, Sent
  <2>2. \A b : Reached(b)' <=> Reached(b)
    BY <1>4, <2>1 DEF Reached
  <2>3. \A b, i : Stays(s, b, i)' <=> Stays(s, b, i)
    BY <1>4 DEF Stays
  <2>4. \A i : Below(s, i)' <=> Below(s, i)
    BY <1>1, <2>1, <2>2, <2>3 DEF Below
  <2> QED
    BY <1>0, <1>2, <2>4, StreamParts
<1> QED
  BY <1>3, <1>4

\* The fields of a batch, and the cursors of a sink, are numbers.
LEMMA BatchFacts ==
    ASSUME NEW m \in Message
    PROVE  /\ m.ack \in Blocks /\ m.ack \in Nat /\ m.fork \in Int
           /\ m.fork = Absent \/ (m.fork \in Numbers /\ m.fork \in Nat)
           /\ \A x \in m.rows : x \in Logs /\ x[1] \in Numbers /\ x[1] \in Nat
<1>1. m.ack \in Blocks /\ m.fork \in Numbers \cup {Absent} /\ m.rows \subseteq Logs
  BY DEF Message
<1>2. m.fork = Absent \/ m.fork \in Numbers
  BY <1>1
<1>3. m.fork = Absent \/ m.fork \in Nat
  BY <1>2, NumberFacts
<1>4. m.fork \in Int
  BY <1>3, LimitFacts
<1> QED
  BY <1>1, <1>2, <1>3, <1>4, NumberFacts

\* A cursor that a sink has or will have is a number.
LEMMA StopInt ==
    ASSUME RTypeOK, NEW s \in Sinks, NEW i \in {0} \cup DOMAIN inbox[s]
    PROVE  Stop(s, i) \in Int
<1>1. CASE i = 0
  BY <1>1, PairFacts, RowTypes DEF Stop, RTypeOK
<1>2. CASE i # 0
  <2>1. inbox[s][i] \in Message
    BY <1>2, SinkFacts
  <2>2. inbox[s][i].ack \in Int /\ inbox[s][i].fork \in Int
    BY <2>1, BatchFacts
  <2> QED
    BY <1>2, <2>2 DEF Stop
<1> QED
  BY <1>1, <1>2

\* A batch is sent to the sink, of rows beyond what was sent before.
LEMMA StreamSend ==
    ASSUME RTypeOK, NEW s \in Sinks, StreamInv(s), Keeps(s), NEW m \in Message,
           inbox'[s] = Append(inbox[s], m), cursors'[Pair(s)] = cursors[Pair(s)],
           \A x \in m.rows : x[1] \in Numbers /\ Sent <= x[1],
           m.fork = Absent => loop # "rollback",
           NEW end, end = IF m.fork = Absent THEN m.ack ELSE m.fork + 1,
           \A b \in Numbers : b < end => b < Sent' /\ (b = end - 1 => Reached(b)')
    PROVE  StreamInv(s)'
<1> DEFINE q == inbox[s]
<1>1. PICK n \in Nat :
        /\ q \in Seq(Message) /\ DOMAIN q = 1..n /\ DOMAIN inbox'[s] = 1..(n + 1)
        /\ \A i \in DOMAIN q : inbox'[s][i] = q[i]
        /\ inbox'[s][n + 1] = m
  BY SinkFacts, ChannelAppend
<1>2. \A i \in {0} \cup DOMAIN q : Stop(s, i)' = Stop(s, i) /\ i \in Nat /\ i # n + 1
  BY <1>1 DEF Stop
<1>3. \A i \in {0} \cup DOMAIN q : Below(s, i)'
  BY <1>2, BelowKeeps, StreamParts
<1>4. ASSUME NEW i \in {0} \cup DOMAIN q PROVE Ordered(s, i)'
  <2>1. ASSUME NEW j \in 1..(n + 1), j > i, inbox'[s][j].fork = Absent, NEW x \in inbox'[s][j].rows,
               ~(Stop(s, i) <= x[1])
        PROVE  \E k \in DOMAIN inbox'[s] : i < k /\ k < j /\ inbox'[s][k].fork # Absent /\ inbox'[s][k].fork < x[1]
    <3>1. CASE j \in DOMAIN q
      <4>1. PICK k \in DOMAIN q : i < k /\ k < j /\ q[k].fork # Absent /\ q[k].fork < x[1]
        BY <1>1, <2>1, <3>1, StreamParts DEF Ordered
      <4> QED
        BY <1>1, <4>1
    <3>2. CASE j \notin DOMAIN q
      <4>1. j = n + 1 /\ x \in m.rows /\ loop # "rollback"
        BY <1>1, <2>1, <3>2
      <4>2. x[1] \in Numbers /\ x[1] \in Nat /\ Sent <= x[1] /\ Sent \in Nat
        BY <4>1, NumberFacts, SourceFacts
      <4>3. Stop(s, i) \in Int
        BY StopInt
      <4>4. ~Stays(s, x[1], i)
        <5>1. Below(s, i)
          BY StreamParts
        <5>2. x[1] < Stop(s, i) /\ ~(x[1] < Sent)
          BY <2>1, <4>2, <4>3
        <5> QED
          BY <4>2, <5>1, <5>2 DEF Below
      <4>5. PICK k \in DOMAIN q : k > i /\ q[k].fork # Absent /\ ~(x[1] <= q[k].fork)
        BY <4>1, <4>4 DEF Stays
      <4>6. q[k].fork < x[1]
        <5>1. q[k].fork \in Nat
          BY <4>5, SinkFacts, BatchFacts
        <5> QED
          BY <4>2, <4>5, <5>1
      <4>7. k \in DOMAIN inbox'[s] /\ k < j /\ i < k
        BY <1>1, <1>2, <4>1, <4>5
      <4> QED
        BY <1>1, <4>5, <4>6, <4>7
    <3> QED
      BY <3>1, <3>2
  <2> QED
    BY <1>1, <1>2, <2>1 DEF Ordered
<1>5. Stop(s, n + 1)' = end
  BY <1>1 DEF Stop
<1>6. Below(s, n + 1)'
  BY <1>5 DEF Below
<1>7. Ordered(s, n + 1)'
  <2>1. \A j \in DOMAIN inbox'[s] : ~(j > n + 1)
    BY <1>1
  <2> QED
    BY <2>1 DEF Ordered
<1>8. \A i \in {0} \cup DOMAIN inbox'[s] : i \in {0} \cup DOMAIN q \/ i = n + 1
  BY <1>1
<1>9. \A i \in {0} \cup DOMAIN inbox'[s] : Below(s, i)' /\ Ordered(s, i)'
  BY <1>3, <1>4, <1>6, <1>7, <1>8
<1> QED
  BY <1>9 DEF StreamInv, Below

\* The source and the chain leave cursors, ticks and tables alone.
LEMMA SourceOnly ==
    ASSUME SourceStep
    PROVE  /\ UNCHANGED <<running, cursors, disk, rewinding, paused, ckpt, snap, todo, hand, txn>>
           /\ UNCHANGED <<kvDisk, kvTxn, stale, staleTxn, stage, table>>
<1>1. CASE Mine \/ (\E f \in 1..height : Reorg(f)) \/ Poll \/ EmitRows \/ SendRollback
  BY <1>1 DEF Mine, Reorg, Poll, EmitRows, SendRollback, vars, cursorVars, persistVars, kvVars, historyVars, sinkVars
<1>2. CASE LoadMiss \/ Load
  BY <1>2 DEF LoadMiss, Load, KvGetMiss, KvGetFill, cursorVars, persistVars, historyVars, sinkVars
<1>3. CASE Remember \/ LocateFork
  BY <1>3 DEF Remember, LocateFork, Save, KvSet, cursorVars, persistVars, sinkVars
<1> QED
  BY <1>1, <1>2, <1>3 DEF SourceStep

\* Only rows and rollbacks are sent.
LEMMA SourceSends ==
    ASSUME SourceStep, NEW s \in Sinks, ~EmitRows, ~SendRollback
    PROVE  inbox'[s] = inbox[s]
BY DEF SourceStep, Mine, Reorg, LoadMiss, Load, Poll, Remember, LocateFork, sinkVars

\* What a response is sent as, if it has rows and the sink is not paused.
LEMMA EmitFacts ==
    ASSUME RTypeOK, StepInv, NEW s \in Sinks, EmitRows
    PROVE  /\ loop = "emit" /\ loop' = "save" /\ Sent = cursor /\ Sent' = resp.next /\ resp' = resp
           /\ inbox'[s] # inbox[s] =>
                 \E m \in Message :
                    /\ s \notin paused /\ Send(m) /\ inbox'[s] = Append(inbox[s], m)
                    /\ m.fork = Absent /\ m.ack = resp.next /\ m.rows = RowsOf(resp.chain, cursor, resp.next)
<1>1. loop = "emit" /\ loop' = "save" /\ resp' = resp
  BY DEF EmitRows
<1>2. Sent = cursor /\ Sent' = resp.next /\ resp.first = cursor
  BY <1>1 DEF Sent, StepInv, Holding
<1> DEFINE rows == RowsOf(resp.chain, cursor, resp.next)
           m == [rows |-> rows, ack |-> resp.next, fork |-> Absent]
<1>3. ASSUME inbox'[s] # inbox[s]
      PROVE  s \notin paused /\ Send(m) /\ inbox'[s] = Append(inbox[s], m)
  BY <1>2, <1>3 DEF EmitRows, Send
<1>4. m \in Message /\ m.fork = Absent /\ m.ack = resp.next /\ m.rows = rows
  BY RowsOfType DEF Message, RTypeOK
<1> HIDE DEF m
<1> QED
  BY <1>1, <1>2, <1>3, <1>4

\* Steps of the source.
LEMMA StreamSource ==
    ASSUME RTypeOK, RTypeOK', StepInv, KvSerialInv(Hashes), WindowInv, WindowInv', NEW s \in Sinks, StreamInv(s),
           SourceStep, ~torn'
    PROVE  StreamInv(s)'
<1>1. Keeps(s) /\ cursors' = cursors
  BY KeepsSource, SourceOnly
<1>2. CASE inbox'[s] = inbox[s]
  BY <1>1, <1>2, StreamFrame
<1>3. CASE EmitRows /\ inbox'[s] # inbox[s]
  <2>1. PICK m \in Message :
          /\ inbox'[s] = Append(inbox[s], m)
          /\ m.fork = Absent /\ m.ack = resp.next /\ m.rows = RowsOf(resp.chain, cursor, resp.next)
    BY <1>3, EmitFacts
  <2>2. loop = "emit" /\ loop' = "save" /\ Sent = cursor /\ Sent' = resp.next /\ resp' = resp
    BY <1>3, EmitFacts
  <2>3. \A x \in m.rows : x[1] \in Numbers /\ Sent <= x[1]
    BY <2>1, <2>2, BatchFacts DEF RowsOf
  <2>4. \A b \in Numbers : b < m.ack => b < Sent' /\ (b = m.ack - 1 => Reached(b)')
    BY <2>1, <2>2 DEF Reached
  <2>5. m.ack = IF m.fork = Absent THEN m.ack ELSE m.fork + 1
    BY <2>1
  <2> QED
    BY <1>1, <2>1, <2>2, <2>3, <2>4, <2>5, StreamSend
<1>4. CASE SendRollback /\ inbox'[s] # inbox[s]
  <2>1. PICK m \in Message :
          inbox'[s] = Append(inbox[s], m) /\ m.rows = {} /\ m.fork = fork /\ m.fork # Absent
    <3> DEFINE m == [rows |-> {}, ack |-> fork, fork |-> fork]
    <3>1. m \in Message /\ m.fork = fork /\ m.fork # Absent /\ m.rows = {}
      BY NumberFacts, LimitFacts DEF Message, RTypeOK
    <3>2. inbox'[s] = Append(inbox[s], m)
      BY <1>4 DEF SendRollback, Send
    <3> HIDE DEF m
    <3> QED
      BY <3>1, <3>2
  <2>2. /\ loop = "rollback" /\ loop' = "poll" /\ cursor' \in Nat /\ fork < cursor'
        /\ UNCHANGED <<trackerAt, vouched, kvLast>>
    BY <1>4, RollbackSent DEF vars, historyVars
  <2>3. Rooted(fork, Latest, vouched) /\ Latest' = Latest /\ Sent' = cursor'
    BY <2>2 DEF WindowInv, LoopInv, Rooted, Latest, Sent
  <2>4. fork \in Nat /\ Numbers \subseteq Nat
    BY SourceFacts
  <2>0. PICK end \in Nat : end = fork + 1
    BY <2>4
  <2>5. \A b \in Numbers : b < end => b < Sent' /\ (b = end - 1 => Reached(b)')
    <3>1. ASSUME NEW b \in Numbers, b < end PROVE b < Sent'
      BY <2>0, <2>2, <2>3, <2>4, <3>1
    <3>2. ASSUME NEW b \in Numbers, b = end - 1 PROVE Reached(b)'
      <4>1. b = fork
        BY <2>0, <2>4, <3>2
      <4> QED
        BY <2>2, <2>3, <4>1 DEF Reached
    <3> QED
      BY <3>1, <3>2
  <2>6. end = IF m.fork = Absent THEN m.ack ELSE m.fork + 1
    BY <2>0, <2>1
  <2>7. \A x \in m.rows : x[1] \in Numbers /\ Sent <= x[1]
    BY <2>1
  <2> QED
    BY <1>1, <2>1, <2>5, <2>6, <2>7, StreamSend
<1> QED
  BY <1>2, <1>3, <1>4, SourceSends

\* The first batch of a channel is done with: every place moves up.
LEMMA ShiftFacts ==
    ASSUME RTypeOK, StepInv, NEW s \in Sinks, stage[s] # "recv", Finish(s), UNCHANGED <<loop, fork>>
    PROVE  /\ inbox[s] # <<>> /\ 1 \in DOMAIN inbox[s] /\ InHand(s) = inbox[s][1] /\ inbox[s][1] \in Message
           /\ \A i \in {0} \cup DOMAIN inbox'[s] : i \in Nat /\ i + 1 \in DOMAIN inbox[s]
           /\ \A i \in DOMAIN inbox'[s] : i # 0 /\ inbox'[s][i] = inbox[s][i + 1]
           /\ \A k \in DOMAIN inbox[s] : k \in Nat /\ (k > 1 => k - 1 \in DOMAIN inbox'[s])
           /\ \A b, i : i \in Nat => (Stays(s, b, i)' <=> Stays(s, b, i + 1))
           /\ \A b : Stays(s, b, 0)' <=> Stays(s, b, 1)
<1> DEFINE q == inbox[s]
<1>1. q # <<>> /\ q \in Seq(Message) /\ inbox'[s] = Tail(q)
  BY DEF Finish, StepInv, RTypeOK
<1>2. PICK n \in Nat \ {0} :
        /\ Head(q) \in Message /\ Head(q) = q[1] /\ DOMAIN q = 1..n /\ DOMAIN inbox'[s] = 1..(n - 1)
        /\ \A i \in 1..(n - 1) : inbox'[s][i] = q[i + 1]
  BY <1>1, ChannelTail
<1>3. ASSUME NEW b, NEW i \in Nat PROVE Stays(s, b, i)' <=> Stays(s, b, i + 1)
  <2>1. ASSUME Stays(s, b, i + 1), NEW j \in 1..(n - 1), j > i, q[j + 1].fork # Absent PROVE b <= q[j + 1].fork
    <3>1. j + 1 \in DOMAIN q /\ j + 1 > i + 1
      BY <1>2, <2>1
    <3> QED
      BY <2>1, <3>1 DEF Stays
  <2>2. ASSUME Stays(s, b, i)', NEW j \in 1..n, j > i + 1, q[j].fork # Absent PROVE b <= q[j].fork
    <3>1. j - 1 \in 1..(n - 1) /\ j - 1 > i /\ j - 1 + 1 = j
      BY <1>2, <2>2
    <3> QED
      BY <1>2, <2>2, <3>1 DEF Stays
  <2>3. loop' = loop /\ fork' = fork
    OBVIOUS
  <2>4. Stays(s, b, i + 1) => Stays(s, b, i)'
    BY <1>2, <2>1, <2>3 DEF Stays
  <2>5. Stays(s, b, i)' => Stays(s, b, i + 1)
    BY <1>2, <2>2, <2>3 DEF Stays
  <2> QED
    BY <2>4, <2>5
<1>4. \A i \in {0} \cup DOMAIN inbox'[s] : i \in Nat /\ i + 1 \in DOMAIN inbox[s]
  BY <1>2
<1>5. \A k \in DOMAIN inbox[s] : k \in Nat /\ (k > 1 => k - 1 \in DOMAIN inbox'[s])
  BY <1>2
<1>6. ASSUME NEW b PROVE Stays(s, b, 0)' <=> Stays(s, b, 1)
  <2>1. 0 + 1 = 1
    OBVIOUS
  <2> QED
    BY <1>3, <2>1
<1> QED
  BY <1>1, <1>2, <1>3, <1>4, <1>5, <1>6 DEF InHand

\* The places behind the first, when it is done with.
LEMMA StreamShift ==
    ASSUME RTypeOK, StepInv, NEW s \in Sinks, StreamInv(s), stage[s] # "recv", Finish(s),
           UNCHANGED <<cursor, loop, resp, fork, trackerAt, vouched>>, kvLast'[Hashes] = kvLast[Hashes],
           Below(s, 0)', Ordered(s, 0)'
    PROVE  StreamInv(s)'
<1>1. /\ \A i \in DOMAIN inbox'[s] : i \in Nat /\ i # 0 /\ i + 1 \in DOMAIN inbox[s] /\ inbox'[s][i] = inbox[s][i + 1]
      /\ \A k \in DOMAIN inbox[s] : k \in Nat /\ (k > 1 => k - 1 \in DOMAIN inbox'[s])
      /\ \A b, i : i \in Nat => (Stays(s, b, i)' <=> Stays(s, b, i + 1))
  BY ShiftFacts
<1>2. Sent' = Sent /\ \A b : Reached(b)' <=> Reached(b)
  BY DEF Sent, Reached, Latest
<1>3. ASSUME NEW i \in DOMAIN inbox'[s] PROVE Below(s, i)' /\ Ordered(s, i)'
  <2>1. i \in Nat /\ i # 0 /\ i + 1 # 0 /\ i + 1 \in DOMAIN inbox[s] /\ inbox'[s][i] = inbox[s][i + 1]
    BY <1>1
  <2>2. Stop(s, i)' = Stop(s, i + 1)
    BY <2>1 DEF Stop
  <2>3. Below(s, i + 1) /\ Ordered(s, i + 1)
    BY <2>1, StreamParts
  <2>4. Below(s, i)'
    BY <1>1, <1>2, <2>1, <2>2, <2>3 DEF Below
  <2>5. ASSUME NEW j \in DOMAIN inbox'[s], j > i, inbox'[s][j].fork = Absent, NEW x \in inbox'[s][j].rows,
               ~(Stop(s, i + 1) <= x[1])
        PROVE  \E k \in DOMAIN inbox'[s] : i < k /\ k < j /\ inbox'[s][k].fork # Absent /\ inbox'[s][k].fork < x[1]
    <3>1. j \in Nat /\ j + 1 \in DOMAIN inbox[s] /\ j + 1 > i + 1 /\ inbox'[s][j] = inbox[s][j + 1]
      BY <1>1, <2>1, <2>5
    <3>2. PICK k \in DOMAIN inbox[s] :
            i + 1 < k /\ k < j + 1 /\ inbox[s][k].fork # Absent /\ inbox[s][k].fork < x[1]
      BY <2>3, <2>5, <3>1 DEF Ordered
    <3>3. k \in Nat /\ k - 1 \in DOMAIN inbox'[s] /\ i < k - 1 /\ k - 1 < j /\ k - 1 + 1 = k
      BY <1>1, <2>1, <3>1, <3>2
    <3>4. inbox'[s][k - 1] = inbox[s][k]
      BY <1>1, <3>3
    <3> QED
      BY <3>2, <3>3, <3>4
  <2> QED
    BY <2>2, <2>4, <2>5 DEF Ordered
<1>4. \A i \in {0} \cup DOMAIN inbox'[s] : Below(s, i)' /\ Ordered(s, i)'
  BY <1>3
<1> QED
  BY <1>4 DEF StreamInv, Below

\* A row sent behind the first batch was sent behind the place before it, and
\* what is between them is between them still.
LEMMA OrderedShift ==
    ASSUME RTypeOK, StepInv, NEW s \in Sinks, stage[s] # "recv", Finish(s), UNCHANGED <<loop, fork>>,
           NEW i \in {0, 1}, Ordered(s, i),
           NEW j \in DOMAIN inbox'[s], inbox'[s][j].fork = Absent, NEW x \in inbox'[s][j].rows
    PROVE  \/ Stop(s, i) <= x[1]
           \/ i = 0 /\ inbox[s][1].fork # Absent /\ inbox[s][1].fork < x[1]
           \/ \E k \in DOMAIN inbox'[s] : 0 < k /\ k < j /\ inbox'[s][k].fork # Absent /\ inbox'[s][k].fork < x[1]
<1>1. /\ j \in Nat /\ j # 0 /\ j + 1 \in DOMAIN inbox[s] /\ inbox'[s][j] = inbox[s][j + 1]
      /\ \A k \in DOMAIN inbox[s] : k \in Nat /\ (k > 1 => k - 1 \in DOMAIN inbox'[s])
  BY ShiftFacts
<1>2. j + 1 > i
  BY <1>1
<1>3. SUFFICES ASSUME ~(Stop(s, i) <= x[1]),
                      ~(i = 0 /\ inbox[s][1].fork # Absent /\ inbox[s][1].fork < x[1])
      PROVE  \E k \in DOMAIN inbox'[s] : 0 < k /\ k < j /\ inbox'[s][k].fork # Absent /\ inbox'[s][k].fork < x[1]
  OBVIOUS
<1>4. PICK k \in DOMAIN inbox[s] : i < k /\ k < j + 1 /\ inbox[s][k].fork # Absent /\ inbox[s][k].fork < x[1]
  BY <1>1, <1>2, <1>3 DEF Ordered
<1>5. k \in Nat /\ k > 1
  BY <1>1, <1>3, <1>4
<1>6. k - 1 \in DOMAIN inbox'[s] /\ 0 < k - 1 /\ k - 1 < j /\ k - 1 + 1 = k
  BY <1>1, <1>4, <1>5
<1>7. inbox'[s][k - 1] = inbox[s][k]
  BY <1>6, ShiftFacts
<1> QED
  BY <1>4, <1>6, <1>7

\* An ack takes the cursor to the place of the batch.
LEMMA StreamAck ==
    ASSUME RTypeOK, StepInv, NEW s \in Sinks, StreamInv(s), AckBatch(s)
    PROVE  StreamInv(s)'
<1>1. /\ stage[s] = "written" /\ InHand(s).fork = Absent /\ Finish(s)
      /\ cursors' = [cursors EXCEPT ![Pair(s)] = Greatest(@, InHand(s).ack)]
      /\ UNCHANGED <<cursor, loop, resp, fork, trackerAt, vouched, kvLast>>
  BY DEF AckBatch, Ack, sourceVars, historyVars
<1>2. /\ 1 \in DOMAIN inbox[s] /\ InHand(s) = inbox[s][1] /\ inbox[s][1] \in Message
      /\ \A b : Stays(s, b, 0)' <=> Stays(s, b, 1)
  BY <1>1, ShiftFacts
<1>3. Below(s, 0) /\ Below(s, 1) /\ Ordered(s, 0) /\ Ordered(s, 1)
  BY <1>2, StreamParts
<1>4. Stop(s, 0) \in Int /\ Stop(s, 1) \in Int
  BY <1>2, StopInt
<1>5. Stop(s, 0)' = Greatest(Stop(s, 0), Stop(s, 1))
  BY <1>1, <1>2, PairFacts DEF Stop, RTypeOK, TypeOK
<1>6. \A b \in Numbers : Stays(s, b, 1) => Stays(s, b, 0)
  <2>1. \A j \in DOMAIN inbox[s] : j \in Nat /\ (j > 0 => j > 1 \/ j = 1)
    BY SinkFacts
  <2> QED
    BY <1>1, <1>2, <2>1 DEF Stays
<1>7. Sent' = Sent /\ \A b : Reached(b)' <=> Reached(b)
  BY <1>1 DEF Sent, Reached, Latest
<1>8. Below(s, 0)'
  <2>1. Stop(s, 0)' = Stop(s, 0) \/ Stop(s, 0)' = Stop(s, 1)
    BY <1>5 DEF Greatest
  <2> QED
    BY <1>2, <1>3, <1>6, <1>7, <2>1 DEF Below
<1>9. Ordered(s, 0)'
  <2>1. ASSUME NEW j \in DOMAIN inbox'[s], inbox'[s][j].fork = Absent, NEW x \in inbox'[s][j].rows,
               ~\E k \in DOMAIN inbox'[s] : 0 < k /\ k < j /\ inbox'[s][k].fork # Absent /\ inbox'[s][k].fork < x[1]
        PROVE  Greatest(Stop(s, 0), Stop(s, 1)) <= x[1]
    <3>1. Stop(s, 0) <= x[1]
      BY <1>1, <1>2, <1>3, <2>1, OrderedShift
    <3>2. Stop(s, 1) <= x[1]
      BY <1>1, <1>3, <2>1, OrderedShift
    <3> QED
      BY <3>1, <3>2 DEF Greatest
  <2> QED
    BY <1>5, <2>1 DEF Ordered
<1> QED
  BY <1>1, <1>8, <1>9, StreamShift

\* A rewind takes the cursor down, to where the rollback will leave it.
LEMMA StreamBegin ==
    ASSUME RTypeOK, StepInv, NEW s \in Sinks, StreamInv(s), BeginRewind(s)
    PROVE  StreamInv(s)'
<1>1. /\ stage[s] = "written" /\ InHand(s).fork # Absent
      /\ cursors' = [cursors EXCEPT ![Pair(s)] = IF @ = Absent THEN InHand(s).fork + 1 ELSE Least(@, InHand(s).fork + 1)]
      /\ UNCHANGED <<cursor, loop, resp, fork, trackerAt, vouched, kvLast, inbox>>
  BY DEF BeginRewind, RewindMemory, sourceVars, noteVars
<1>2. 1 \in DOMAIN inbox[s] /\ InHand(s) = inbox[s][1]
  <2>1. inbox[s] # <<>> /\ inbox[s] \in Seq(Message)
    BY <1>1, SinkFacts DEF StepInv
  <2> QED
    BY <2>1, ChannelTail DEF InHand
<1>3. Below(s, 0) /\ Below(s, 1) /\ Ordered(s, 0) /\ Ordered(s, 1)
  BY <1>2, StreamParts
<1>4. Stop(s, 0)' = Stop(s, 0) \/ Stop(s, 0)' = Stop(s, 1)
  <2>1. Pair(s) \in Pairs /\ cursors \in [Pairs -> Cursor]
    BY PairFacts DEF RTypeOK, TypeOK
  <2>2. cursors'[Pair(s)] = cursors[Pair(s)] \/ cursors'[Pair(s)] = InHand(s).fork + 1
    BY <1>1, <2>1 DEF Least
  <2>3. Stop(s, 1) = InHand(s).fork + 1 /\ Stop(s, 0) = cursors[Pair(s)] /\ Stop(s, 0)' = cursors'[Pair(s)]
    BY <1>1, <1>2 DEF Stop
  <2> QED
    BY <2>2, <2>3
<1>5. \A b, i : Stays(s, b, i)' <=> Stays(s, b, i)
  BY <1>1 DEF Stays
<1>6. \A b : Stays(s, b, 0) => Stays(s, b, 1)
  <2>1. \A j \in DOMAIN inbox[s] : j \in Nat
    BY SinkFacts
  <2> QED
    BY <2>1 DEF Stays
<1>7. Sent' = Sent /\ \A b : Reached(b)' <=> Reached(b)
  BY <1>1 DEF Sent, Reached, Latest
<1>8. Below(s, 0)'
  BY <1>3, <1>4, <1>5, <1>6, <1>7 DEF Below
<1>9. Ordered(s, 0)'
  <2>1. CASE Stop(s, 0)' = Stop(s, 0)
    BY <1>1, <1>3, <2>1 DEF Ordered
  <2>2. CASE Stop(s, 0)' = Stop(s, 1)
    <3>1. \A j \in DOMAIN inbox[s] : j \in Nat /\ (j > 0 /\ inbox[s][j].fork = Absent => j > 1)
      BY <1>1, <1>2, SinkFacts
    <3>2. \A k \in DOMAIN inbox[s] : 1 < k => 0 < k
      BY <3>1
    <3> QED
      BY <1>1, <1>3, <2>2, <3>1, <3>2 DEF Ordered
  <2> QED
    BY <1>4, <2>1, <2>2
<1>10. ASSUME NEW i \in DOMAIN inbox[s] PROVE Below(s, i)' /\ Ordered(s, i)'
  <2>1. i # 0 /\ Below(s, i) /\ Ordered(s, i)
    <3>1. inbox[s] \in Seq(Message)
      BY SinkFacts
    <3>2. i # 0
      BY <3>1, LenProperties
    <3> QED
      BY <3>2, StreamParts
  <2>2. Stop(s, i)' = Stop(s, i)
    BY <1>1, <2>1 DEF Stop
  <2> QED
    BY <1>1, <1>5, <1>7, <2>1, <2>2 DEF Below, Ordered
<1>11. \A i \in {0} \cup DOMAIN inbox'[s] : Below(s, i)' /\ Ordered(s, i)'
  BY <1>1, <1>8, <1>9, <1>10
<1> QED
  BY <1>11 DEF StreamInv, Below

\* The rollback leaves the channel with the cursor at its place.
LEMMA StreamEnd ==
    ASSUME RTypeOK, StepInv, NEW s \in Sinks, StreamInv(s), TickInv(s), EndRewind(s)
    PROVE  StreamInv(s)'
<1>1. /\ stage[s] = "rewinding" /\ Finish(s)
      /\ UNCHANGED <<cursor, loop, resp, fork, trackerAt, vouched, kvLast, cursors>>
  BY DEF EndRewind, RewindUpdate, sourceVars, noteVars
<1>2. /\ 1 \in DOMAIN inbox[s] /\ InHand(s) = inbox[s][1] /\ inbox[s][1] \in Message
      /\ \A b : Stays(s, b, 0)' <=> Stays(s, b, 1)
  BY <1>1, ShiftFacts
<1>3. inbox[s][1].fork # Absent /\ inbox[s][1].fork \in Nat /\ Stop(s, 0) <= inbox[s][1].fork + 1 /\ Stop(s, 0) \in Int
  <2>1. InHand(s).fork # Absent /\ cursors[Pair(s)] <= InHand(s).fork + 1
    BY <1>1 DEF TickInv
  <2> QED
    BY <1>2, <2>1, BatchFacts, StopInt DEF Stop
<1>4. Below(s, 0) /\ Ordered(s, 0)
  BY StreamParts
<1>5. Stop(s, 0)' = Stop(s, 0)
  BY <1>1 DEF Stop
<1>6. ASSUME NEW b \in Numbers, b < Stop(s, 0), Stays(s, b, 1) PROVE Stays(s, b, 0)
  <2>1. \A j \in DOMAIN inbox[s] : j \in Nat /\ (j > 0 => j > 1 \/ j = 1)
    BY SinkFacts
  <2>2. b <= inbox[s][1].fork
    BY <1>3, <1>6, NumberFacts
  <2> QED
    BY <1>6, <2>1, <2>2 DEF Stays
<1>7. Sent' = Sent /\ \A b : Reached(b)' <=> Reached(b)
  BY <1>1 DEF Sent, Reached, Latest
<1>8. Below(s, 0)'
  BY <1>2, <1>4, <1>5, <1>6, <1>7 DEF Below
<1>9. Ordered(s, 0)'
  <2>1. ASSUME NEW j \in DOMAIN inbox'[s], inbox'[s][j].fork = Absent, NEW x \in inbox'[s][j].rows,
               ~\E k \in DOMAIN inbox'[s] : 0 < k /\ k < j /\ inbox'[s][k].fork # Absent /\ inbox'[s][k].fork < x[1]
        PROVE  Stop(s, 0) <= x[1]
    <3>1. Stop(s, 0) <= x[1] \/ inbox[s][1].fork < x[1]
      BY <1>1, <1>4, <2>1, OrderedShift
    <3>2. x[1] \in Nat
      <4>1. j + 1 \in DOMAIN inbox[s] /\ inbox'[s][j] = inbox[s][j + 1]
        BY <1>1, ShiftFacts
      <4> QED
        BY <2>1, <4>1, SinkFacts, BatchFacts
    <3> QED
      BY <1>3, <3>1, <3>2
  <2> QED
    BY <1>5, <2>1 DEF Ordered
<1> QED
  BY <1>1, <1>8, <1>9, StreamShift

\* The channel of a sink that pauses is dropped, with no rollback in it.
LEMMA StreamGiveUp ==
    ASSUME RTypeOK, NEW s \in Sinks, StreamInv(s), GiveUp(s), ~torn'
    PROVE  StreamInv(s)'
<1>1. /\ inbox'[s] = <<>> /\ ~AwaitsRollback(s)
      /\ UNCHANGED <<cursor, loop, resp, fork, trackerAt, vouched, kvLast, cursors>>
  BY DEF GiveUp, Pause, sourceVars, historyVars, RTypeOK
<1>2. DOMAIN inbox'[s] = {}
  BY <1>1, ChannelEmpty
<1>3. Stop(s, 0)' = Stop(s, 0) /\ Sent' = Sent /\ \A b : Reached(b)' <=> Reached(b)
  BY <1>1 DEF Stop, Sent, Reached, Latest
<1>4. \A b : Stays(s, b, 0)' => Stays(s, b, 0)
  BY <1>1 DEF Stays, AwaitsRollback
<1>5. Below(s, 0)
  BY StreamParts
<1>6. Below(s, 0)'
  BY <1>3, <1>4, <1>5 DEF Below
<1>7. Ordered(s, 0)'
  BY <1>2 DEF Ordered
<1>8. \A i \in {0} \cup DOMAIN inbox'[s] : Below(s, i)' /\ Ordered(s, i)'
  BY <1>2, <1>6, <1>7
<1> QED
  BY <1>8 DEF StreamInv, Below

\* A sink leaves the others alone.
LEMMA SinkOnly ==
    ASSUME RTypeOK, NEW t \in Sinks, SinkStep(t), NEW s \in Sinks, s # t
    PROVE  /\ inbox'[s] = inbox[s] /\ stage'[s] = stage[s] /\ table'[s] = table[s]
           /\ cursors'[Pair(s)] = cursors[Pair(s)] /\ disk'[Pair(s)] = disk[Pair(s)]
           /\ rewinding'[Pair(s)] = rewinding[Pair(s)]
           /\ s \in paused' <=> s \in paused
           /\ Pair(s) \in staleTxn' <=> Pair(s) \in staleTxn
<1>1. Pair(s) # Pair(t) /\ Pair(s) \in Pairs /\ Pair(t) \in Pairs
  BY PairFacts DEF Pair
<1>2. CASE Write(t)
  BY <1>2 DEF Write, RTypeOK, vars, cursorVars, historyVars
<1>3. CASE AckBatch(t)
  BY <1>1, <1>3 DEF AckBatch, Ack, Finish, RTypeOK, TypeOK, historyVars
<1>4. CASE BeginRewind(t)
  BY <1>1, <1>4 DEF BeginRewind, RewindMemory, RTypeOK, TypeOK
<1>5. CASE EndRewind(t)
  BY <1>1, <1>5 DEF EndRewind, RewindUpdate, Finish, RTypeOK, TypeOK
<1>6. CASE GiveUp(t)
  BY <1>1, <1>6 DEF GiveUp, Pause, RTypeOK, TypeOK, historyVars
<1> QED
  BY <1>2, <1>3, <1>4, <1>5, <1>6 DEF SinkStep

\* A tick leaves cursors, channels and tables alone.
LEMMA TickOnly ==
    ASSUME Tick \/ Drain
    PROVE  /\ UNCHANGED <<inbox, stage, table, cursors, rewinding, paused>>
           /\ ~Commit => UNCHANGED <<disk, kvDisk, stale, staleTxn>>
<1>1. CASE Tick
  BY <1>1 DEF Tick, Snapshot, ReadFloor, InsertRow, Commit, cursorVars, historyVars, kvVars, sinkVars
<1>2. CASE Drain
  BY <1>2 DEF Drain, PersistBegin, cursorVars, historyVars, sinkVars
<1> QED
  BY <1>1, <1>2

\* What a durable row and window are fit for when the process is down.
LEMMA FitsDown ==
    ASSUME RTypeOK, LoopInv, DownInv, ~running, NEW s \in Sinks, DurableInv(s)
    PROVE  Fits(s, disk[Pair(s)], kvDisk[Hashes]) /\ \A b, i : Stays(s, b, i)
<1>1. loop = "load" /\ stale = {}
  BY DEF DownInv
<1>2. \A b, i : Stays(s, b, i)
  BY <1>1, AllStay DEF LoopInv
<1>3. disk[Pair(s)] \in Cursor /\ kvDisk[Hashes] \in Version
  BY PairFacts, LimitFacts DEF RTypeOK, TypeOK
<1>4. Durable(s, disk[Pair(s)], kvDisk[Hashes])
  BY <1>1 DEF Durable
<1> QED
  BY <1>2, <1>3, <1>4 DEF DurableInv

\* Every step keeps StreamInv.
LEMMA StreamStep ==
    ASSUME RTypeOK, RTypeOK', StepInv, KvSerialInv(Hashes), WindowInv, WindowInv', NEW s \in Sinks, StreamInv(s),
           TickInv(s), DurableInv(s), RNext, ~torn'
    PROVE  StreamInv(s)'
<1>1. CASE SourceStep
  BY <1>1, StreamSource
<1>2. ASSUME NEW t \in Sinks, SinkStep(t) PROVE StreamInv(s)'
  <2>0. UNCHANGED <<cursor, loop, resp, fork, trackerAt, vouched, kvLast>>
    BY <1>2, SourceFrame DEF sourceVars
  <2>1. CASE t # s
    BY <1>2, <2>0, <2>1, SinkOnly, StreamFrame
  <2>2. CASE Write(s)
    <3>1. inbox'[s] = inbox[s] /\ cursors' = cursors
      BY <2>2 DEF Write, vars, cursorVars
    <3> QED
      BY <1>2, <2>0, <3>1, StreamFrame
  <2> QED
    BY <1>2, <2>1, <2>2, StreamAck, StreamBegin, StreamEnd, StreamGiveUp DEF SinkStep
<1>3. CASE Tick \/ Drain
  <2>1. UNCHANGED <<cursor, loop, resp, fork, trackerAt, vouched, kvLast>>
    BY <1>3, SourceFrame DEF sourceVars
  <2>2. inbox' = inbox /\ cursors' = cursors
    BY <1>3, TickOnly
  <2> QED
    BY <2>1, <2>2, StreamFrame
<1>4. ASSUME inbox'[s] = <<>>, Below(s, 0)' PROVE StreamInv(s)'
  <2>1. DOMAIN inbox'[s] = {}
    BY <1>4, ChannelEmpty
  <2>2. Ordered(s, 0)'
    BY <2>1 DEF Ordered
  <2>3. \A i \in {0} \cup DOMAIN inbox'[s] : Below(s, i)' /\ Ordered(s, i)'
    BY <1>4, <2>1, <2>2
  <2> QED
    BY <2>3 DEF StreamInv, Below
<1>5. CASE Kill
  <2>1. inbox'[s] = <<>> /\ cursors'[Pair(s)] = Absent
    BY <1>5, KillFacts, PairFacts DEF NoRows
  <2>2. \A b \in Numbers : ~(b < Stop(s, 0)')
    BY <2>1, NumberFacts DEF Stop, Absent
  <2>3. Below(s, 0)'
    BY <2>2 DEF Below
  <2> QED
    BY <1>4, <2>1, <2>3
<1>6. CASE Restart
  <2>1. /\ inbox'[s] = <<>> /\ cursors' = disk /\ cursor' \in Nat /\ disk[Pair(s)] <= cursor'
        /\ loop' = "load" /\ ~running /\ UNCHANGED <<trackerAt, vouched, kvLast>>
    BY <1>6, RestartFacts DEF historyVars
  <2>2. Fits(s, disk[Pair(s)], kvDisk[Hashes]) /\ \A b, i : Stays(s, b, i)
    BY <2>1, FitsDown DEF WindowInv
  <2>3. Latest' = trackerAt[kvDisk[Hashes]] /\ Sent' = cursor'
    BY <2>1 DEF WindowInv, DownInv, Latest, Sent
  <2>4. Stop(s, 0)' = disk[Pair(s)] /\ disk[Pair(s)] \in Int
    BY <2>1, PairFacts, RowTypes DEF Stop, RTypeOK
  <2>5. ASSUME NEW b \in Numbers, b < disk[Pair(s)] PROVE b < cursor' /\ (b = disk[Pair(s)] - 1 => Reached(b)')
    <3>1. b < cursor'
      BY <2>1, <2>4, <2>5, NumberFacts
    <3>2. b = disk[Pair(s)] - 1 => Rooted(b, Latest', vouched')
      BY <2>1, <2>2, <2>3, <2>5 DEF Fits
    <3> QED
      BY <3>1, <3>2 DEF Reached
  <2>6. Below(s, 0)'
    BY <2>3, <2>4, <2>5 DEF Below
  <2> QED
    BY <1>4, <2>1, <2>6
<1> QED
  BY <1>1, <1>2, <1>3, <1>5, <1>6 DEF RNext, SourceStep

-----------------------------------------------------------------------------
(* Fits, step by step: what a row and a version of the window are fit for.    *)

\* A row is of a block.
LEMMA LogFacts ==
    ASSUME NEW x \in Logs
    PROVE  x[1] \in Numbers /\ x[1] \in Nat /\ x[1] \in Int
<1>1. x[1] \in Numbers
  BY ReorgAssumption
<1>2. \A n \in Numbers : n \in Nat /\ n \in Int
  BY DEF Numbers
<1> QED
  BY <1>1, <1>2

\* The source and the chain: what is claimed shrinks, and rollbacks take back.
LEMMA FitsSource ==
    ASSUME RTypeOK, RTypeOK', VersionInv, NEW s \in Sinks, Keeps(s), SourceStep,
           NEW r \in Int, NEW w \in Version, w <= kvLast[Hashes], Fits(s, r, w)
    PROVE  Fits(s, r, w)'
<1>1. trackerAt'[w] = trackerAt[w] /\ table' = table /\ running' = running
  BY SourceOnly DEF Keeps
<1>2. vouched \in Int /\ vouched' \in Int /\ vouched <= vouched' /\ Numbers \subseteq Nat
  BY SourceFacts DEF Keeps, RTypeOK
<1>3. ASSUME NEW view \in [Numbers -> Epochs], Remembers(view, trackerAt[w], born, epoch)
      PROVE  Remembers(view, trackerAt[w], born', epoch')
  <2>1. CASE \E f \in 1..height : Reorg(f)
    <3>1. trackerAt[w] \in HashWindow /\ \A b \in Numbers : trackerAt[w][b] <= epoch
      BY DEF RTypeOK, VersionInv
    <3> QED
      BY <1>3, <2>1, <3>1, RemembersReorg
  <2>2. CASE ~\E f \in 1..height : Reorg(f)
    <3>1. UNCHANGED <<born, epoch>>
      BY <2>2 DEF SourceStep, Mine, LoadMiss, Load, Poll, EmitRows, Remember, LocateFork, SendRollback, chainVars
    <3> QED
      BY <1>3, <3>1
  <2> QED
    BY <2>1, <2>2
<1>4. \A b \in Numbers : Stays(s, b, 0)' => Stays(s, b, 0)
  BY DEF Keeps
<1>5. PICK view \in [Numbers -> Epochs] :
        /\ Remembers(view, trackerAt[w], born, epoch)
        /\ \A x \in Vouched(RowsOf(view, FromBlock, r)) : Stays(s, x[1], 0) => x \in table[s]
  BY DEF Fits
<1>6. ASSUME NEW x \in Vouched(RowsOf(view, FromBlock, r))', Stays(s, x[1], 0)' PROVE x \in table'[s]
  <2>0. x \in RowsOf(view, FromBlock, r) /\ x[1] > vouched' /\ x \in Logs
    BY <1>6 DEF Vouched, RowsOf
  <2>1. x \in RowsOf(view, FromBlock, r) /\ x[1] > vouched' /\ x[1] \in Numbers /\ x[1] \in Int
    BY <2>0, LogFacts
  <2>2. x[1] > vouched
    BY <1>2, <2>1
  <2>3. x \in Vouched(RowsOf(view, FromBlock, r)) /\ Stays(s, x[1], 0)
    BY <1>4, <1>6, <2>1, <2>2 DEF Vouched
  <2> QED
    BY <1>1, <1>5, <2>3
<1>7. ASSUME NEW b \in Numbers, b < r, Stays(s, b, 0)'
      PROVE  /\ (b = r - 1 \/ b \in Known(Latest') \/ b \in Forks(s)') => Rooted(b, trackerAt[w], vouched')
             /\ running' => b < cursor'
  <2>1. Stays(s, b, 0)
    BY <1>4, <1>7
  <2>2. /\ (b = r - 1 \/ b \in Known(Latest) \/ b \in Forks(s)) => Rooted(b, trackerAt[w], vouched)
        /\ running => b < cursor
    BY <1>7, <2>1 DEF Fits
  <2>3. Rooted(b, trackerAt[w], vouched) => Rooted(b, trackerAt[w], vouched')
    BY <1>2, RootedGrows
  <2>4. b \in Known(Latest') \cup Forks(s)' => b \in Known(Latest) \cup Forks(s) \/ b <= vouched'
    BY <2>2 DEF Keeps
  <2>5. b <= vouched' => Rooted(b, trackerAt[w], vouched')
    BY DEF Rooted
  <2>6. running' => b < cursor'
    BY <1>1, <1>7, <2>2 DEF Keeps
  <2> QED
    BY <2>2, <2>3, <2>4, <2>5, <2>6
<1>8. \E v \in [Numbers -> Epochs] :
         /\ Remembers(v, trackerAt'[w], born', epoch')
         /\ \A x \in Vouched(RowsOf(v, FromBlock, r))' : Stays(s, x[1], 0)' => x \in table'[s]
  BY <1>1, <1>3, <1>5, <1>6
<1> QED
  BY <1>1, <1>7, <1>8 DEF Fits

\* A step of the sink or of a tick: fewer rollbacks are on their way, and the row
\* is what it was or what one of them makes of it.
LEMMA FitsSink ==
    ASSUME RTypeOK, NEW s \in Sinks, NEW r \in Int, NEW w, Fits(s, r, w),
           NEW n \in Int, n <= r, n = r \/ n - 1 \in Forks(s),
           UNCHANGED <<born, epoch, trackerAt, vouched, cursor, running>>, kvLast'[Hashes] = kvLast[Hashes],
           \A b \in Numbers : b < n /\ Stays(s, b, 0)' => Stays(s, b, 0),
           \A b \in Numbers : b \in Forks(s)' => b \in Forks(s),
           \A x \in table[s] : Stays(s, x[1], 0) => x \in table'[s]
    PROVE  Fits(s, n, w)'
<1>1. Latest' = Latest
  BY DEF Latest
<1>2. PICK view \in [Numbers -> Epochs] :
        /\ Remembers(view, trackerAt[w], born, epoch)
        /\ \A x \in Vouched(RowsOf(view, FromBlock, r)) : Stays(s, x[1], 0) => x \in table[s]
  BY DEF Fits
<1>3. ASSUME NEW x \in Vouched(RowsOf(view, FromBlock, n))', Stays(s, x[1], 0)' PROVE x \in table'[s]
  <2>1. x \in Logs /\ x[1] \in Numbers /\ x[1] \in Nat /\ FromBlock <= x[1] /\ x[1] < n /\ x[2] = view[x[1]] /\ x[1] > vouched
    <3>1. x \in Logs /\ FromBlock <= x[1] /\ x[1] < n /\ x[2] = view[x[1]] /\ x[1] > vouched
      BY <1>3 DEF Vouched, RowsOf
    <3> QED
      BY <3>1, NumberFacts
  <2>2. x[1] < r
    BY <2>1
  <2>3. x \in Vouched(RowsOf(view, FromBlock, r)) /\ Stays(s, x[1], 0)
    BY <1>3, <2>1, <2>2 DEF Vouched, RowsOf
  <2> QED
    BY <1>2, <2>3
<1>4. ASSUME NEW b \in Numbers, b < n, Stays(s, b, 0)'
      PROVE  /\ (b = n - 1 \/ b \in Known(Latest') \/ b \in Forks(s)') => Rooted(b, trackerAt'[w], vouched')
             /\ running' => b < cursor'
  <2>1. b < r /\ Stays(s, b, 0)
    BY <1>4, NumberFacts
  <2>2. b = n - 1 => b = r - 1 \/ b \in Forks(s)
    OBVIOUS
  <2>3. /\ (b = r - 1 \/ b \in Known(Latest) \/ b \in Forks(s)) => Rooted(b, trackerAt[w], vouched)
        /\ running => b < cursor
    BY <2>1 DEF Fits
  <2> QED
    BY <1>1, <2>2, <2>3
<1>5. \E v \in [Numbers -> Epochs] :
         /\ Remembers(v, trackerAt'[w], born', epoch')
         /\ \A x \in Vouched(RowsOf(v, FromBlock, n))' : Stays(s, x[1], 0)' => x \in table'[s]
  BY <1>2, <1>3
<1> QED
  BY <1>4, <1>5 DEF Fits

\* What a sink's step leaves of the rollbacks on their way and of the table.
LEMMA SinkStays ==
    ASSUME RTypeOK, StepInv, NEW s \in Sinks, SinkStep(s), ~torn'
    PROVE  /\ \A b \in Numbers : Stays(s, b, 0)' /\ (EndRewind(s) => b <= InHand(s).fork) => Stays(s, b, 0)
           /\ \A b \in Numbers : b \in Forks(s)' => b \in Forks(s)
           /\ \A x \in table[s] : Stays(s, x[1], 0) => x \in table'[s]
           /\ InHand(s) = inbox[s][1] /\ InHand(s) \in Message /\ InHand(s).fork \in Forks(s)
<1>0. UNCHANGED <<loop, fork>>
  BY SourceFrame DEF sourceVars
<1>1. /\ InHand(s) = inbox[s][1] /\ InHand(s) \in Message /\ 1 \in DOMAIN inbox[s]
      /\ \A j \in DOMAIN inbox[s] : j \in Nat /\ (j > 0 => j > 1 \/ j = 1)
  <2>1. inbox[s] # <<>> /\ inbox[s] \in Seq(Message)
    BY SinkFacts DEF SinkStep, Write, AckBatch, BeginRewind, EndRewind, GiveUp, StepInv
  <2> QED
    BY <2>1, ChannelTail, SinkFacts DEF InHand
<1>2. InHand(s).fork \in Forks(s)
  BY <1>1 DEF Forks
<1>3. CASE Write(s)
  <2>1. /\ inbox'[s] = inbox[s] /\ stage[s] # "rewinding"
        /\ table'[s] = IF InHand(s).fork = Absent THEN table[s] \cup InHand(s).rows ELSE Surviving(table[s], InHand(s).fork)
    BY <1>3 DEF Write, RTypeOK
  <2>2. \A x \in table[s] : Stays(s, x[1], 0) => x \in table'[s]
    BY <1>1, <2>1 DEF Stays, Surviving
  <2>3. \A b, i : Stays(s, b, i)' => Stays(s, b, i)
    BY <1>0, <2>1 DEF Stays
  <2>4. Forks(s)' = Forks(s)
    BY <1>0, <2>1 DEF Forks
  <2> QED
    BY <1>1, <1>2, <2>2, <2>3, <2>4
<1>4. CASE BeginRewind(s)
  <2>1. inbox'[s] = inbox[s] /\ table' = table
    BY <1>4 DEF BeginRewind
  <2>3. \A b, i : Stays(s, b, i)' => Stays(s, b, i)
    BY <1>0, <2>1 DEF Stays
  <2>4. Forks(s)' = Forks(s)
    BY <1>0, <2>1 DEF Forks
  <2> QED
    BY <1>1, <1>2, <2>1, <2>3, <2>4
<1>5. CASE AckBatch(s) \/ EndRewind(s)
  <2>1. stage[s] # "recv" /\ Finish(s) /\ table' = table
    BY <1>5 DEF AckBatch, EndRewind
  <2>2. /\ \A i \in DOMAIN inbox'[s] : i + 1 \in DOMAIN inbox[s] /\ inbox'[s][i] = inbox[s][i + 1]
        /\ \A b : Stays(s, b, 0)' <=> Stays(s, b, 1)
    BY <1>0, <2>1, ShiftFacts
  <2>3. \A b \in Numbers : b \in Forks(s)' => b \in Forks(s)
    BY <1>0, <2>2 DEF Forks
  <2>4. ASSUME NEW b \in Numbers, Stays(s, b, 1), EndRewind(s) => b <= InHand(s).fork PROVE Stays(s, b, 0)
    <3>1. InHand(s).fork # Absent => b <= InHand(s).fork
      BY <1>5, <2>4 DEF AckBatch
    <3> QED
      BY <1>1, <2>4, <3>1 DEF Stays
  <2> QED
    BY <1>1, <1>2, <2>1, <2>2, <2>3, <2>4
<1>6. CASE GiveUp(s)
  <2>1. inbox'[s] = <<>> /\ ~AwaitsRollback(s) /\ table' = table
    BY <1>6 DEF GiveUp, RTypeOK
  <2>2. DOMAIN inbox'[s] = {}
    BY <2>1, ChannelEmpty
  <2>3. \A b : Stays(s, b, 0)' => Stays(s, b, 0)
    BY <1>0, <2>1 DEF Stays, AwaitsRollback
  <2>4. ASSUME NEW b \in Numbers, b \in Forks(s)' PROVE b \in Forks(s)
    <3>1. loop' = "rollback" /\ b = fork'
      BY <2>2, <2>4 DEF Forks
    <3> QED
      BY <1>0, <3>1 DEF Forks
  <2> QED
    BY <1>1, <1>2, <2>1, <2>3, <2>4
<1> QED
  BY <1>3, <1>4, <1>5, <1>6 DEF SinkStep

-----------------------------------------------------------------------------
(* DurableInv, step by step.                                                 *)

\* The row and the version that the disk has, and those of the tick under way.
LEMMA DurableParts ==
    ASSUME RTypeOK, VersionInv, NEW s \in Sinks, NEW r, NEW w, Durable(s, r, w)
    PROVE  r \in Int /\ r \in Cursor /\ w \in Version /\ w <= kvLast[Hashes]
<1>1. Pair(s) \in Pairs /\ Hashes \in Keys
  BY PairFacts, LimitFacts
<1>2. disk[Pair(s)] \in Cursor /\ TickRow(Pair(s)) \in Cursor
  <2>1. /\ disk[Pair(s)] \in Cursor /\ txn[Pair(s)] \in Cursor /\ hand[Pair(s)] \in Cursor
        /\ cursors[Pair(s)] \in Cursor /\ snap[Pair(s)] \in Cursor /\ Absent \in Cursor
    BY <1>1 DEF RTypeOK, TypeOK, Cursor
  <2> QED
    BY <2>1 DEF TickRow, Floor, Least
<1>3. kvDisk[Hashes] \in Version /\ TickVersion \in Version
  <2>1. kvDisk[Hashes] \in Version /\ kvTxn[Hashes] \in Version \cup {Absent}
    BY <1>1 DEF RTypeOK, TypeOK
  <2> QED
    BY <2>1 DEF TickVersion
<1>4. kvDisk[Hashes] <= kvLast[Hashes] /\ TickVersion <= kvLast[Hashes]
  BY DEF VersionInv, TickVersion
<1> QED
  BY <1>2, <1>3, <1>4, CursorIsInt DEF Durable

\* Where the rows and the versions in question stay, so does what is durable.
LEMMA DurableFrame ==
    ASSUME NEW s \in Sinks, NEW r, NEW w,
           UNCHANGED <<disk[Pair(s)], ckpt, txn[Pair(s)], hand[Pair(s)], kvDisk[Hashes], kvTxn[Hashes], stale>>,
           Pair(s) \in staleTxn => Pair(s) \in staleTxn',
           Pair(s) \in todo' <=> Pair(s) \in todo,
           Floor(Pair(s))' = Floor(Pair(s)) \/ txn[Pair(s)] # Absent \/ hand[Pair(s)] # Absent
              \/ Pair(s) \notin todo,
           Durable(s, r, w)'
    PROVE  Durable(s, r, w)
<1>1. TickVersion' = TickVersion
  BY DEF TickVersion
<1>2. TickRow(Pair(s))' = TickRow(Pair(s))
  BY DEF TickRow
<1> QED
  BY <1>1, <1>2 DEF Durable

\* Rewinding the watermark lowers the row that is written with it as far.
LEMMA RowRewound ==
    ASSUME RTypeOK, StepInv, PhaseInv, NEW s \in Sinks, TickInv(s), BeginRewind(s), NEW r, NEW w, Durable(s, r, w)'
    PROVE  \E o \in Cursor : Durable(s, o, w) /\ (r = o \/ (r = InHand(s).fork + 1 /\ r <= o))
<1> DEFINE p == Pair(s)
           n == InHand(s).fork + 1
<1>1. /\ p \in Pairs /\ n \in Nat
      /\ cursors' = [cursors EXCEPT ![p] = IF @ = Absent THEN n ELSE Least(@, n)]
      /\ UNCHANGED <<disk, ckpt, snap, todo, hand, txn, kvDisk, kvTxn, stale, staleTxn>>
  <2>1. n \in Nat
    BY InHandFacts, NumberFacts DEF BeginRewind
  <2> QED
    BY <2>1, PairFacts DEF BeginRewind, RewindMemory, persistVars, kvVars
<1>2. /\ disk[p] \in Cursor /\ txn[p] \in Cursor /\ hand[p] \in Cursor
      /\ cursors[p] \in Cursor /\ snap[p] \in Cursor /\ Absent \in Cursor /\ Floor(p) \in Cursor
  <2>1. /\ disk[p] \in Cursor /\ txn[p] \in Cursor /\ hand[p] \in Cursor
        /\ cursors[p] \in Cursor /\ snap[p] \in Cursor /\ Absent \in Cursor
    BY <1>1 DEF RTypeOK, TypeOK, Cursor
  <2> QED
    BY <2>1 DEF Floor, Least
<1>3. TickVersion' = TickVersion
  BY <1>1 DEF TickVersion
<1>4. CASE p \in todo /\ txn[p] = Absent /\ hand[p] = Absent
  <2>1. snap[p] # Absent /\ cursors[p] # Absent
    BY <1>1, <1>4 DEF PhaseInv
  <2>2. cursors[p] \in Int /\ snap[p] \in Int
    BY <1>2, CursorIsInt
  <2>3. cursors'[p] = Least(cursors[p], n) /\ cursors'[p] # Absent
    <3>1. cursors'[p] = Least(cursors[p], n)
      BY <1>1, <2>1 DEF RTypeOK, TypeOK
    <3> HIDE DEF n, p
    <3>2. n # Absent
      BY <1>1, LimitFacts
    <3> QED
      BY <2>1, <3>1, <3>2 DEF Least
  <2>4. Floor(p) = Least(snap[p], cursors[p]) /\ Floor(p)' = Least(snap[p], Least(cursors[p], n))
    BY <1>1, <2>1, <2>3 DEF Floor
  <2>5. Floor(p)' = Floor(p) \/ (Floor(p)' = n /\ Floor(p)' <= Floor(p))
    <3> HIDE DEF n, p
    <3> QED
      BY <1>1, <2>2, <2>4 DEF Least
  <2>6. TickRow(p) = Floor(p) /\ TickRow(p)' = Floor(p)'
    BY <1>1, <1>4 DEF TickRow
  <2> QED
    BY <1>1, <1>2, <1>3, <2>5, <2>6 DEF Durable
<1>5. CASE ~(p \in todo /\ txn[p] = Absent /\ hand[p] = Absent)
  <2>1. TickRow(p)' = TickRow(p) /\ TickRow(p) \in Cursor
    BY <1>1, <1>2, <1>5 DEF TickRow
  <2> QED
    BY <1>1, <1>2, <1>3, <2>1 DEF Durable
<1> QED
  BY <1>4, <1>5

\* An ack leaves the row that a tick will write alone, or the tick is noted.
LEMMA FloorStays ==
    ASSUME RTypeOK, StepInv, PhaseInv, NEW s \in Sinks, AckBatch(s), ~ahead', Pair(s) \in todo \/ ckpt = "flushing",
           txn[Pair(s)] = Absent, hand[Pair(s)] = Absent
    PROVE  /\ Floor(Pair(s))' = Floor(Pair(s))
           /\ snap[Pair(s)] <= cursors[Pair(s)] /\ snap' = snap
<1> DEFINE p == Pair(s)
           n == InHand(s).ack
<1>1. p \in Pairs /\ cursors' = [cursors EXCEPT ![p] = Greatest(@, n)] /\ snap' = snap
  BY PairFacts DEF AckBatch, Ack, persistVars
<1>2. cursors[p] \in Int /\ snap[p] \in Int /\ n \in Nat
  BY <1>1, RowTypes, InHandFacts, NumberFacts DEF RTypeOK, AckBatch
<1>3. cursors'[p] = Greatest(cursors[p], n)
  BY <1>1 DEF RTypeOK, TypeOK
<1>4. ~FloorMoves(p)
  BY DEF AckBatch
<1>5. snap[p] <= cursors[p]
  BY <1>2, <1>4 DEF FloorMoves, InTxn
<1>6. cursors'[p] >= cursors[p] /\ cursors'[p] \in Nat
  <2> HIDE DEF n, p
  <2> QED
    BY <1>2, <1>3 DEF Greatest
<1>7. snap[p] # Absent => cursors[p] # Absent
  BY <1>1 DEF PhaseInv
<1>8. Floor(p)' = Floor(p)
  <2>1. Floor(p) = snap[p]
    <3> HIDE DEF p
    <3> QED
      BY <1>2, <1>5 DEF Floor, Least
  <2>2. Floor(p)' = snap[p]
    <3>1. snap[p] <= cursors'[p]
      BY <1>2, <1>5, <1>6
    <3> HIDE DEF p
    <3> QED
      BY <1>1, <1>2, <1>6, <3>1 DEF Floor, Least
  <2> QED
    BY <2>1, <2>2
<1> QED
  BY <1>1, <1>5, <1>8

\* A sink leaves ticks and the table of module state alone.
LEMMA SinkLeaves ==
    ASSUME NEW t \in Sinks, SinkStep(t)
    PROVE  /\ UNCHANGED <<ckpt, snap, todo, hand, txn, kvDisk, kvTxn, stale>>
           /\ ~EndRewind(t) => UNCHANGED <<disk, staleTxn>>
           /\ ~BeginRewind(t) /\ ~AckBatch(t) => UNCHANGED cursors
           /\ staleTxn \subseteq staleTxn'
<1>1. CASE Write(t)
  BY <1>1 DEF Write, vars, cursorVars, persistVars, kvVars, historyVars
<1>2. CASE AckBatch(t) \/ GiveUp(t)
  BY <1>2 DEF AckBatch, Ack, GiveUp, Pause, persistVars, kvVars, historyVars
<1>3. CASE BeginRewind(t) \/ EndRewind(t)
  BY <1>3 DEF BeginRewind, RewindMemory, EndRewind, RewindUpdate, persistVars, kvVars
<1> QED
  BY <1>1, <1>2, <1>3 DEF SinkStep

\* A sink's step that leaves what is durable alone.
LEMMA DurableOther ==
    ASSUME RTypeOK, VersionInv, NEW t \in Sinks, SinkStep(t), NEW s \in Sinks, s # t, DurableInv(s),
           NEW r, NEW w, Durable(s, r, w)'
    PROVE  Fits(s, r, w)'
<1>1. /\ UNCHANGED <<ckpt, snap, todo, hand, txn, kvDisk, kvTxn, stale>>
      /\ UNCHANGED <<born, epoch, trackerAt, vouched, cursor, running, kvLast, loop, fork>>
      /\ staleTxn \subseteq staleTxn'
  BY SinkLeaves, SourceFrame DEF chainVars, sourceVars
<1>2. /\ inbox'[s] = inbox[s] /\ table'[s] = table[s]
      /\ cursors'[Pair(s)] = cursors[Pair(s)] /\ disk'[Pair(s)] = disk[Pair(s)]
  BY SinkOnly
<1>3. Floor(Pair(s))' = Floor(Pair(s))
  BY <1>1, <1>2 DEF Floor
<1>4. Durable(s, r, w)
  BY <1>1, <1>2, <1>3, DurableFrame
<1>5. Fits(s, r, w) /\ r \in Int
  BY <1>4, DurableParts DEF DurableInv
<1>6. Forks(s)' = Forks(s) /\ \A b, i : Stays(s, b, i)' <=> Stays(s, b, i)
  BY <1>1, <1>2 DEF Forks, Stays
<1>7. r <= r
  BY <1>5
<1> QED
  BY <1>1, <1>2, <1>5, <1>6, <1>7, FitsSink

\* The sink's own steps: a rewind takes the rows down to a fork that fits.
LEMMA DurableSink ==
    ASSUME RTypeOK, StepInv, PhaseInv, VersionInv, NEW s \in Sinks, TickInv(s), DurableInv(s), SinkStep(s),
           ~torn', ~ahead', NEW r, NEW w, Durable(s, r, w)'
    PROVE  Fits(s, r, w)'
<1> DEFINE p == Pair(s)
           f == InHand(s).fork
<1>1. /\ UNCHANGED <<ckpt, snap, todo, hand, txn, kvDisk, kvTxn, stale>>
      /\ UNCHANGED <<born, epoch, trackerAt, vouched, cursor, running, kvLast, loop, fork>>
      /\ p \in Pairs /\ staleTxn \subseteq staleTxn'
  BY SinkLeaves, SourceFrame, PairFacts DEF chainVars, sourceVars
<1>2. /\ \A b \in Numbers : Stays(s, b, 0)' /\ (EndRewind(s) => b <= f) => Stays(s, b, 0)
      /\ \A b \in Numbers : b \in Forks(s)' => b \in Forks(s)
      /\ \A x \in table[s] : Stays(s, x[1], 0) => x \in table'[s]
      /\ f \in Forks(s)
  BY SinkStays
<1>3. ASSUME NEW o \in Cursor, Durable(s, o, w), r = o \/ (r = f + 1 /\ r <= o), f \in Int,
             EndRewind(s) => r <= f + 1
      PROVE  Fits(s, r, w)'
  <2>1. Fits(s, o, w) /\ o \in Int /\ r \in Int
    BY <1>3, DurableParts DEF DurableInv
  <2>2. r <= o /\ (r = o \/ r - 1 \in Forks(s))
    <3>1. r = f + 1 => r - 1 = f
      BY <1>3
    <3> QED
      BY <1>2, <1>3, <2>1, <3>1
  <2>3. \A b \in Numbers : b < r /\ Stays(s, b, 0)' => Stays(s, b, 0)
    <3>1. ASSUME NEW b \in Numbers, b < r, Stays(s, b, 0)' PROVE EndRewind(s) => b <= f
      BY <1>3, <2>1, <3>1, NumberFacts
    <3> QED
      BY <1>2, <3>1
  <2> HIDE DEF f, p
  <2> QED
    BY <1>1, <1>2, <2>1, <2>2, <2>3, FitsSink
<1>4. f \in Int
  BY SinkStays, BatchFacts
<1>5. ASSUME ~EndRewind(s), Durable(s, r, w) PROVE Fits(s, r, w)'
  BY <1>3, <1>4, <1>5, DurableParts
<1>6. CASE Write(s) \/ GiveUp(s)
  <2>1. UNCHANGED <<cursors, disk, staleTxn>> /\ ~EndRewind(s)
    BY <1>6 DEF Write, GiveUp, Pause, vars, cursorVars, historyVars, EndRewind
  <2>2. Floor(p)' = Floor(p)
    BY <1>1, <2>1 DEF Floor
  <2>3. Durable(s, r, w)
    BY <1>1, <2>1, <2>2, DurableFrame
  <2> QED
    BY <1>5, <2>1, <2>3
<1>7. CASE AckBatch(s)
  <2>1. UNCHANGED <<disk, staleTxn>> /\ ~EndRewind(s)
    BY <1>7 DEF AckBatch, Ack, historyVars, EndRewind
  <2>2. Floor(p)' = Floor(p) \/ txn[p] # Absent \/ hand[p] # Absent \/ p \notin todo
    BY <1>7, FloorStays
  <2>3. Durable(s, r, w)
    BY <1>1, <2>1, <2>2, DurableFrame
  <2> QED
    BY <1>5, <2>1, <2>3
<1>8. CASE BeginRewind(s)
  <2>1. ~EndRewind(s)
    BY <1>8 DEF BeginRewind, EndRewind
  <2>2. PICK o \in Cursor : Durable(s, o, w) /\ (r = o \/ (r = f + 1 /\ r <= o))
    BY <1>8, RowRewound
  <2> QED
    BY <1>3, <1>4, <2>1, <2>2
<1>9. CASE EndRewind(s)
  <2>1. /\ disk' = [disk EXCEPT ![p] = Least(@, rewinding[p])]
        /\ InTxn(p) => p \in staleTxn'
        /\ cursors' = cursors /\ stage[s] = "rewinding"
    BY <1>9 DEF EndRewind, RewindUpdate
  <2>2. rewinding[p] = f + 1 /\ f # Absent /\ f \in Nat /\ cursors[p] <= f + 1
    <3>1. rewinding[p] = f + 1 /\ f # Absent /\ cursors[p] <= f + 1
      BY <2>1 DEF TickInv
    <3> QED
      BY <3>1, SinkStays, BatchFacts
  <2>3. disk'[p] = Least(disk[p], f + 1) /\ disk[p] \in Int /\ cursors[p] \in Int /\ snap[p] \in Int
    BY <1>1, <2>1, <2>2, RowTypes DEF RTypeOK, TypeOK
  <2>4. CASE p \notin stale /\ r = disk'[p] /\ w = kvDisk[Hashes]
    <3>1. Durable(s, disk[p], w) /\ disk[p] \in Cursor
      BY <1>1, <2>4 DEF Durable, RTypeOK, TypeOK
    <3>2. (r = disk[p] \/ (r = f + 1 /\ r <= disk[p])) /\ r <= f + 1
      <4> HIDE DEF f, p
      <4> QED
        BY <2>2, <2>3, <2>4 DEF Least
    <3> QED
      BY <1>3, <1>4, <3>1, <3>2
  <2>5. CASE ckpt = "rows" /\ p \notin staleTxn' /\ r = TickRow(p)' /\ w = TickVersion'
    <3>1. ~InTxn(p) /\ TickVersion' = TickVersion /\ Floor(p)' = Floor(p)
      BY <1>1, <2>1, <2>5 DEF TickVersion, Floor
    <3>2. TickRow(p)' = TickRow(p)
      BY <1>1, <3>1 DEF TickRow
    <3>3. Durable(s, r, w)
      BY <1>1, <2>5, <3>1, <3>2 DEF Durable
    <3>4. r = Absent \/ (p \in todo /\ r = Floor(p))
      BY <2>5, <3>1, <3>2 DEF TickRow, InTxn
    <3>5. r <= f + 1
      <4>1. CASE r = Absent
        BY <2>2, <4>1, LimitFacts
      <4>2. CASE p \in todo /\ r = Floor(p)
        <5>1. cursors[p] # Absent
          BY <1>1, <4>2 DEF PhaseInv
        <5> HIDE DEF f, p
        <5> QED
          BY <2>2, <2>3, <4>2, <5>1 DEF Floor, Least
      <4> QED
        BY <3>4, <4>1, <4>2
    <3>6. r \in Cursor
      BY <3>3, DurableParts
    <3> QED
      BY <1>3, <1>4, <3>3, <3>5, <3>6
  <2> QED
    BY <1>1, <2>4, <2>5 DEF Durable
<1> QED
  BY <1>6, <1>7, <1>8, <1>9 DEF SinkStep

-----------------------------------------------------------------------------
(* What a tick makes durable.                                                *)

\* A row below the sink's cursor that no rollback takes back is in the table
\* already: it cannot be on its way.
LEMMA TableBelow ==
    ASSUME RTypeOK, NEW s \in Sinks, NEW x \in Applied(s), x[1] < Stop(s, 0), Stays(s, x[1], 0), Ordered(s, 0)
    PROVE  x \in table[s]
<1>1. SUFFICES ASSUME NEW i \in Pending(s), inbox[s][i].fork = Absent, x \in inbox[s][i].rows
               PROVE  FALSE
  BY DEF Applied
<1>2. i \in DOMAIN inbox[s] /\ i > 0 /\ x \in Logs
  <2>1. i \in DOMAIN inbox[s]
    BY DEF Pending
  <2> QED
    BY <2>1, SinkFacts DEF Applied
<1>3. x[1] \in Int /\ Stop(s, 0) \in Int
  BY <1>2, LogFacts, StopInt
<1>4. ~(Stop(s, 0) <= x[1])
  BY <1>3
<1>5. PICK k \in DOMAIN inbox[s] : 0 < k /\ inbox[s][k].fork # Absent /\ inbox[s][k].fork < x[1]
  BY <1>1, <1>2, <1>4 DEF Ordered
<1>6. x[1] <= inbox[s][k].fork
  BY <1>5 DEF Stays
<1>7. inbox[s][k].fork \in Int
  BY SinkFacts, BatchFacts
<1> QED
  BY <1>3, <1>5, <1>6, <1>7

\* The watermark a tick writes and the window it drains fit each other.
LEMMA FitsFloor ==
    ASSUME RTypeOK, StepInv, PhaseInv, WindowInv, NEW s \in Sinks, StreamInv(s), TickInv(s),
           NEW view \in [Numbers -> Epochs], Tracks(s, view), running, ckpt = "flushing",
           snap[Pair(s)] # Absent, loop = "save" => Floor(Pair(s)) <= cursor
    PROVE  Fits(s, Floor(Pair(s)), kvLast[Hashes])
<1> DEFINE p == Pair(s)
           F == Floor(p)
<1>1. p \in Pairs /\ cursors[p] # Absent /\ cursors[p] \in Int /\ snap[p] \in Int
  BY PairFacts, RowTypes DEF PhaseInv, RTypeOK
<1>2. F \in Int /\ F <= cursors[p] /\ (F = cursors[p] \/ (F = snap[p] /\ snap[p] <= cursors[p]))
  <2> HIDE DEF p
  <2> QED
    BY <1>1 DEF Floor, Least
<1>3. /\ cursor \in Nat /\ resp.next \in Nat /\ \A b \in Numbers : b \in Nat
  BY SourceFacts
<1>4. Stop(s, 0) = cursors[p] /\ Below(s, 0) /\ Ordered(s, 0)
  BY StreamParts DEF Stop
<1>5. ASSUME NEW b \in Numbers, b < F, Stays(s, b, 0)
      PROVE  b < Sent /\ b < cursor /\ b < cursors[p]
  <2>1. b < cursors[p]
    BY <1>1, <1>2, <1>3, <1>5
  <2>2. b < Sent
    BY <1>4, <1>5, <2>1 DEF Below
  <2>3. b < cursor
    <3>1. CASE loop = "save"
      BY <1>2, <1>3, <1>5, <3>1
    <3>2. CASE loop # "save"
      BY <2>2, <3>2 DEF Sent
    <3> QED
      BY <3>1, <3>2
  <2> QED
    BY <2>1, <2>2, <2>3
<1>6. ASSUME NEW b \in Numbers, b < cursor, Reached(b) PROVE Rooted(b, Latest, vouched)
  <2>1. loop = "save" => b # resp.next - 1
    <3>1. loop = "save" => cursor < resp.next
      BY DEF StepInv, Holding
    <3> QED
      BY <1>3, <1>6, <3>1
  <2> QED
    BY <1>6, <2>1 DEF Reached
<1> HIDE DEF F, p
<1>7. ASSUME NEW x \in Vouched(RowsOf(view, FromBlock, F)), Stays(s, x[1], 0) PROVE x \in table[s]
  <2>1. x \in Logs /\ x[1] \in Numbers /\ x[1] < F
    BY <1>7, LogFacts DEF Vouched, RowsOf
  <2>2. x[1] < Sent /\ x[1] < cursors[p]
    BY <1>5, <1>7, <2>1
  <2>3. x \in Vouched(RowsOf(view, FromBlock, Edge(s)))
    BY <1>7, <2>2 DEF Vouched, RowsOf, Edge, p
  <2>4. x \in Applied(s)
    BY <1>7, <2>3 DEF Tracks
  <2> QED
    BY <1>4, <1>7, <2>2, <2>4, TableBelow
<1>8. ASSUME NEW b \in Numbers, b < F, Stays(s, b, 0), b = F - 1 PROVE Reached(b)
  <2>1. CASE F = cursors[p]
    BY <1>4, <1>8, <2>1 DEF Below
  <2>2. CASE F = snap[p] /\ snap[p] <= cursors[p]
    BY <1>8, <2>2 DEF TickInv, p
  <2> QED
    BY <1>2, <2>1, <2>2
<1>9. ASSUME NEW b \in Numbers, b < F, Stays(s, b, 0), b \in Forks(s) PROVE Rooted(b, Latest, vouched)
  <2>1. CASE loop = "rollback" /\ b = fork
    BY <2>1 DEF WindowInv, LoopInv, Rooted
  <2>2. ASSUME NEW i \in DOMAIN inbox[s], b = inbox[s][i].fork PROVE Rooted(b, Latest, vouched)
    <3>1. b # Absent /\ i \in Nat /\ i > 0 /\ b \in Nat
      <4>1. inbox[s] \in Seq(Message)
        BY SinkFacts
      <4>2. i \in Nat /\ i > 0
        BY <4>1
      <4> QED
        BY <1>3, <4>2, LimitFacts
    <3>2. Stop(s, i) = b + 1
      BY <2>2, <3>1 DEF Stop
    <3>3. Stays(s, b, i)
      <4>1. \A j \in DOMAIN inbox[s] : j \in Nat
        BY SinkFacts
      <4>2. \A j \in DOMAIN inbox[s] : j > i => j > 0
        BY <3>1, <4>1
      <4> QED
        BY <1>9, <4>2 DEF Stays
    <3>4. b < Stop(s, i) /\ b = Stop(s, i) - 1
      BY <3>1, <3>2
    <3>5. Below(s, i)
      BY StreamParts
    <3>6. Reached(b)
      BY <3>3, <3>4, <3>5 DEF Below
    <3> QED
      BY <1>5, <1>6, <1>9, <3>6
  <2> QED
    BY <1>9, <2>1, <2>2 DEF Forks
<1>10. ASSUME NEW b \in Numbers, b < F, Stays(s, b, 0), b = F - 1 \/ b \in Known(Latest) \/ b \in Forks(s)
       PROVE  Rooted(b, Latest, vouched)
  <2>1. CASE b = F - 1
    BY <1>5, <1>6, <1>8, <1>10, <2>1
  <2>2. CASE b \in Known(Latest)
    BY <2>2 DEF Rooted
  <2> QED
    BY <1>9, <1>10, <2>1, <2>2
<1>11. Remembers(view, Latest, born, epoch)
  BY DEF Tracks
<1> QED
  BY <1>5, <1>7, <1>10, <1>11 DEF Fits, Latest, F, p

\* A tick leaves tables, channels and the source alone.
LEMMA FitsTick ==
    ASSUME RTypeOK, NEW s \in Sinks, Tick \/ Drain, NEW r \in Int, NEW w, Fits(s, r, w)
    PROVE  Fits(s, r, w)'
<1>1. UNCHANGED <<born, epoch, trackerAt, vouched, cursor, kvLast, loop, fork, inbox, table>> /\ running' = running
  BY SourceFrame, TickOnly DEF chainVars, sourceVars
<1>2. Forks(s)' = Forks(s) /\ \A b, i : Stays(s, b, i)' <=> Stays(s, b, i)
  BY <1>1 DEF Forks, Stays
<1>3. r <= r
  OBVIOUS
<1> QED
  BY <1>1, <1>2, <1>3, FitsSink

\* Between the drain and the commit a tick moves the row it writes from the
\* floor to its hand, to its transaction and to the disk.
LEMMA DurableTick ==
    ASSUME RTypeOK, PhaseInv, NEW s \in Sinks, TickInv(s), Tick, NEW r, NEW w, Durable(s, r, w)'
    PROVE  Durable(s, r, w)
<1> DEFINE p == Pair(s)
<1>1. p \in Pairs /\ UNCHANGED cursors
  BY PairFacts, TickOnly
<1>2. /\ \A q \in Pairs : hand[q] # Absent => q \in todo
      /\ hand[p] # Absent => \A q \in Pairs : hand[q] # Absent => q = p
      /\ ckpt = "rows" => (txn[p] = Absent <=> p \in todo \/ snap[p] = Absent)
      /\ p \in todo => snap[p] # Absent
      /\ (ckpt # "idle" /\ snap[p] = Absent) => disk[p] = Absent
  BY <1>1 DEF PhaseInv, TickInv
<1>3. CASE Snapshot
  BY <1>3 DEF Snapshot, Durable, cursorVars, kvVars
<1>4. ASSUME NEW q \in Pairs, ReadFloor(q) PROVE Durable(s, r, w)
  <2>1. /\ UNCHANGED <<disk, ckpt, snap, todo, txn, kvDisk, kvTxn, stale, staleTxn>>
        /\ hand' = [hand EXCEPT ![q] = Floor(q)] /\ q \in todo /\ hand = NoRows /\ ckpt = "rows"
    BY <1>4 DEF ReadFloor, cursorVars, kvVars, historyVars
  <2>2. Floor(p)' = Floor(p) /\ TickVersion' = TickVersion /\ hand[p] = Absent
    BY <1>1, <2>1 DEF Floor, TickVersion, NoRows
  <2>3. CASE q = p
    <3>1. hand'[p] = Floor(p) /\ txn[p] = Absent
      BY <1>1, <1>2, <2>1, <2>3 DEF RTypeOK, TypeOK
    <3>2. TickRow(p)' = TickRow(p)
      BY <2>1, <2>2, <2>3, <3>1 DEF TickRow
    <3> QED
      BY <2>1, <2>2, <3>2 DEF Durable
  <2>4. CASE q # p
    <3>1. hand'[p] = hand[p]
      BY <1>1, <2>1, <2>4 DEF RTypeOK, TypeOK
    <3>2. TickRow(p)' = TickRow(p)
      BY <2>1, <2>2, <3>1 DEF TickRow
    <3> QED
      BY <2>1, <2>2, <3>2 DEF Durable
  <2> QED
    BY <2>3, <2>4
<1>5. ASSUME NEW q \in Pairs, InsertRow(q) PROVE Durable(s, r, w)
  <2>1. /\ UNCHANGED <<disk, ckpt, snap, kvDisk, kvTxn, stale, staleTxn>>
        /\ txn' = [txn EXCEPT ![q] = hand[q]] /\ hand' = NoRows /\ todo' = todo \ {q} /\ hand[q] # Absent
    BY <1>5 DEF InsertRow, cursorVars, kvVars, historyVars
  <2>2. Floor(p)' = Floor(p) /\ TickVersion' = TickVersion /\ hand'[p] = Absent
    BY <1>1, <2>1 DEF Floor, TickVersion, NoRows
  <2>3. CASE q = p
    <3>1. txn'[p] = hand[p] /\ p \in todo
      BY <1>1, <1>2, <2>1, <2>3 DEF RTypeOK, TypeOK
    <3>2. ckpt = "rows" => TickRow(p)' = TickRow(p)
      BY <1>2, <2>1, <2>3, <3>1 DEF TickRow
    <3> QED
      BY <2>1, <2>2, <3>2 DEF Durable
  <2>4. CASE q # p
    <3>1. txn'[p] = txn[p] /\ hand[p] = Absent
      BY <1>1, <1>2, <2>1, <2>4 DEF RTypeOK, TypeOK
    <3>2. TickRow(p)' = TickRow(p)
      BY <2>1, <2>2, <2>4, <3>1 DEF TickRow
    <3> QED
      BY <2>1, <2>2, <3>2 DEF Durable
  <2> QED
    BY <2>3, <2>4
<1>6. CASE Commit
  <2>1. /\ ckpt = "rows" /\ ckpt' = "idle" /\ todo = {}
        /\ disk'[p] = (IF txn[p] = Absent THEN disk[p] ELSE txn[p])
        /\ stale' = staleTxn \cup {q \in stale : txn[q] = Absent}
    BY <1>1, <1>6 DEF Commit
  <2>2. kvDisk'[Hashes] = TickVersion
    BY <1>6, LimitFacts DEF Commit, TickVersion
  <2>3. disk'[p] = TickRow(p)
    BY <1>1, <1>2, <2>1 DEF TickRow
  <2> QED
    BY <2>1, <2>2, <2>3 DEF Durable
<1> QED
  BY <1>3, <1>4, <1>5, <1>6 DEF Tick

\* The drain takes the window as last saved along with the watermarks.
LEMMA DurableDrain ==
    ASSUME RTypeOK, StepInv, PhaseInv, KvRowInv(Hashes), WindowInv, NEW s \in Sinks, StreamInv(s), TickInv(s),
           DurableInv(s), NEW view \in [Numbers -> Epochs], Tracks(s, view), Drain, ~ahead',
           NEW r, NEW w, Durable(s, r, w)'
    PROVE  Fits(s, r, w)'
<1> DEFINE p == Pair(s)
<1>1. /\ p \in Pairs /\ running /\ ckpt = "flushing" /\ Hashes \in Keys
      /\ todo' = {q \in Pairs : snap[q] # Absent} /\ kvTxn' = kvDirty
      /\ UNCHANGED <<cursors, disk, snap, hand, txn, kvDisk, stale, staleTxn, kvLast>>
      /\ ~(loop = "save" /\ \E q \in Pairs : Floor(q) > cursor)
  BY PairFacts, LimitFacts DEF Drain, PersistBegin, cursorVars, historyVars
<1>2. r \in Int /\ Fits(s, r, w)
  <2>1. CASE Durable(s, r, w)
    BY <2>1, DurableParts DEF DurableInv, WindowInv
  <2>2. CASE r = TickRow(p)' /\ w = TickVersion'
    <3>1. w = kvLast[Hashes]
      <4>1. kvTxn[Hashes] = Absent /\ Hashes \notin kvDropped
        BY <1>1 DEF KvRowInv, WindowInv, VersionInv
      <4> QED
        BY <1>1, <2>2, <4>1 DEF TickVersion, KvRowInv
    <3>2. txn'[p] = Absent /\ hand'[p] = Absent
      BY <1>1 DEF PhaseInv, NoRows
    <3>3. Floor(p)' = Floor(p)
      BY <1>1 DEF Floor
    <3>4. CASE snap[p] # Absent
      <4>1. r = Floor(p)
        BY <1>1, <2>2, <3>2, <3>3, <3>4 DEF TickRow
      <4>2. Floor(p) \in Int /\ cursor \in Int
        <5>1. cursors[p] \in Int /\ snap[p] \in Int
          BY <1>1, RowTypes DEF RTypeOK
        <5> QED
          BY <5>1, SourceFacts DEF Floor, Least
      <4>3. loop = "save" => Floor(p) <= cursor
        BY <1>1, <4>2
      <4> QED
        BY <1>1, <3>1, <3>4, <4>1, <4>2, <4>3, FitsFloor
    <3>5. CASE snap[p] = Absent
      <4>1. r = Absent
        BY <1>1, <2>2, <3>2, <3>5 DEF TickRow
      <4>2. \A b \in Numbers : ~(b < r)
        BY <4>1, SourceFacts, LimitFacts
      <4>3. RowsOf(view, FromBlock, r) = {}
        BY <4>2, LogFacts DEF RowsOf
      <4>4. Remembers(view, trackerAt[w], born, epoch)
        BY <3>1 DEF Tracks, Latest
      <4> QED
        BY <4>1, <4>2, <4>3, <4>4, LimitFacts DEF Fits, Vouched
    <3> QED
      BY <3>4, <3>5
  <2> QED
    BY <1>1, <2>1, <2>2 DEF Durable
<1> QED
  BY <1>2, FitsTick

\* The source writes no row and commits no version.
LEMMA DurableSource ==
    ASSUME RTypeOK, RTypeOK', VersionInv, NEW s \in Sinks, Keeps(s), DurableInv(s), SourceStep,
           NEW r, NEW w, Durable(s, r, w)'
    PROVE  Fits(s, r, w)'
<1>1. UNCHANGED <<cursors, disk, ckpt, snap, todo, hand, txn, kvDisk, kvTxn, stale, staleTxn>>
  BY SourceOnly
<1>2. Floor(Pair(s))' = Floor(Pair(s))
  BY <1>1 DEF Floor
<1>3. Durable(s, r, w)
  BY <1>1, <1>2, DurableFrame
<1>4. r \in Int /\ r \in Cursor /\ w \in Version /\ w <= kvLast[Hashes]
  BY <1>3, DurableParts
<1>5. Fits(s, r, w)
  BY <1>3, <1>4 DEF DurableInv
<1> QED
  BY <1>4, <1>5, FitsSource

\* What the disk has when the process dies fits, once no rollback is under way.
LEMMA DurableKill ==
    ASSUME RTypeOK, VersionInv, NEW s \in Sinks, DurableInv(s), Kill, ~torn', NEW r, NEW w, Durable(s, r, w)'
    PROVE  Fits(s, r, w)'
<1>1. /\ ~running' /\ ckpt' = "idle" /\ stale = {} /\ stale' = {} /\ kvLast' = kvDisk
      /\ loop # "rollback" /\ ~AwaitsRollback(s) /\ loop' = "load" /\ inbox' = [t \in Sinks |-> <<>>]
      /\ UNCHANGED <<disk, kvDisk, epoch, born, trackerAt, table, vouched>>
  BY KillFacts DEF chainVars
<1>2. r = disk[Pair(s)] /\ w = kvDisk[Hashes] /\ Durable(s, r, w)
  BY <1>1 DEF Durable
<1>3. Fits(s, r, w)
  BY <1>2, DurableParts DEF DurableInv
<1>4. \A b : Stays(s, b, 0)
  BY <1>1 DEF Stays, AwaitsRollback
<1>5. Latest' = trackerAt[w] /\ Forks(s)' = {}
  <2>1. DOMAIN inbox'[s] = {}
    BY <1>1, ChannelEmpty
  <2> QED
    BY <1>1, <1>2, <2>1 DEF Latest, Forks
<1>6. PICK view \in [Numbers -> Epochs] :
         /\ Remembers(view, trackerAt[w], born, epoch)
         /\ \A x \in Vouched(RowsOf(view, FromBlock, r)) : x \in table[s]
  BY <1>3, <1>4 DEF Fits
<1>7. \A b \in Numbers : b < r /\ b = r - 1 => Rooted(b, trackerAt[w], vouched)
  BY <1>3, <1>4 DEF Fits
<1>8. \A b \in Known(trackerAt[w]) : Rooted(b, trackerAt[w], vouched)
  BY DEF Rooted
<1>9. /\ Remembers(view, trackerAt[w], born, epoch)'
      /\ \A x \in Vouched(RowsOf(view, FromBlock, r))' : x \in table'[s]
  BY <1>1, <1>6 DEF Vouched, RowsOf, Remembers
<1>10. \A b \in Numbers : b < r /\ (b = r - 1 \/ b \in Known(Latest)' \/ b \in Forks(s)') =>
          Rooted(b, trackerAt'[w], vouched')
  BY <1>1, <1>5, <1>7, <1>8
<1> QED
  BY <1>1, <1>9, <1>10 DEF Fits

\* And it still does when the next process has read it.
LEMMA DurableRestart ==
    ASSUME RTypeOK, PhaseInv, LoopInv, DownInv, NEW s \in Sinks, DurableInv(s), Restart, ~torn',
           NEW r, NEW w, Durable(s, r, w)'
    PROVE  Fits(s, r, w)'
<1>1. /\ ~running /\ disk[Pair(s)] <= cursor' /\ cursor' \in Nat /\ loop' = "load" /\ inbox' = [t \in Sinks |-> <<>>]
      /\ UNCHANGED <<disk, ckpt, kvDisk, kvLast, stale, epoch, born, trackerAt, table, vouched>>
  BY RestartFacts DEF chainVars, persistVars, kvVars, historyVars
<1>2. r = disk[Pair(s)] /\ w = kvDisk[Hashes]
  BY <1>1 DEF Durable, PhaseInv
<1>3. Fits(s, r, w) /\ \A b : Stays(s, b, 0)
  BY <1>1, <1>2, FitsDown
<1>4. Latest' = Latest /\ Forks(s)' = {}
  <2>1. DOMAIN inbox'[s] = {}
    BY <1>1, ChannelEmpty
  <2> QED
    BY <1>1, <2>1 DEF Latest, Forks
<1>5. PICK view \in [Numbers -> Epochs] :
         /\ Remembers(view, trackerAt[w], born, epoch)
         /\ \A x \in Vouched(RowsOf(view, FromBlock, r)) : x \in table[s]
  BY <1>3 DEF Fits
<1>6. /\ Remembers(view, trackerAt[w], born, epoch)'
      /\ \A x \in Vouched(RowsOf(view, FromBlock, r))' : x \in table'[s]
  BY <1>1, <1>5 DEF Vouched, RowsOf, Remembers
<1>7. \A b \in Numbers : b < r /\ (b = r - 1 \/ b \in Known(Latest)' \/ b \in Forks(s)') =>
          Rooted(b, trackerAt'[w], vouched')
  BY <1>1, <1>3, <1>4 DEF Fits
<1>8. \A b \in Numbers : b < r => b < cursor'
  <2>1. r \in Int /\ \A b \in Numbers : b \in Nat
    BY <1>2, PairFacts, RowTypes, SourceFacts DEF RTypeOK
  <2> QED
    BY <1>1, <1>2, <2>1
<1> QED
  BY <1>6, <1>7, <1>8 DEF Fits

\* Every step keeps DurableInv.
LEMMA DurableStep ==
    ASSUME RTypeOK, RTypeOK', StepInv, PhaseInv, KvRowInv(Hashes), KvSerialInv(Hashes), WindowInv, WindowInv',
           NEW s \in Sinks, StreamInv(s), TickInv(s), DurableInv(s),
           NEW view \in [Numbers -> Epochs], Tracks(s, view), RNext, ~torn', ~ahead'
    PROVE  DurableInv(s)'
<1> SUFFICES ASSUME NEW r \in Cursor, NEW w \in Version, Durable(s, r, w)'
             PROVE  Fits(s, r, w)'
  BY DEF DurableInv
<1>1. VersionInv /\ LoopInv /\ DownInv
  BY DEF WindowInv
<1>2. CASE SourceStep
  BY <1>1, <1>2, KeepsSource, DurableSource
<1>3. ASSUME NEW t \in Sinks, SinkStep(t) PROVE Fits(s, r, w)'
  <2>1. CASE t = s
    BY <1>1, <1>3, <2>1, DurableSink
  <2>2. CASE t # s
    BY <1>1, <1>3, <2>2, DurableOther
  <2> QED
    BY <2>1, <2>2
<1>4. CASE Tick
  <2>1. Durable(s, r, w)
    BY <1>4, DurableTick
  <2>2. Fits(s, r, w) /\ r \in Int
    BY <1>1, <2>1, DurableParts DEF DurableInv
  <2> QED
    BY <1>4, <2>2, FitsTick
<1>5. CASE Drain
  BY <1>5, DurableDrain
<1>6. CASE Kill
  BY <1>1, <1>6, DurableKill
<1>7. CASE Restart
  BY <1>1, <1>7, DurableRestart
<1> QED
  BY <1>2, <1>3, <1>4, <1>5, <1>6, <1>7 DEF RNext, SourceStep

-----------------------------------------------------------------------------
(* TickInv, step by step.                                                    *)

\* A step that leaves ticks and the sink's cursor alone.
LEMMA TickFrame ==
    ASSUME NEW s, TickInv(s),
           UNCHANGED <<running, ckpt, snap, todo, hand, txn, cursors[Pair(s)], disk[Pair(s)], rewinding[Pair(s)]>>,
           stage'[s] = "rewinding" => stage[s] = "rewinding" /\ InHand(s)' = InHand(s),
           \A b \in Numbers : Stays(s, b, 0)' => Stays(s, b, 0) /\ (Reached(b) => Reached(b)')
    PROVE  TickInv(s)'
<1> DEFINE p == Pair(s)
<1>1. (ckpt' = "flushing" /\ snap'[p] <= cursors'[p]) =>
          \A b \in Numbers : b = snap'[p] - 1 /\ Stays(s, b, 0)' => Reached(b)'
  BY DEF TickInv
<1>2. /\ (running' /\ cursors'[p] = Absent) => disk'[p] = Absent
      /\ (ckpt' # "idle" /\ snap'[p] = Absent) => disk'[p] = Absent
      /\ ckpt' = "rows" => (txn'[p] = Absent <=> p \in todo' \/ snap'[p] = Absent)
      /\ hand'[p] # Absent => \A q \in Pairs : hand'[q] # Absent => q = p
  BY DEF TickInv
<1>3. stage'[s] = "rewinding" =>
          InHand(s)'.fork # Absent /\ rewinding'[p] = InHand(s)'.fork + 1 /\ cursors'[p] <= InHand(s)'.fork + 1
  BY DEF TickInv
<1> HIDE DEF p
<1> QED
  BY <1>1, <1>2, <1>3 DEF TickInv, p

\* What is in the sink's hands stays there while the source sends.
LEMMA InHandStays ==
    ASSUME RTypeOK, RTypeOK', StepInv, NEW s \in Sinks, SourceStep, ~torn', inbox[s] # <<>>
    PROVE  InHand(s)' = InHand(s)
<1>1. inbox[s] \in Seq(Message) /\ inbox'[s] \in Seq(Message)
  BY DEF RTypeOK
<1>2. CASE inbox'[s] = inbox[s]
  BY <1>2 DEF InHand
<1>3. ASSUME 1 \in DOMAIN inbox'[s], inbox'[s][1] = inbox[s][1] PROVE InHand(s)' = InHand(s)
  <2>1. inbox'[s] # <<>>
    BY <1>3, ChannelEmpty
  <2>2. Head(inbox'[s]) = inbox'[s][1] /\ Head(inbox[s]) = inbox[s][1]
    BY <1>1, <2>1, ChannelTail
  <2> QED
    BY <1>3, <2>2 DEF InHand
<1>4. Len(inbox[s]) \in Nat \ {0} /\ DOMAIN inbox[s] = 1..Len(inbox[s]) /\ 1 \in 1..Len(inbox[s])
  BY <1>1, ChannelTail
<1>5. CASE EmitRows /\ inbox'[s] # inbox[s]
  <2>1. PICK m \in Message : inbox'[s] = Append(inbox[s], m)
    BY <1>5, EmitFacts
  <2>2. 1 \in DOMAIN inbox'[s] /\ inbox'[s][1] = inbox[s][1]
    BY <1>1, <1>4, <2>1, ChannelAppend
  <2> QED
    BY <1>3, <2>2
<1>6. CASE SendRollback
  <2>1. /\ DOMAIN inbox'[s] = 1..(Len(inbox[s]) + 1)
        /\ \A i \in DOMAIN inbox[s] : inbox'[s][i] = inbox[s][i]
    BY <1>6, RollbackSent
  <2>2. 1 \in DOMAIN inbox'[s] /\ inbox'[s][1] = inbox[s][1]
    BY <1>4, <2>1
  <2> QED
    BY <1>3, <2>2
<1> QED
  BY <1>2, <1>5, <1>6, SourceSends

\* Steps of the source.
LEMMA TickSource ==
    ASSUME RTypeOK, RTypeOK', StepInv, NEW s \in Sinks, TickInv(s), Keeps(s), SourceStep, ~torn'
    PROVE  TickInv(s)'
<1>1. UNCHANGED <<running, ckpt, snap, todo, hand, txn, cursors, disk, rewinding, stage>>
  BY SourceOnly
<1>2. stage'[s] = "rewinding" => stage[s] = "rewinding" /\ InHand(s)' = InHand(s)
  BY <1>1, InHandStays DEF StepInv
<1>3. \A b \in Numbers : Stays(s, b, 0)' => Stays(s, b, 0) /\ (Reached(b) => Reached(b)')
  BY DEF Keeps
<1> QED
  BY <1>1, <1>2, <1>3, TickFrame

\* A sink's step moves its own cursor only.
LEMMA TickSink ==
    ASSUME RTypeOK, StepInv, PhaseInv, NEW s \in Sinks, TickInv(s), NEW t \in Sinks, SinkStep(t), ~torn', ~ahead'
    PROVE  TickInv(s)'
<1> DEFINE p == Pair(s)
           f == InHand(s).fork
<1>1. /\ UNCHANGED <<running, ckpt, snap, todo, hand, txn, loop, fork, resp, cursor, trackerAt, vouched, kvLast>>
      /\ p \in Pairs
  BY SinkLeaves, SourceFrame, PairFacts DEF sourceVars
<1>2. \A b : Reached(b)' <=> Reached(b)
  BY <1>1 DEF Reached, Latest, Rooted
<1>3. cursors[p] \in Int /\ snap[p] \in Int /\ disk[p] \in Int /\ rewinding[p] \in Int
  BY <1>1, RowTypes DEF RTypeOK
<1>4. CASE t # s
  <2>1. /\ inbox'[s] = inbox[s] /\ stage'[s] = stage[s] /\ cursors'[p] = cursors[p]
        /\ disk'[p] = disk[p] /\ rewinding'[p] = rewinding[p]
    BY <1>4, SinkOnly
  <2>2. InHand(s)' = InHand(s) /\ \A b : Stays(s, b, 0)' <=> Stays(s, b, 0)
    BY <1>1, <2>1 DEF InHand, Stays
  <2> QED
    BY <1>1, <1>2, <2>1, <2>2, TickFrame
<1>5. ASSUME SinkStep(s) PROVE \A b \in Numbers : Stays(s, b, 0)' /\ (EndRewind(s) => b <= f) => Stays(s, b, 0)
  BY <1>5, SinkStays
<1>6. CASE Write(s) \/ GiveUp(s)
  <2>1. UNCHANGED <<cursors, disk, rewinding>> /\ stage'[s] # "rewinding" /\ ~EndRewind(s)
    BY <1>6 DEF Write, GiveUp, Pause, vars, cursorVars, EndRewind, RTypeOK
  <2> QED
    BY <1>1, <1>2, <1>5, <1>6, <2>1, TickFrame DEF SinkStep
<1>7. CASE AckBatch(s)
  <2>1. /\ UNCHANGED <<disk, rewinding>> /\ stage'[s] # "rewinding" /\ ~EndRewind(s)
        /\ cursors'[p] = Greatest(cursors[p], InHand(s).ack) /\ InHand(s).ack \in Nat
    BY <1>1, <1>7, InHandFacts, NumberFacts DEF AckBatch, Ack, Finish, EndRewind, RTypeOK, TypeOK
  <2>2. cursors'[p] # Absent
    <3>1. cursors'[p] >= 0
      <4> HIDE DEF p, f
      <4> QED
        BY <1>3, <2>1 DEF Greatest
    <3> QED
      BY <3>1, LimitFacts
  <2>3. ckpt = "flushing" => snap[p] <= cursors[p]
    <3>1. ckpt = "flushing" => txn[p] = Absent /\ hand[p] = Absent
      BY <1>1 DEF PhaseInv, NoRows
    <3> QED
      BY <1>7, <3>1, FloorStays
  <2>4. ckpt' = "flushing" => \A b \in Numbers : b = snap'[p] - 1 /\ Stays(s, b, 0)' => Reached(b)'
    BY <1>1, <1>2, <1>5, <1>7, <2>1, <2>3 DEF TickInv, SinkStep
  <2> QED
    BY <1>1, <2>1, <2>2, <2>4 DEF TickInv
<1>8. CASE BeginRewind(s)
  <2>1. /\ UNCHANGED <<disk, inbox>> /\ InHand(s)' = InHand(s) /\ f # Absent /\ f \in Nat
        /\ cursors'[p] = IF cursors[p] = Absent THEN f + 1 ELSE Least(cursors[p], f + 1)
        /\ rewinding'[p] = f + 1
    <3>1. f # Absent /\ f \in Nat
      BY <1>8, InHandFacts, NumberFacts DEF BeginRewind
    <3> QED
      BY <1>1, <1>8, <3>1 DEF BeginRewind, RewindMemory, RTypeOK, TypeOK, InHand
  <2>2. cursors'[p] # Absent /\ cursors'[p] <= f + 1 /\ (snap[p] <= cursors'[p] => snap[p] <= cursors[p] \/ cursors[p] = Absent)
    <3> HIDE DEF p, f
    <3>1. f + 1 # Absent
      BY <2>1, LimitFacts
    <3> QED
      BY <1>3, <2>1, <3>1 DEF Least
  <2>3. cursors[p] = Absent => snap[p] = Absent
    BY <1>1 DEF PhaseInv
  <2>4. snap[p] <= cursors'[p] => snap[p] <= cursors[p]
    BY <1>3, <2>2, <2>3
  <2>5. \A b : Stays(s, b, 0)' <=> Stays(s, b, 0)
    BY <1>1, <2>1 DEF Stays
  <2>6. (ckpt' = "flushing" /\ snap'[p] <= cursors'[p]) =>
            \A b \in Numbers : b = snap'[p] - 1 /\ Stays(s, b, 0)' => Reached(b)'
    BY <1>1, <1>2, <2>4, <2>5 DEF TickInv
  <2>7. stage'[s] = "rewinding" =>
            InHand(s)'.fork # Absent /\ rewinding'[p] = InHand(s)'.fork + 1 /\ cursors'[p] <= InHand(s)'.fork + 1
    BY <2>1, <2>2
  <2> HIDE DEF f
  <2> QED
    BY <1>1, <2>1, <2>2, <2>6, <2>7 DEF TickInv
<1>9. CASE EndRewind(s)
  <2>1. /\ stage[s] = "rewinding" /\ stage'[s] = "recv" /\ cursors' = cursors
        /\ disk'[p] = Least(disk[p], rewinding[p])
    BY <1>1, <1>9 DEF EndRewind, RewindUpdate, Finish, RTypeOK, TypeOK
  <2>2. f # Absent /\ f \in Nat /\ rewinding[p] = f + 1 /\ cursors[p] <= f + 1
    <3>1. f # Absent /\ rewinding[p] = f + 1 /\ cursors[p] <= f + 1
      BY <2>1 DEF TickInv
    <3> QED
      BY <2>1, <3>1, InHandFacts, NumberFacts
  <2>3. disk[p] = Absent => disk'[p] = Absent
    <3> HIDE DEF p, f
    <3> QED
      BY <2>1, <2>2, LimitFacts DEF Least
  <2>4. ASSUME snap[p] <= cursors[p], NEW b \in Numbers, b = snap[p] - 1, Stays(s, b, 0)' PROVE Stays(s, b, 0)
    <3>1. b <= f
      <4> HIDE DEF p, f
      <4> QED
        BY <1>3, <2>2, <2>4
    <3> QED
      BY <1>5, <1>9, <2>4, <3>1 DEF SinkStep
  <2>5. (ckpt' = "flushing" /\ snap'[p] <= cursors'[p]) =>
            \A b \in Numbers : b = snap'[p] - 1 /\ Stays(s, b, 0)' => Reached(b)'
    BY <1>1, <1>2, <2>1, <2>4 DEF TickInv
  <2> QED
    BY <1>1, <2>1, <2>3, <2>5 DEF TickInv
<1> QED
  BY <1>4, <1>6, <1>7, <1>8, <1>9 DEF SinkStep

\* The phases of the tick.
LEMMA TickTick ==
    ASSUME RTypeOK, PhaseInv, NEW s \in Sinks, StreamInv(s), TickInv(s), Tick \/ Drain
    PROVE  TickInv(s)'
<1> DEFINE p == Pair(s)
<1>1. /\ UNCHANGED <<running, loop, fork, resp, cursor, trackerAt, vouched, kvLast, inbox, stage, cursors, rewinding>>
      /\ p \in Pairs /\ running
  BY TickOnly, SourceFrame, PairFacts DEF sourceVars
<1>2. /\ \A b : Reached(b)' <=> Reached(b)
      /\ \A b : Stays(s, b, 0)' <=> Stays(s, b, 0)
      /\ InHand(s)' = InHand(s)
  BY <1>1 DEF Reached, Latest, Rooted, Stays, InHand
<1>3. stage'[s] = "rewinding" =>
          InHand(s)'.fork # Absent /\ rewinding'[p] = InHand(s)'.fork + 1 /\ cursors'[p] <= InHand(s)'.fork + 1
  BY <1>1, <1>2 DEF TickInv
<1>4. /\ \A q \in Pairs : (hand[q] # Absent => q \in todo) /\ (q \in todo => snap[q] # Absent)
      /\ snap[p] # Absent => cursors[p] # Absent
      /\ ckpt # "rows" => txn[p] = Absent /\ hand = NoRows /\ todo = {}
  BY <1>1 DEF PhaseInv, NoRows
<1>5. CASE Snapshot
  <2>1. ckpt' = "flushing" /\ snap' = cursors /\ UNCHANGED <<disk, hand>>
    BY <1>5 DEF Snapshot, cursorVars
  <2>2. Below(s, 0) /\ Stop(s, 0) = cursors[p]
    BY StreamParts DEF Stop
  <2>3. \A b \in Numbers : b = snap'[p] - 1 /\ Stays(s, b, 0)' => Reached(b)'
    <3> SUFFICES ASSUME NEW b \in Numbers, b = cursors[p] - 1, Stays(s, b, 0) PROVE Reached(b)
      BY <1>2, <2>1
    <3>1. cursors[p] \in Int
      BY <1>1, RowTypes DEF RTypeOK
    <3>2. b < cursors[p]
      BY <3>1
    <3> QED
      BY <2>2, <3>2 DEF Below
  <2> QED
    BY <1>1, <1>3, <2>1, <2>3 DEF TickInv
<1>6. ASSUME NEW q \in Pairs, ReadFloor(q) PROVE TickInv(s)'
  <2>1. /\ UNCHANGED <<disk, ckpt, snap, todo, txn>> /\ ckpt = "rows"
        /\ hand' = [hand EXCEPT ![q] = Floor(q)] /\ hand = NoRows
    BY <1>6 DEF ReadFloor, cursorVars
  <2>2. hand'[p] # Absent => \A o \in Pairs : hand'[o] # Absent => o = p
    BY <1>1, <2>1 DEF NoRows
  <2> QED
    BY <1>1, <1>3, <2>1, <2>2 DEF TickInv
<1>7. ASSUME NEW q \in Pairs, InsertRow(q) PROVE TickInv(s)'
  <2>1. /\ UNCHANGED <<disk, ckpt, snap>>
        /\ txn' = [txn EXCEPT ![q] = hand[q]] /\ hand' = NoRows /\ todo' = todo \ {q} /\ hand[q] # Absent
    BY <1>7 DEF InsertRow, cursorVars
  <2>2. ckpt = "rows" => (txn'[p] = Absent <=> p \in todo' \/ snap[p] = Absent)
    <3>1. CASE q = p
      <4>1. txn'[p] # Absent /\ p \notin todo' /\ snap[p] # Absent
        BY <1>1, <1>4, <2>1, <3>1 DEF RTypeOK, TypeOK
      <4> QED
        BY <4>1
    <3>2. CASE q # p
      <4>1. txn'[p] = txn[p] /\ (p \in todo' <=> p \in todo)
        BY <1>1, <2>1, <3>2 DEF RTypeOK, TypeOK
      <4> QED
        BY <4>1 DEF TickInv
    <3> QED
      BY <3>1, <3>2
  <2>3. ckpt = "rows" /\ hand'[p] = Absent
    BY <1>1, <1>4, <2>1 DEF NoRows
  <2> QED
    BY <1>1, <1>3, <2>1, <2>2, <2>3 DEF TickInv
<1>8. CASE Commit
  <2>1. /\ ckpt = "rows" /\ ckpt' = "idle" /\ UNCHANGED hand
        /\ disk'[p] = IF txn[p] = Absent THEN disk[p] ELSE txn[p]
    BY <1>1, <1>8 DEF Commit
  <2>2. cursors[p] = Absent => disk'[p] = Absent
    BY <1>1, <1>4, <2>1 DEF TickInv
  <2> QED
    BY <1>1, <1>3, <2>1, <2>2 DEF TickInv
<1>9. CASE Drain
  <2>1. /\ ckpt = "flushing" /\ ckpt' \in {"idle", "rows"} /\ UNCHANGED <<disk, snap, hand, txn>>
        /\ todo' = {q \in Pairs : snap[q] # Absent}
    BY <1>9 DEF Drain, PersistBegin, cursorVars
  <2>2. txn[p] = Absent /\ hand[p] = Absent /\ (p \in todo' \/ snap[p] = Absent)
    BY <1>1, <1>4, <2>1 DEF NoRows
  <2> QED
    BY <1>1, <1>3, <2>1, <2>2 DEF TickInv
<1> QED
  BY <1>5, <1>6, <1>7, <1>8, <1>9 DEF Tick

\* Every step keeps TickInv.
LEMMA TickStep ==
    ASSUME RTypeOK, RTypeOK', StepInv, PhaseInv, KvSerialInv(Hashes), WindowInv, WindowInv',
           NEW s \in Sinks, StreamInv(s), TickInv(s), RNext, ~torn', ~ahead'
    PROVE  TickInv(s)'
<1>1. CASE SourceStep
  BY <1>1, KeepsSource, TickSource
<1>2. CASE \E t \in Sinks : SinkStep(t)
  BY <1>2, TickSink
<1>3. CASE Tick \/ Drain
  BY <1>3, TickTick
<1>4. CASE Kill
  <2>1. ~running' /\ ckpt' = "idle" /\ hand'[Pair(s)] = Absent /\ stage'[s] = "recv"
    BY <1>4, KillFacts, PairFacts DEF NoRows
  <2> QED
    BY <2>1 DEF TickInv
<1>5. CASE Restart
  <2>1. ckpt' = "idle" /\ hand' = hand /\ stage'[s] = "recv" /\ cursors' = disk' /\ hand = NoRows
    BY <1>5, RestartFacts DEF persistVars, PhaseInv
  <2>2. hand'[Pair(s)] = Absent
    BY <2>1, PairFacts DEF NoRows
  <2> QED
    BY <2>1, <2>2 DEF TickInv
<1> QED
  BY <1>1, <1>2, <1>3, <1>4, <1>5 DEF RNext, SourceStep

-----------------------------------------------------------------------------
(* Tracks, step by step.                                                     *)

\* What Tracks says of the sink, row by row.
Gets(s, view) ==
    \A x \in Logs :
        (x[1] > vouched /\ FromBlock <= x[1] /\ x[1] < Edge(s) /\ x[2] = view[x[1]]
            /\ (s \in paused => Stays(s, x[1], 0))) => x \in Applied(s)

\* Tracks, in these terms.
LEMMA TracksParts ==
    ASSUME NEW s, NEW view
    PROVE  /\ Tracks(s, view) <=>
                 Remembers(view, Latest, born, epoch) /\ (Holding => resp.chain = view) /\ Gets(s, view)
           /\ Tracks(s, view)' <=>
                 Remembers(view, Latest', born', epoch') /\ (Holding' => resp'.chain = view) /\ Gets(s, view)'
<1>1. (\A x \in Vouched(RowsOf(view, FromBlock, Edge(s))) : (s \in paused => Stays(s, x[1], 0)) => x \in Applied(s))
      <=> Gets(s, view)
  BY DEF Gets, Vouched, RowsOf
<1>2. (\A x \in Vouched(RowsOf(view, FromBlock, Edge(s))) : (s \in paused => Stays(s, x[1], 0)) => x \in Applied(s))'
      <=> Gets(s, view)'
  BY DEF Gets, Vouched, RowsOf
<1> QED
  BY <1>1, <1>2 DEF Tracks, Remembers

\* A step that takes nothing from the sink and promises it no more.
LEMMA GetsStays ==
    ASSUME NEW s, NEW view, Gets(s, view), Applied(s)' = Applied(s), Edge(s)' = Edge(s), s \in paused' <=> s \in paused,
           vouched \in Int, vouched' \in Int, vouched <= vouched',
           s \in paused => \A b \in Numbers : b < Edge(s) /\ Stays(s, b, 0)' => Stays(s, b, 0)
    PROVE  Gets(s, view)'
<1> SUFFICES ASSUME NEW x \in Logs, x[1] > vouched', FromBlock <= x[1], x[1] < Edge(s), x[2] = view[x[1]],
                    s \in paused => Stays(s, x[1], 0)'
             PROVE  x \in Applied(s)
  BY DEF Gets
<1>1. x[1] \in Numbers /\ x[1] \in Int
  BY LogFacts
<1>2. x[1] > vouched
  BY <1>1
<1> QED
  BY <1>1, <1>2 DEF Gets

\* A row whose block the window knows, or that is below one it knows, is of the
\* chain the source follows when the answer brings no conflict.
LEMMA PollAgrees ==
    ASSUME RTypeOK, LoopInv, Poll, loop' = "emit", NEW view, Remembers(view, Latest, born, epoch),
           NEW b \in Numbers, b < cursor, b > vouched
    PROVE  view[b] = born[b]
<1>1. PICK scanned \in (cursor + 1) .. Least(cursor + MaxPage, height + 1), archive \in {height, Absent} :
        LET r == [first |-> cursor, scanned |-> scanned, next |-> PlanStep(scanned, archive), chain |-> born] IN
        ~Conflict(tracker, r)
  BY DEF Poll
<1>2. loop = "poll"
  BY DEF Poll
<1>3. cursor \in Nat /\ vouched \in Int /\ b \in Nat
  BY SourceFacts
<1>4. tracker = Latest /\ cursor - 1 \in Known(tracker)
  <2>1. ~(cursor - 1 <= vouched)
    BY <1>3
  <2> QED
    BY <1>2, <2>1 DEF LoopInv
<1>5. cursor - 1 \in Numbers /\ tracker[cursor - 1] # Absent
  BY <1>4 DEF Known
<1>6. tracker[cursor - 1] = born[cursor - 1]
  BY <1>1, <1>5 DEF Conflict
<1>7. view[cursor - 1] = born[cursor - 1]
  BY <1>4, <1>5, <1>6 DEF Remembers
<1>8. b <= cursor - 1
  BY <1>3
<1> QED
  BY <1>5, <1>7, <1>8 DEF Remembers, SharePast

\* An answer without a conflict makes the chain the version the sink follows.
LEMMA TracksPoll ==
    ASSUME RTypeOK, RTypeOK', WindowInv, NEW s \in Sinks, StreamInv(s),
           NEW view \in [Numbers -> Epochs], Tracks(s, view), Poll
    PROVE  \E chain \in [Numbers -> Epochs] : Tracks(s, chain)'
<1>1. /\ loop = "poll" /\ UNCHANGED <<cursor, fork, trackerAt, kvLast, vouched, epoch, born, paused, cursors>>
      /\ UNCHANGED <<inbox, stage, table>>
  BY DEF Poll, vars, cursorVars, historyVars, chainVars, noteVars, sinkVars
<1>2. /\ Remembers(view, Latest, born, epoch) /\ Gets(s, view) /\ Latest' = Latest
  BY <1>1, TracksParts DEF Latest
<1>3. loop' \in {"locate", "emit"} /\ (loop' = "emit" => resp'.chain = born)
  BY DEF Poll
<1>4. /\ Applied(s)' = Applied(s) /\ Edge(s)' = Edge(s) /\ \A b : Stays(s, b, 0)' <=> Stays(s, b, 0)
  <2>1. Applied(s)' = Applied(s)
    BY <1>1, AppliedFrame
  <2> QED
    BY <1>1, <1>3, <2>1 DEF Edge, Sent, Stays
<1>5. vouched \in Int /\ cursor \in Nat
  BY SourceFacts
<1>6. CASE loop' = "locate"
  <2>1. ~Holding'
    BY <1>6 DEF Holding
  <2>2. Gets(s, view)'
    BY <1>1, <1>2, <1>4, <1>5, GetsStays
  <2> QED
    BY <1>1, <1>2, <2>1, <2>2, TracksParts
<1>7. CASE loop' = "emit"
  <2>1. PICK chain \in [Numbers -> Epochs] : chain = born
    BY DEF RTypeOK
  <2>2. Remembers(chain, Latest', born', epoch')
    BY <1>1, <1>2, <2>1 DEF Remembers, SharePast, WindowInv, VersionInv
  <2>3. ASSUME NEW x \in Logs, x[1] > vouched, x[1] < Edge(s), s \in paused => Stays(s, x[1], 0)
        PROVE  view[x[1]] = chain[x[1]]
    <3>1. x[1] \in Numbers
      BY LogFacts
    <3>2. x[1] < cursor
      <4>1. Sent = cursor
        BY <1>1 DEF Sent
      <4>2. CASE s \in paused
        BY <2>3, <3>1, <4>1, <4>2, StreamParts DEF Edge, Below, Stop
      <4>3. CASE s \notin paused
        BY <2>3, <4>1, <4>3 DEF Edge
      <4> QED
        BY <4>2, <4>3
    <3> QED
      BY <1>2, <1>7, <2>1, <2>3, <3>1, <3>2, PollAgrees DEF WindowInv
  <2>4. Gets(s, chain)'
    BY <1>1, <1>2, <1>4, <2>3 DEF Gets
  <2> QED
    BY <1>3, <1>7, <2>1, <2>2, <2>4, TracksParts
<1> QED
  BY <1>3, <1>6, <1>7

\* The rows of the answer are sent to a sink that is left.
LEMMA TracksEmit ==
    ASSUME RTypeOK, StepInv, LoopInv, NEW s \in Sinks, NEW view, Tracks(s, view), EmitRows
    PROVE  Tracks(s, view)'
<1>1. /\ loop = "emit" /\ loop' = "save" /\ UNCHANGED <<stage, table>>
      /\ UNCHANGED <<cursor, fork, resp, trackerAt, kvLast, vouched, epoch, born, paused, cursors>>
  BY DEF EmitRows, vars, cursorVars, historyVars, chainVars, noteVars
<1>2. /\ Remembers(view, Latest, born, epoch) /\ Gets(s, view) /\ Latest' = Latest /\ resp.chain = view
  BY <1>1, TracksParts DEF Latest, Holding
<1>3. resp.first = cursor /\ cursor < resp.next /\ FromBlock <= cursor
  BY <1>1 DEF StepInv, Holding, LoopInv
<1>4. CASE s \in paused
  <2>1. inbox'[s] = inbox[s]
    BY <1>4 DEF EmitRows, Send
  <2>2. Applied(s)' = Applied(s)
    BY <1>1, <2>1, AppliedFrame
  <2>3. Edge(s)' = Edge(s) /\ \A b : Stays(s, b, 0)' <=> Stays(s, b, 0)
    BY <1>1, <1>4, <2>1 DEF Edge, Stays
  <2>4. Gets(s, view)'
    BY <1>1, <1>2, <2>2, <2>3, SourceFacts, GetsStays
  <2> QED
    BY <1>1, <1>2, <2>4, TracksParts
<1>5. CASE s \notin paused
  <2>1. Applied(s)' = Applied(s) \cup RowsOf(view, cursor, resp.next)
    BY <1>2, <1>3, <1>5, AppliedEmit
  <2>2. Edge(s) = cursor /\ Edge(s)' = resp.next
    BY <1>1, <1>5 DEF Edge, Sent
  <2>3. \A x \in Logs : x[1] < cursor \/ (cursor <= x[1])
    BY LogFacts, SourceFacts
  <2>4. Gets(s, view)'
    BY <1>1, <1>2, <1>5, <2>1, <2>2, <2>3 DEF Gets, RowsOf
  <2> QED
    BY <1>1, <1>2, <2>4, TracksParts
<1> QED
  BY <1>4, <1>5

\* A reorg of the chain leaves the version the sink follows.
LEMMA TracksReorg ==
    ASSUME RTypeOK, VersionInv, NEW s \in Sinks, NEW view \in [Numbers -> Epochs], Tracks(s, view),
           NEW f \in 1..height, Reorg(f)
    PROVE  Tracks(s, view)'
<1>1. UNCHANGED <<cursor, loop, fork, resp, trackerAt, kvLast, vouched, paused, cursors, inbox, stage, table>>
  BY DEF Reorg, vars, cursorVars, historyVars, sourceVars, noteVars, sinkVars
<1>2. /\ Remembers(view, Latest, born, epoch) /\ Gets(s, view) /\ Latest' = Latest /\ (Holding => resp.chain = view)
  BY <1>1, TracksParts DEF Latest
<1>3. Latest \in HashWindow /\ \A b \in Numbers : Latest[b] <= epoch
  BY SourceFacts DEF VersionInv, Latest
<1>4. Remembers(view, Latest', born', epoch')
  BY <1>2, <1>3, RemembersReorg
<1>5. /\ Applied(s)' = Applied(s) /\ Edge(s)' = Edge(s) /\ \A b : Stays(s, b, 0)' <=> Stays(s, b, 0)
  <2>1. Applied(s)' = Applied(s)
    BY <1>1, AppliedFrame
  <2> QED
    BY <1>1, <2>1 DEF Edge, Sent, Stays
<1>6. Gets(s, view)'
  BY <1>1, <1>2, <1>5, SourceFacts, GetsStays
<1> QED
  BY <1>1, <1>2, <1>4, <1>6, TracksParts DEF Holding

\* Steps that move neither the end of what was sent nor the sink: the block
\* height, a load, and what is remembered.
LEMMA TracksWindow ==
    ASSUME RTypeOK, RTypeOK', NEW s \in Sinks, Keeps(s), NEW view, Tracks(s, view),
           UNCHANGED <<inbox, stage, table, paused, cursors>>, Sent' = Sent,
           Remembers(view, Latest', born', epoch'), Holding' => Holding /\ resp' = resp
    PROVE  Tracks(s, view)'
<1>1. Gets(s, view) /\ (Holding => resp.chain = view)
  BY TracksParts
<1>2. Applied(s)' = Applied(s) /\ Edge(s)' = Edge(s)
  BY AppliedFrame DEF Edge
<1>3. \A b \in Numbers : Stays(s, b, 0)' => Stays(s, b, 0)
  BY DEF Keeps
<1>4. vouched \in Int /\ vouched' \in Int /\ vouched <= vouched'
  BY DEF RTypeOK, Keeps
<1>5. Gets(s, view)'
  BY <1>1, <1>2, <1>3, <1>4, GetsStays
<1> QED
  BY <1>1, <1>5, TracksParts

\* Hashes of that version are remembered.
LEMMA TracksRemember ==
    ASSUME RTypeOK, RTypeOK', StepInv, WindowInv, WindowInv', NEW s \in Sinks, Keeps(s), NEW view, Tracks(s, view), Remember
    PROVE  Tracks(s, view)'
<1>1. /\ loop = "save" /\ loop' = "poll" /\ cursor' = resp.next /\ tracker' = Record(tracker, resp) /\ Save(tracker')
      /\ UNCHANGED <<inbox, stage, table, epoch, born>>
  BY DEF Remember, sinkVars, chainVars
<1>2. Latest' = Record(tracker, resp) /\ UNCHANGED <<paused, cursors>>
  BY <1>1, SaveFacts DEF cursorVars
<1>3. Holding /\ ~Holding'
  BY <1>1 DEF Holding
<1>4. /\ resp.chain \in [Numbers -> Epochs] /\ resp.first \in Nat /\ resp.scanned \in Blocks
      /\ resp.next = resp.scanned /\ resp.first < resp.next /\ tracker = Latest /\ tracker \in HashWindow
  BY <1>3, HoldingFacts DEF WindowInv
<1>5. resp.chain = view /\ Remembers(resp.chain, tracker, born, epoch)
  BY <1>3, <1>4, TracksParts
<1>6. Remembers(view, Latest', born', epoch')
  <2>1. born \in [Numbers -> Epochs]
    BY DEF RTypeOK
  <2>2. Remembers(resp.chain, Record(tracker, resp), born, epoch)
    BY <1>4, <1>5, <2>1, RemembersRecord
  <2> QED
    BY <1>1, <1>2, <1>5, <2>2
<1>7. Sent' = Sent
  BY <1>1 DEF Sent
<1> QED
  BY <1>1, <1>2, <1>3, <1>6, <1>7, TracksWindow

\* Hashes are forgotten.
LEMMA TracksLocate ==
    ASSUME RTypeOK, RTypeOK', WindowInv, NEW s \in Sinks, Keeps(s), NEW view, Tracks(s, view), LocateFork
    PROVE  Tracks(s, view)'
<1>1. /\ loop = "locate" /\ loop' = "rollback" /\ cursor' = cursor /\ tracker' = PurgeAfter(tracker, fork') /\ Save(tracker')
      /\ UNCHANGED <<inbox, stage, table, epoch, born>>
  BY DEF LocateFork, sinkVars, chainVars
<1>2. Latest' = PurgeAfter(tracker, fork') /\ UNCHANGED <<paused, cursors>> /\ tracker = Latest
  BY <1>1, SaveFacts DEF cursorVars, WindowInv, LoopInv
<1>3. ~Holding' /\ Sent' = Sent
  BY <1>1 DEF Holding, Sent
<1>4. Remembers(view, Latest', born', epoch')
  <2>1. born \in [Numbers -> Epochs] /\ Remembers(view, tracker, born, epoch)
    BY <1>2, TracksParts DEF RTypeOK
  <2>2. Remembers(view, PurgeAfter(tracker, fork'), born, epoch)
    BY <2>1, RemembersPurge
  <2> QED
    BY <1>1, <1>2, <2>2
<1> QED
  BY <1>1, <1>2, <1>3, <1>4, TracksWindow

\* Rows above the fork are taken back and will be sent again.
LEMMA TracksRollback ==
    ASSUME RTypeOK, StepInv, WindowInv, NEW s \in Sinks, NEW view, Tracks(s, view), SendRollback, ~torn'
    PROVE  Tracks(s, view)'
<1>1. /\ paused = {} /\ loop = "rollback" /\ loop' = "poll" /\ cursor' = Greatest(fork + 1, FromBlock)
      /\ UNCHANGED <<paused, kvLast, epoch, born, trackerAt, vouched>>
  BY RollbackSent DEF vars, cursorVars, historyVars
<1>2. Remembers(view, Latest, born, epoch) /\ Gets(s, view) /\ Latest' = Latest /\ ~Holding'
  BY <1>1, TracksParts DEF Latest, Holding
<1>3. Applied(s)' = Surviving(Applied(s), fork)
  BY <1>1, AppliedRollback
<1>4. fork \in Nat /\ cursor \in Nat /\ FromBlock \in Nat /\ vouched \in Int
  BY SourceFacts
<1>5. fork <= vouched \/ fork < cursor
  BY <1>1 DEF WindowInv, LoopInv
<1>6. Edge(s) = cursor /\ Edge(s)' = cursor'
  BY <1>1 DEF Edge, Sent
<1>7. ASSUME NEW x \in Logs, x[1] > vouched, FromBlock <= x[1], x[1] < cursor'
      PROVE  x[1] <= fork /\ x[1] < cursor
  <2>1. x[1] \in Nat
    BY LogFacts
  <2>2. x[1] <= fork
    BY <1>1, <1>4, <1>7, <2>1 DEF Greatest
  <2> QED
    BY <1>4, <1>5, <1>7, <2>1, <2>2
<1>8. Gets(s, view)'
  BY <1>1, <1>2, <1>3, <1>6, <1>7 DEF Gets, Surviving
<1> QED
  BY <1>1, <1>2, <1>8, TracksParts

\* Steps of the source.
LEMMA TracksSource ==
    ASSUME RTypeOK, RTypeOK', StepInv, KvSerialInv(Hashes), WindowInv, WindowInv', NEW s \in Sinks, StreamInv(s),
           NEW view \in [Numbers -> Epochs], Tracks(s, view), SourceStep, ~torn'
    PROVE  \E chain \in [Numbers -> Epochs] : Tracks(s, chain)'
<1>1. Keeps(s) /\ UNCHANGED <<paused, cursors, stage, table>>
  BY KeepsSource, SourceOnly
<1>2. VersionInv /\ LoopInv
  BY DEF WindowInv
<1>3. CASE Mine \/ LoadMiss
  <2>1. UNCHANGED <<inbox, cursor, loop, resp, trackerAt, kvLast, epoch, born>>
    BY <1>3 DEF Mine, LoadMiss, KvGetMiss, vars, historyVars, chainVars, sourceVars, sinkVars
  <2>2. Sent' = Sent /\ (Holding' <=> Holding) /\ Latest' = Latest
    BY <2>1 DEF Sent, Holding, Latest
  <2>3. Remembers(view, Latest', born', epoch')
    BY <2>1, <2>2, TracksParts
  <2> QED
    BY <1>1, <2>1, <2>2, <2>3, TracksWindow
<1>4. CASE \E f \in 1..height : Reorg(f)
  BY <1>2, <1>4, TracksReorg
<1>5. CASE Load
  <2>1. /\ Latest' = Latest /\ loop = "load" /\ loop' = "poll" /\ UNCHANGED <<cursor, inbox>>
        /\ UNCHANGED <<born, epoch>>
    BY <1>2, <1>5, LoadFacts DEF Load, chainVars
  <2>2. Sent' = Sent /\ ~Holding'
    BY <2>1 DEF Sent, Holding
  <2>3. Remembers(view, Latest', born', epoch')
    BY <2>1, TracksParts
  <2> QED
    BY <1>1, <2>1, <2>2, <2>3, TracksWindow
<1>6. CASE Poll
  BY <1>6, TracksPoll
<1>7. CASE EmitRows
  BY <1>2, <1>7, TracksEmit
<1>8. CASE Remember
  BY <1>1, <1>8, TracksRemember
<1>9. CASE LocateFork
  BY <1>1, <1>9, TracksLocate
<1>10. CASE SendRollback
  BY <1>10, TracksRollback
<1> QED
  BY <1>3, <1>4, <1>5, <1>6, <1>7, <1>8, <1>9, <1>10 DEF SourceStep

\* A sink that gives up without a rollback on its way has all it was acked.
LEMMA TracksGiveUp ==
    ASSUME RTypeOK, StepInv, NEW s \in Sinks, StreamInv(s), NEW view, Gets(s, view), GiveUp(s), ~torn',
           UNCHANGED <<cursor, loop, resp, fork, vouched>>
    PROVE  Gets(s, view)'
<1>1. /\ s \notin paused /\ s \in paused' /\ UNCHANGED <<cursors, table, stage>>
      /\ inbox'[s] = <<>>
  BY DEF GiveUp, Pause, RTypeOK
<1>2. Edge(s) = Sent /\ Edge(s)' = cursors[Pair(s)] /\ Stop(s, 0) = cursors[Pair(s)]
  BY <1>1 DEF Edge, Stop
<1>3. Below(s, 0) /\ Ordered(s, 0)
  BY StreamParts
<1>4. \A b \in Numbers : Stays(s, b, 0)' => Stays(s, b, 0)
  <2>1. ~EndRewind(s)
    BY DEF GiveUp, EndRewind
  <2> QED
    BY <2>1, SinkStays DEF SinkStep
<1> SUFFICES ASSUME NEW x \in Logs, x[1] > vouched, FromBlock <= x[1], x[1] < Stop(s, 0), x[2] = view[x[1]],
                    Stays(s, x[1], 0)'
             PROVE  x \in Applied(s)'
  BY <1>1, <1>2 DEF Gets
<1>5. x[1] \in Numbers
  BY LogFacts
<1>6. Stays(s, x[1], 0)
  BY <1>4, <1>5
<1>7. x[1] < Sent
  BY <1>3, <1>5, <1>6 DEF Below
<1>8. x \in Applied(s)
  BY <1>1, <1>2, <1>7 DEF Gets
<1>9. x \in table[s]
  BY <1>3, <1>6, <1>8, TableBelow
<1>10. Pending(s)' = {}
  <2>1. DOMAIN inbox'[s] = {}
    BY <1>1, ChannelEmpty
  <2> QED
    BY <2>1 DEF Pending
<1> QED
  BY <1>1, <1>9, <1>10 DEF Applied, Survives

\* Steps of the sinks.
LEMMA TracksSink ==
    ASSUME RTypeOK, StepInv, NEW s \in Sinks, StreamInv(s), TickInv(s), NEW view, Tracks(s, view),
           NEW t \in Sinks, SinkStep(t), ~torn'
    PROVE  Tracks(s, view)'
<1>1. UNCHANGED <<born, epoch, trackerAt, vouched, cursor, kvLast, loop, fork, resp>>
  BY SourceFrame DEF chainVars, sourceVars
<1>2. Remembers(view, Latest, born, epoch) /\ Gets(s, view) /\ Latest' = Latest /\ (Holding => resp.chain = view)
  BY <1>1, TracksParts DEF Latest
<1>3. Sent' = Sent /\ vouched \in Int /\ vouched <= vouched
  BY <1>1, SourceFacts DEF Sent
<1>4. Gets(s, view)'
  <2>1. CASE t # s
    <3>1. /\ inbox'[s] = inbox[s] /\ stage'[s] = stage[s] /\ table'[s] = table[s]
          /\ cursors'[Pair(s)] = cursors[Pair(s)] /\ (s \in paused' <=> s \in paused)
      BY <2>1, SinkOnly
    <3>2. Applied(s)' = Applied(s)
      BY <3>1, AppliedFrame
    <3>3. Edge(s)' = Edge(s) /\ \A b : Stays(s, b, 0)' <=> Stays(s, b, 0)
      BY <1>1, <1>3, <3>1 DEF Edge, Stays
    <3> QED
      BY <1>1, <1>2, <1>3, <3>1, <3>2, <3>3, GetsStays
  <2>2. CASE t = s /\ s \notin paused'
    <3>1. Applied(s)' = Applied(s) /\ s \notin paused
      BY <2>2, AppliedSinkStep
    <3>2. Edge(s)' = Edge(s)
      BY <1>3, <2>2, <3>1 DEF Edge
    <3> QED
      BY <1>1, <1>2, <1>3, <2>2, <3>1, <3>2, GetsStays
  <2>3. CASE GiveUp(s)
    BY <1>1, <1>2, <2>3, TracksGiveUp
  <2>4. CASE EndRewind(s) /\ s \in paused'
    <3>1. stage[s] = "rewinding" /\ Finish(s) /\ UNCHANGED <<table, cursors, paused>>
      BY <2>4 DEF EndRewind, RewindUpdate
    <3>2. Applied(s)' = Applied(s)
      BY <3>1, AppliedFinish
    <3>3. Edge(s) = cursors[Pair(s)] /\ Edge(s)' = cursors[Pair(s)]
      BY <2>4, <3>1 DEF Edge
    <3>4. cursors[Pair(s)] <= InHand(s).fork + 1 /\ InHand(s).fork \in Int /\ cursors[Pair(s)] \in Int
      <4>1. cursors[Pair(s)] \in Int
        BY PairFacts, RowTypes DEF RTypeOK
      <4>2. InHand(s).fork \in Int
        BY <2>4, SinkStays, BatchFacts DEF SinkStep
      <4> QED
        BY <3>1, <4>1, <4>2 DEF TickInv
    <3>5. \A b \in Numbers : b < Edge(s) => b <= InHand(s).fork
      BY <3>3, <3>4, SourceFacts
    <3>6. \A b \in Numbers : b < Edge(s) /\ Stays(s, b, 0)' => Stays(s, b, 0)
      BY <2>4, <3>5, SinkStays DEF SinkStep
    <3> QED
      BY <1>1, <1>2, <1>3, <3>1, <3>2, <3>3, <3>6, GetsStays
  <2>5. ASSUME t = s, s \in paused', ~GiveUp(s), ~EndRewind(s) PROVE FALSE
    <3>1. Write(s) \/ AckBatch(s) \/ BeginRewind(s)
      BY <2>5 DEF SinkStep
    <3>2. s \notin paused /\ paused' = paused
      BY <3>1, PairFacts DEF Write, AckBatch, Ack, BeginRewind, RewindMemory, SinkFree, vars, cursorVars
    <3> QED
      BY <2>5, <3>2
  <2> QED
    BY <2>1, <2>2, <2>3, <2>4, <2>5
<1> QED
  BY <1>1, <1>2, <1>4, TracksParts DEF Holding

\* A tick changes neither what was sent nor what is remembered.
LEMMA TracksTick ==
    ASSUME RTypeOK, NEW s \in Sinks, NEW view, Tracks(s, view), Tick \/ Drain
    PROVE  Tracks(s, view)'
<1>1. UNCHANGED <<born, epoch, trackerAt, vouched, cursor, kvLast, loop, fork, resp, inbox, stage, table, cursors, paused>>
  BY SourceFrame, TickOnly DEF chainVars, sourceVars
<1>2. Remembers(view, Latest, born, epoch) /\ Gets(s, view) /\ Latest' = Latest /\ (Holding => resp.chain = view)
  BY <1>1, TracksParts DEF Latest
<1>3. Applied(s)' = Applied(s)
  BY <1>1, AppliedFrame
<1>4. Edge(s)' = Edge(s) /\ \A b : Stays(s, b, 0)' <=> Stays(s, b, 0)
  BY <1>1 DEF Edge, Sent, Stays
<1>5. Gets(s, view)'
  BY <1>1, <1>2, <1>3, <1>4, SourceFacts, GetsStays
<1> QED
  BY <1>1, <1>2, <1>5, TracksParts DEF Holding

\* A start has nothing below its cursor but what fits.
LEMMA TracksKill ==
    ASSUME RTypeOK, VersionInv, NEW s \in Sinks, DurableInv(s), Kill, ~torn'
    PROVE  \E chain \in [Numbers -> Epochs] : Tracks(s, chain)'
<1>1. /\ paused' = {} /\ stale = {} /\ kvLast' = kvDisk /\ loop' = "load" /\ cursor' = FromBlock
      /\ UNCHANGED <<disk, kvDisk, epoch, born, trackerAt, table, vouched>>
  BY KillFacts DEF chainVars
<1>2. Durable(s, disk[Pair(s)], kvDisk[Hashes])
  BY <1>1 DEF Durable
<1>3. Fits(s, disk[Pair(s)], kvDisk[Hashes])
  BY <1>2, DurableParts DEF DurableInv
<1>4. PICK view \in [Numbers -> Epochs] : Remembers(view, trackerAt[kvDisk[Hashes]], born, epoch)
  BY <1>3 DEF Fits
<1>5. Remembers(view, Latest', born', epoch') /\ ~Holding'
  BY <1>1, <1>4 DEF Latest, Holding
<1>6. Edge(s)' = FromBlock
  BY <1>1 DEF Edge, Sent
<1>7. Gets(s, view)'
  BY <1>6, LogFacts, SourceFacts DEF Gets
<1> QED
  BY <1>5, <1>7, TracksParts

\* A start is from a table that is complete below its row.
LEMMA TracksRestart ==
    ASSUME RTypeOK, LoopInv, DownInv, NEW s \in Sinks, DurableInv(s), Restart, ~torn'
    PROVE  \E chain \in [Numbers -> Epochs] : Tracks(s, chain)'
<1>1. /\ ~running /\ (cursor' = FromBlock \/ cursor' = disk[Pair(s)]) /\ loop' = "load"
      /\ inbox' = [t \in Sinks |-> <<>>] /\ stage' = [t \in Sinks |-> "recv"]
      /\ UNCHANGED <<paused, disk, kvDisk, kvLast, epoch, born, trackerAt, table, vouched>>
  BY RestartFacts DEF chainVars, kvVars, historyVars
<1>2. Fits(s, disk[Pair(s)], kvDisk[Hashes]) /\ \A b, i : Stays(s, b, i)
  BY <1>1, FitsDown
<1>3. PICK view \in [Numbers -> Epochs] :
         /\ Remembers(view, trackerAt[kvDisk[Hashes]], born, epoch)
         /\ \A x \in Vouched(RowsOf(view, FromBlock, disk[Pair(s)])) : x \in table[s]
  BY <1>2 DEF Fits
<1>4. paused = {} /\ kvLast = kvDisk
  BY <1>1 DEF DownInv
<1>5. Remembers(view, Latest', born', epoch') /\ ~Holding'
  BY <1>1, <1>3, <1>4 DEF Latest, Holding
<1>6. Edge(s)' = cursor'
  BY <1>1, <1>4 DEF Edge, Sent
<1>7. ASSUME NEW x \in table[s] PROVE x \in Applied(s)'
  <2>1. Pending(s)' = {} /\ x \in Logs
    <3>1. DOMAIN inbox'[s] = {}
      BY <1>1, ChannelEmpty
    <3> QED
      BY <3>1, SinkFacts DEF Pending
  <2> QED
    BY <1>1, <2>1 DEF Applied, Survives
<1>8. Gets(s, view)'
  <2> SUFFICES ASSUME NEW x \in Logs, x[1] > vouched, FromBlock <= x[1], x[1] < cursor', x[2] = view[x[1]]
               PROVE  x \in Applied(s)'
    BY <1>1, <1>6 DEF Gets
  <2>1. cursor' # FromBlock
    BY LogFacts, SourceFacts
  <2>2. x \in Vouched(RowsOf(view, FromBlock, disk[Pair(s)]))
    BY <1>1, <2>1 DEF Vouched, RowsOf
  <2> QED
    BY <1>3, <1>7, <2>2
<1> QED
  BY <1>5, <1>8, TracksParts

\* Every step leaves a version of the chain that the sink follows.
LEMMA TracksStep ==
    ASSUME RTypeOK, RTypeOK', StepInv, KvSerialInv(Hashes), WindowInv, WindowInv', NEW s \in Sinks, StreamInv(s),
           TickInv(s), DurableInv(s), NEW view \in [Numbers -> Epochs], Tracks(s, view), RNext, ~torn'
    PROVE  \E chain \in [Numbers -> Epochs] : Tracks(s, chain)'
<1>1. CASE SourceStep
  BY <1>1, TracksSource
<1>2. CASE \E t \in Sinks : SinkStep(t)
  BY <1>2, TracksSink
<1>3. CASE Tick \/ Drain
  BY <1>3, TracksTick
<1>4. CASE Kill
  BY <1>4, TracksKill DEF WindowInv
<1>5. CASE Restart
  BY <1>5, TracksRestart DEF WindowInv
<1> QED
  BY <1>1, <1>2, <1>3, <1>4, <1>5 DEF RNext, SourceStep

-----------------------------------------------------------------------------
(* The invariant and the theorem.                                            *)

\* What is noted stays noted.
LEMMA NotesStay ==
    ASSUME [RNext]_rvars
    PROVE  confirmations' = confirmations /\ (torn => torn') /\ (ahead => ahead')
<1>1. confirmations' = confirmations
  BY DEF RNext, Mine, Reorg, LoadMiss, Load, Poll, EmitRows, Remember, LocateFork, SendRollback,
         SinkStep, Write, AckBatch, BeginRewind, EndRewind, GiveUp, Tick, Drain, Kill, Restart, Memory,
         chainVars, sourceVars, rvars
<1>2. UNCHANGED torn \/ torn' = (torn \/ paused # {})
          \/ (\E s \in Sinks : torn' = (torn \/ AwaitsRollback(s))) \/ torn' = (torn \/ RollbackUnderWay)
          \/ torn' = (torn \/ \E p \in Pairs : disk[p] > cursor')
  BY DEF RNext, Mine, Reorg, LoadMiss, Load, Poll, EmitRows, Remember, LocateFork, SendRollback,
         SinkStep, Write, AckBatch, BeginRewind, EndRewind, GiveUp, Tick, Drain, Kill, Restart, noteVars, rvars
<1>3. UNCHANGED ahead \/ (\E s \in Sinks : ahead' = (ahead \/ FloorMoves(Pair(s))))
          \/ ahead' = (ahead \/ (loop = "save" /\ \E p \in Pairs : Floor(p) > cursor))
  BY DEF RNext, Mine, Reorg, LoadMiss, Load, Poll, EmitRows, Remember, LocateFork, SendRollback,
         SinkStep, Write, AckBatch, BeginRewind, EndRewind, GiveUp, Tick, Drain, Kill, Restart, Memory, noteVars, rvars
<1>4. torn => torn'
  BY <1>2, Zenon
<1>5. ahead => ahead'
  BY <1>3, Zenon
<1> QED
  BY <1>1, <1>4, <1>5

\* Nothing depends on what no step changes.
LEMMA RestartStutters ==
    ASSUME RestartInv, UNCHANGED rvars
    PROVE  RestartInv'
<1>1. /\ UNCHANGED <<running, cursors, disk, rewinding, paused, ckpt, snap, todo, hand, txn>>
      /\ UNCHANGED <<kvDirty, kvCache, kvDisk, kvTxn, filling, stale, staleTxn, kvLast, kvDropped>>
      /\ UNCHANGED <<height, epoch, born, confirmations, loop, cursor, resp, fork, tracker, trackerAt>>
      /\ UNCHANGED <<inbox, stage, table, vouched, torn, ahead>>
  BY DEF rvars, vars, cursorVars, persistVars, kvVars, historyVars, chainVars, sourceVars, sinkVars, noteVars
<1>2. WindowInv' <=> WindowInv
  BY <1>1 DEF WindowInv, VersionInv, DownInv, LoopInv, Holding, Latest, Rooted, Known, RoomAt
<1>3. ASSUME NEW s PROVE (StreamInv(s)' <=> StreamInv(s)) /\ (DurableInv(s)' <=> DurableInv(s)) /\ (TickInv(s)' <=> TickInv(s))
  <2>1. /\ \A b, i : Stays(s, b, i)' <=> Stays(s, b, i)
        /\ \A b : Reached(b)' <=> Reached(b)
        /\ Latest' = Latest /\ Sent' = Sent /\ Forks(s)' = Forks(s)
    BY <1>1 DEF Stays, Reached, Latest, Rooted, Sent, Forks, Known
  <2>2. StreamInv(s)' <=> StreamInv(s)
    BY <1>1, <2>1 DEF StreamInv, Stop, Ordered
  <2>3. \A r, w : Durable(s, r, w)' <=> Durable(s, r, w)
    BY <1>1 DEF Durable, TickRow, TickVersion, Floor
  <2>4. \A r, w : Fits(s, r, w)' <=> Fits(s, r, w)
    BY <1>1, <2>1 DEF Fits, Remembers, Vouched, RowsOf
  <2>5. TickInv(s)' <=> TickInv(s)
    BY <1>1, <2>1 DEF TickInv, InHand
  <2> QED
    BY <2>2, <2>3, <2>4, <2>5 DEF DurableInv
<1>4. ASSUME NEW s, NEW view PROVE Tracks(s, view)' <=> Tracks(s, view)
  <2>1. /\ Latest' = Latest /\ Edge(s)' = Edge(s) /\ Applied(s)' = Applied(s)
        /\ \A b : Stays(s, b, 0)' <=> Stays(s, b, 0)
    BY <1>1, AppliedFrame DEF Latest, Edge, Sent, Stays
  <2> QED
    BY <1>1, <2>1, TracksParts DEF Gets, Holding
<1> QED
  BY <1>1, <1>2, <1>3, <1>4 DEF RestartInv

\* Every step keeps RestartInv.
LEMMA RestartStep ==
    ASSUME RTypeOK, RTypeOK', StepInv, PhaseInv, KvRowInv(Hashes), KvSerialInv(Hashes), RestartInv, [RNext]_rvars
    PROVE  RestartInv'
<1>1. CASE UNCHANGED rvars
  BY <1>1, RestartStutters
<1>2. CASE RNext
  <2> SUFFICES ASSUME confirmations' = 0, ~torn', ~ahead'
               PROVE  /\ WindowInv'
                      /\ \A s \in Sinks :
                            /\ StreamInv(s)' /\ DurableInv(s)' /\ TickInv(s)'
                            /\ \E view \in [Numbers -> Epochs] : Tracks(s, view)'
    BY DEF RestartInv
  <2>1. confirmations = 0 /\ ~torn /\ ~ahead
    BY NotesStay
  <2>2. /\ WindowInv
        /\ \A s \in Sinks :
              /\ StreamInv(s) /\ DurableInv(s) /\ TickInv(s)
              /\ \E view \in [Numbers -> Epochs] : Tracks(s, view)
    BY <2>1 DEF RestartInv
  <2>3. WindowInv'
    BY <1>2, <2>1, <2>2, WindowStep
  <2>4. ASSUME NEW s \in Sinks
        PROVE  /\ StreamInv(s)' /\ DurableInv(s)' /\ TickInv(s)'
               /\ \E view \in [Numbers -> Epochs] : Tracks(s, view)'
    <3>1. PICK view \in [Numbers -> Epochs] : Tracks(s, view)
      BY <2>2
    <3>2. StreamInv(s) /\ DurableInv(s) /\ TickInv(s)
      BY <2>2
    <3>3. StreamInv(s)'
      BY <1>2, <2>2, <2>3, <3>2, StreamStep
    <3>4. DurableInv(s)'
      BY <1>2, <2>2, <2>3, <3>1, <3>2, DurableStep
    <3>5. TickInv(s)'
      BY <1>2, <2>2, <2>3, <3>2, TickStep
    <3>6. \E chain \in [Numbers -> Epochs] : Tracks(s, chain)'
      BY <1>2, <2>2, <2>3, <3>1, <3>2, TracksStep
    <3> QED
      BY <3>3, <3>4, <3>5, <3>6
  <2> QED
    BY <2>3, <2>4
<1> QED
  BY <1>1, <1>2

\* It holds at the start: nothing is delivered and nothing saved.
LEMMA RestartInit == RInit => RestartInv
<1> SUFFICES ASSUME RInit
             PROVE  /\ WindowInv
                    /\ \A s \in Sinks :
                          /\ StreamInv(s) /\ DurableInv(s) /\ TickInv(s)
                          /\ \E view \in [Numbers -> Epochs] : Tracks(s, view)
  BY DEF RestartInv
<1>1. /\ running /\ loop = "load" /\ cursor = FromBlock /\ vouched = FromBlock - 1 /\ epoch = 0
      /\ born = [b \in Numbers |-> 0] /\ trackerAt = [v \in Version |-> NoHashes]
      /\ inbox = [s \in Sinks |-> <<>>] /\ stage = [s \in Sinks |-> "recv"] /\ table = [s \in Sinks |-> {}]
      /\ cursors = NoRows /\ disk = NoRows /\ paused = {} /\ ckpt = "idle" /\ hand = NoRows
      /\ kvDisk = [k \in Keys |-> 0] /\ kvLast = [k \in Keys |-> 0] /\ kvTxn = NoVersions /\ kvDropped = {}
  BY DEF RInit, Init
<1>2. /\ Hashes \in Keys /\ FromBlock \in Nat /\ Window \in Nat \ {0} /\ \A b \in Numbers : b \in Nat
  BY LimitFacts, NumberFacts
<1>3. kvDisk[Hashes] = 0 /\ kvLast[Hashes] = 0 /\ kvTxn[Hashes] = Absent /\ 0 \in Version
  BY <1>1, <1>2, BoundsAssumption DEF NoVersions, Version
<1>4. Latest = NoHashes /\ Known(NoHashes) = {}
  BY <1>1, <1>3 DEF Latest, Known, NoHashes
<1>5. VersionInv
  <2>1. kvDisk[Hashes] <= kvLast[Hashes] /\ kvTxn[Hashes] <= kvLast[Hashes] /\ kvDropped = {}
    BY <1>1, <1>3, LimitFacts
  <2>2. \A b \in Numbers : born[b] <= epoch /\ \A v \in Version : trackerAt[v][b] <= epoch
    BY <1>1 DEF NoHashes, Absent
  <2>3. \A v \in Version : Cardinality(Known(trackerAt[v])) <= Window
    <3>1. Cardinality({}) = 0
      BY FS_EmptySet
    <3>2. 0 <= Window
      BY <1>2
    <3>3. \A v \in Version : Known(trackerAt[v]) = {}
      BY <1>1, <1>4
    <3> QED
      BY <3>1, <3>2, <3>3
  <2> QED
    BY <1>1, <2>1, <2>2, <2>3 DEF VersionInv, Holding
<1>6. LoopInv
  BY <1>1, <1>2 DEF LoopInv, Holding, Rooted
<1>7. WindowInv
  BY <1>1, <1>5, <1>6 DEF WindowInv, DownInv
<1>8. ASSUME NEW s \in Sinks
      PROVE  /\ StreamInv(s) /\ DurableInv(s) /\ TickInv(s)
             /\ \E view \in [Numbers -> Epochs] : Tracks(s, view)
  <2>1. DOMAIN inbox[s] = {} /\ cursors[Pair(s)] = Absent /\ disk[Pair(s)] = Absent /\ hand[Pair(s)] = Absent
    BY <1>1, ChannelEmpty, PairFacts DEF NoRows
  <2>2. \A b \in Numbers : ~(b < Absent)
    BY <1>2, LimitFacts
  <2>3. StreamInv(s)
    BY <2>1, <2>2 DEF StreamInv, Stop, Ordered
  <2>4. TickInv(s)
    BY <1>1, <2>1 DEF TickInv
  <2>5. PICK view \in [Numbers -> Epochs] : view = born
    BY <1>1, NumberFacts
  <2>6. Remembers(view, NoHashes, born, epoch)
    BY <1>1, <2>5 DEF Remembers, SharePast
  <2>7. DurableInv(s)
    <3> SUFFICES ASSUME NEW r, NEW w, Durable(s, r, w) PROVE Fits(s, r, w)
      BY DEF DurableInv
    <3>1. r = Absent /\ w = 0
      BY <1>1, <1>3, <2>1 DEF Durable
    <3>2. trackerAt[w] = NoHashes
      BY <1>1, <1>3, <3>1
    <3>3. RowsOf(view, FromBlock, r) = {}
      BY <2>2, <3>1, LogFacts DEF RowsOf
    <3> QED
      BY <2>2, <2>6, <3>1, <3>2, <3>3 DEF Fits, Vouched
  <2>8. Tracks(s, view)
    <3>1. Edge(s) = FromBlock /\ ~Holding
      BY <1>1 DEF Edge, Sent, Holding
    <3>2. Gets(s, view)
      BY <1>2, <3>1, LogFacts DEF Gets
    <3> QED
      BY <1>4, <2>6, <3>1, <3>2, TracksParts
  <2> QED
    BY <2>3, <2>4, <2>7, <2>8
<1> QED
  BY <1>7, <1>8

\* It gives the property: the block before the cursor tells the whole past.
LEMMA RestartImplies ==
    ASSUME RTypeOK, RestartInv
    PROVE  ReorgSurvivesRestart
<1> SUFFICES ASSUME confirmations = 0, ~torn, ~ahead, NothingNoticed, NEW s \in Sinks, CaughtUp(s), NEW x \in Canonical
             PROVE  x \in table[s]
  BY DEF ReorgSurvivesRestart, TablesAreComplete
<1>1. PICK view \in [Numbers -> Epochs] : LoopInv /\ Tracks(s, view)
  BY DEF RestartInv, WindowInv
<1>2. inbox[s] = <<>> /\ s \notin paused /\ loop = "poll"
  BY DEF CaughtUp, NothingNoticed
<1>3. x \in Logs /\ x[1] > vouched /\ FromBlock <= x[1] /\ x[1] < cursor /\ x[2] = born[x[1]]
  BY DEF Canonical, Vouched, RowsOf
<1>4. x[1] \in Numbers /\ x[1] \in Nat /\ cursor \in Nat /\ vouched \in Int
  BY <1>3, LogFacts, SourceFacts
<1>5. cursor - 1 \in Known(tracker) /\ x[1] <= cursor - 1 /\ tracker = Latest
  <2>1. ~(cursor - 1 <= vouched) /\ x[1] <= cursor - 1
    BY <1>3, <1>4
  <2> QED
    BY <1>1, <1>2, <2>1 DEF LoopInv
<1>6. tracker[cursor - 1] = born[cursor - 1] /\ cursor - 1 \in Numbers
  <2>1. cursor > 0
    BY <1>3, <1>4
  <2> QED
    BY <1>5, <2>1 DEF NothingNoticed, Known
<1>7. view[x[1]] = born[x[1]]
  <2>1. view[cursor - 1] = born[cursor - 1] /\ SharePast(view, born)
    BY <1>1, <1>5, <1>6 DEF Tracks, Remembers
  <2> QED
    BY <1>4, <1>5, <1>6, <2>1 DEF SharePast
<1>8. x \in Applied(s)
  <2>1. Edge(s) = cursor
    BY <1>2 DEF Edge, Sent
  <2> QED
    BY <1>1, <1>2, <1>3, <1>7, <2>1, TracksParts DEF Gets
<1> QED
  BY <1>2, <1>8, ChannelEmpty DEF Applied, Pending

\* ReorgSurvivesRestart: however crashes, restarts, ticks, reorgs and rollbacks
\* fall, whenever the window agrees with the chain at the block before the
\* cursor, every sink that has caught up holds every row of the chain below the
\* cursor that the window vouches for, unless a tick was taken ahead of the
\* window or the sinks were torn apart (ReorgTracker::load and save,
\* CheckpointStore::persist_snapshot and restore, HyperSyncSource::run).
THEOREM ReorgSurvives == RSpec => []ReorgSurvivesRestart
<1> DEFINE Store == PhaseInv /\ KvRowInv(Hashes) /\ KvSerialInv(Hashes)
<1>1. RInit => Store /\ RestartInv
  <2> SUFFICES ASSUME RInit PROVE Store /\ RestartInv
    OBVIOUS
  <2>1. PhaseInv
    BY StoreInvInit DEF RInit, StoreInv
  <2>2. KvRowInv(Hashes) /\ KvSerialInv(Hashes)
    BY LimitFacts DEF RInit, Init, KvRowInv, KvSerialInv, NoVersions
  <2> QED
    BY <2>1, <2>2, RestartInit
<1>2. RTypeOK /\ StepInv /\ Store /\ RestartInv /\ [RNext]_rvars => Store' /\ RestartInv'
  <2> SUFFICES ASSUME RTypeOK, StepInv, Store, RestartInv, [RNext]_rvars PROVE Store' /\ RestartInv'
    OBVIOUS
  <2>1. [Next]_vars /\ TypeOK /\ RTypeOK'
    BY StoreStep, RTypeStep DEF RTypeOK
  <2>2. PhaseInv'
    BY <2>1, PhaseStep
  <2>3. KvRowInv(Hashes)' /\ KvSerialInv(Hashes)'
    BY <2>1, LimitFacts, KvRowStep, KvSerialStep
  <2> QED
    BY <2>1, <2>2, <2>3, RestartStep
<1>3. RTypeOK /\ RestartInv => ReorgSurvivesRestart
  BY RestartImplies
<1> QED
  BY <1>1, <1>2, <1>3, RTypedAlways, PTL DEF RSpec

==============================================================================

--------------------------- MODULE DeliveryProofs ---------------------------
(* Proofs about Delivery, for every set of sinks, every block range, page
   size, channel capacity and number of instances. *)
EXTENDS Delivery, CheckpointStoreProofs, SequenceTheorems, WellFoundedInduction

-----------------------------------------------------------------------------
(* Constants.                                                                *)

\* Block numbers are naturals between the ends of the backfill.
LEMMA BlockFacts ==
    /\ FromBlock \in Nat /\ ToBlock \in Nat /\ FromBlock \in Blocks /\ ToBlock \in Blocks
    /\ \A b \in Blocks : b \in Nat /\ FromBlock <= b /\ b <= ToBlock
    /\ \A b \in Int : (FromBlock <= b /\ b <= ToBlock) => b \in Blocks
    /\ \A r \in Rows : r \in Nat /\ FromBlock <= r /\ r + 1 <= ToBlock
BY DeliveryAssumption

\* There is one source, so a sink and its pair are the same thing.
LEMMA PairFacts ==
    /\ \A s \in Sinks : Pair(s) \in Pairs /\ Pair(s)[2] = s
    /\ \A p \in Pairs : p[2] \in Sinks /\ p = Pair(p[2])
    /\ \A s, t \in Sinks : Pair(s) = Pair(t) => s = t
BY DeliveryAssumption DEF Pairs, Pair

\* One sink's values in the store are integers.
LEMMA CursorFacts ==
    ASSUME TypeOK, NEW s \in Sinks
    PROVE  /\ disk[Pair(s)] \in Int /\ cursors[Pair(s)] \in Int /\ snap[Pair(s)] \in Int
           /\ hand[Pair(s)] \in Int /\ txn[Pair(s)] \in Int
BY PairFacts, RowTypes

\* The channel and the pool a process starts with have their types.
LEMMA EmptySeqs ==
    /\ <<>> \in Seq(Batch)
    /\ FreshSlot \in Slot
    /\ FreshPool \in Seq(Slot)
<1>1. FreshSlot \in Slot
  BY DEF FreshSlot, Slot
<1>2. FreshPool \in Seq(Slot)
  BY <1>1, DeliveryAssumption DEF FreshPool
<1> QED
  BY <1>1, <1>2

-----------------------------------------------------------------------------
(* Every step of the pipeline is, for the store, a step of the store or none. *)

\* The store's actions that the pipeline of Delivery takes: no rollbacks, and
\* module state is left out.
QuietNext ==
    \/ \E p \in Pairs, n \in Blocks : Ack(p, n)
    \/ CheckpointNext
    \/ \E s \in Sinks : Pause(s)
    \/ Crash
    \/ Shutdown
    \/ Open

\* No step of the pipeline rewinds a cursor or touches module state.
LEMMA StoreStepQuiet ==
    ASSUME DTypeOK, HandInv, [DNext]_dvars
    PROVE  [QuietNext]_vars
<1>1. CASE SourceStep
  BY <1>1 DEF SourceStep, Query, SendChunk, EmptyPage, SendEof, SourceStops
<1>2. CASE FanStep
  BY <1>2 DEF FanStep, FanRecv, FanSend, FanDrop, FanSent, FanEnds
<1>3. ASSUME NEW s \in Sinks, SinkStep(s) PROVE [QuietNext]_vars
  <2>1. CASE Recv(s) \/ Retry(s) \/ WriteOk(s) \/ SinkEnds(s)
    BY <2>1 DEF Recv, Retry, Checkout, WriteOk, SinkEnds
  <2>2. Failed(s) => [QuietNext]_vars
    BY DEF Failed, TaskReturns, QuietNext
  <2>3. CASE WriteErr(s) \/ WriteTrap(s)
    BY <2>2, <2>3 DEF WriteErr, WriteTrap
  <2>4. CASE WritePanic(s)
    BY <2>4 DEF WritePanic, TaskReturns, QuietNext
  <2>5. CASE AckBatch(s)
    <3>1. inbox[s] \in Seq(Batch) /\ inbox[s] # <<>>
      BY <2>5 DEF AckBatch, TaskRuns, HandInv, DTypeOK
    <3>2. Head(inbox[s]) \in Batch
      BY <3>1, HeadTailProperties
    <3>3. Head(inbox[s]).ack \in Blocks
      BY <3>2 DEF Batch
    <3> QED
      BY <2>5, <3>3, PairFacts DEF AckBatch, QuietNext
  <2> QED
    BY <1>3, <2>1, <2>3, <2>4, <2>5 DEF SinkStep, WriteReturns
<1>4. CASE Tick \/ FinalTick
  BY <1>4 DEF Tick, FinalTick, QuietNext, CheckpointNext
<1>5. CASE CheckpointStep
  BY <1>5 DEF CheckpointStep, PersistStep, Persist, FlushOk, FlushErr, QuietNext, CheckpointNext
<1>6. CASE Signal \/ AllDone
  BY <1>6 DEF Signal, AllDone, Ending, QuietNext, CheckpointNext
<1>7. CASE Exit \/ Kill \/ Restart
  BY <1>7 DEF Exit, Kill, Restart, QuietNext
<1>8. CASE UNCHANGED dvars
  BY <1>8 DEF dvars
<1> QED
  BY <1>1, <1>2, <1>3, <1>4, <1>5, <1>6, <1>7, <1>8 DEF DNext

\* Every step of the pipeline is a step of the store, or none.
LEMMA StoreStep ==
    ASSUME DTypeOK, HandInv, [DNext]_dvars
    PROVE  [Next]_vars
BY StoreStepQuiet DEF QuietNext, Next, SinkNext

-----------------------------------------------------------------------------
(* Types.                                                                    *)

\* The pipeline starts in its types.
LEMMA DTypeInit == DInit => DTypeOK
<1> SUFFICES ASSUME DInit PROVE DTypeOK
  OBVIOUS
<1>1. TypeOK
  BY TypeInit DEF DInit
<1>2. 0 \in 0..MaxAttempts
  BY DeliveryAssumption
<1>3. stop \in BOOLEAN /\ ticker \in BOOLEAN
  BY DeliveryAssumption, Zenon DEF DInit
<1>4. /\ cursor \in Blocks /\ pageEnd \in Blocks /\ pos \in Blocks
      /\ feed \in Seq(Batch) /\ fanTodo \subseteq live /\ live \subseteq Sinks /\ toFlush \subseteq Sinks
  BY BlockFacts, EmptySeqs DEF DInit
<1>5. /\ inbox \in [Sinks -> Seq(Batch)] /\ attempt \in [Sinks -> 0..MaxAttempts]
      /\ pool \in [Sinks -> Seq(Slot)] /\ out \in [Sinks -> Slot]
  BY <1>2, EmptySeqs DEF DInit
<1>6. durable \in [Sinks -> SUBSET Rows] /\ exposed \in [Sinks -> SUBSET Rows]
  BY DEF DInit
<1> QED
  BY <1>1, <1>3, <1>4, <1>5, <1>6 DEF DInit, DTypeOK

\* The sequences a batch moves between keep their types.
LEMMA BatchMoves ==
    ASSUME NEW q \in Seq(Batch)
    PROVE  /\ \A b \in Batch : Append(q, b) \in Seq(Batch)
           /\ q # <<>> => Tail(q) \in Seq(Batch) /\ Head(q) \in Batch
BY HeadTailProperties

\* The source loop keeps the variables in their types.
LEMMA SourceTypes ==
    ASSUME DTypeOK, TypeOK', HandInv, SourceStep
    PROVE  DTypeOK'
<1> USE BlockFacts
<1>1. CASE Query
  <2>1. pageEnd' \in Blocks /\ pos' \in Blocks /\ loop' \in {"poll", "page", "eof", "done"}
    BY <1>1, DeliveryAssumption DEF Query, DTypeOK, Least
  <2> QED
    BY <1>1, <2>1 DEF Query, DTypeOK, runVars, fanVars, sinkVars
<1>2. CASE SendChunk
  <2>1. PICK r \in PageRows(pos, pageEnd) :
          LET last == PageRows(r + 1, pageEnd) = {} IN
          /\ Send([rows |-> PageRows(pos, r + 1), ack |-> ChunkAck(last)],
                  IF last THEN After(pageEnd) ELSE "page")
          /\ pos' = IF last THEN pageEnd ELSE r + 1
          /\ cursor' = IF last THEN pageEnd ELSE cursor
    BY <1>2 DEF SendChunk
  <2>2. r \in Rows /\ r + 1 \in Blocks
    BY <2>1 DEF PageRows
  <2>3. \A last \in BOOLEAN : [rows |-> PageRows(pos, r + 1), ack |-> ChunkAck(last)] \in Batch
    BY DEF PageRows, ChunkAck, Batch, DTypeOK
  <2>4. feed' \in Seq(Batch) /\ loop' \in {"poll", "page", "eof", "done"}
    BY <2>1, <2>3, BatchMoves DEF Send, After, DTypeOK
  <2>5. pos' \in Blocks /\ cursor' \in Blocks
    BY <2>1, <2>2 DEF DTypeOK
  <2> QED
    BY <1>2, <2>4, <2>5 DEF SendChunk, DTypeOK, runVars, fanVars, sinkVars
<1>3. CASE EmptyPage
  BY <1>3 DEF EmptyPage, After, DTypeOK, runVars, fanVars, sinkVars
<1>4. CASE SendEof
  <2>1. [rows |-> {}, ack |-> cursor] \in Batch
    BY DEF Batch, DTypeOK
  <2>2. feed' \in Seq(Batch) /\ loop' = "done"
    BY <1>4, <2>1, BatchMoves DEF SendEof, Send, DTypeOK
  <2> QED
    BY <1>4, <2>2 DEF SendEof, DTypeOK, runVars, fanVars, sinkVars
<1>5. CASE SourceStops
  BY <1>5 DEF SourceStops, DTypeOK, runVars, fanVars, sinkVars
<1> QED
  BY <1>1, <1>2, <1>3, <1>4, <1>5 DEF SourceStep

\* The fan-out keeps the variables in their types.
LEMMA FanTypes ==
    ASSUME DTypeOK, TypeOK', HandInv, FanStep
    PROVE  DTypeOK'
<1>1. CASE FanRecv
  BY <1>1 DEF FanRecv, DTypeOK, runVars, sourceVars, sinkVars
<1>2. CASE FanSent
  <2>1. feed' \in Seq(Batch)
    BY <1>2, BatchMoves DEF FanSent, HandInv, DTypeOK
  <2>2. stop' \in BOOLEAN
    BY <1>2, Zenon DEF FanSent
  <2> QED
    BY <1>2, <2>1, <2>2 DEF FanSent, DTypeOK, sinkVars
<1>3. CASE FanEnds
  BY <1>3 DEF FanEnds, DTypeOK, runVars, sourceVars, sinkVars
<1>4. ASSUME NEW s \in Sinks, FanSend(s) PROVE DTypeOK'
  <2>1. feed # <<>>
    BY <1>4 DEF FanSend, HandInv
  <2>2. Append(inbox[s], Head(feed)) \in Seq(Batch)
    BY <2>1, BatchMoves DEF DTypeOK
  <2> QED
    BY <1>4, <2>2 DEF FanSend, DTypeOK, runVars, sourceVars
<1>5. ASSUME NEW s \in Sinks, FanDrop(s) PROVE DTypeOK'
  BY <1>5 DEF FanDrop, DTypeOK, runVars, sourceVars, sinkVars
<1> QED
  BY <1>1, <1>2, <1>3, <1>4, <1>5 DEF FanStep

\* Taking the last instance out of a pool leaves a pool.
LEMMA PoolPop ==
    ASSUME NEW q \in Seq(Slot), q # <<>>
    PROVE  /\ q[Len(q)] \in Slot
           /\ SubSeq(q, 1, Len(q) - 1) \in Seq(Slot)
           /\ Len(SubSeq(q, 1, Len(q) - 1)) = Len(q) - 1
           /\ \A i \in 1..(Len(q) - 1) : SubSeq(q, 1, Len(q) - 1)[i] = q[i]
<1>0. \A i \in 1..Len(q) : q[i] \in Slot
  BY ElementOfSeq
<1>1. Len(q) \in Nat \ {0} /\ \A i \in 1..Len(q) : q[i] \in Slot
  BY <1>0, EmptySeq
<1>2. \A i \in 1..(Len(q) - 1) : q[i] \in Slot
  BY <1>1
<1>3. /\ SubSeq(q, 1, Len(q) - 1) \in Seq(Slot)
      /\ Len(SubSeq(q, 1, Len(q) - 1)) = IF 1 <= Len(q) - 1 THEN Len(q) - 1 - 1 + 1 ELSE 0
      /\ \A i \in 1..(Len(q) - 1 - 1 + 1) : SubSeq(q, 1, Len(q) - 1)[i] = q[1 + i - 1]
  BY <1>1, <1>2, SubSeqProperties
<1>4. Len(SubSeq(q, 1, Len(q) - 1)) = Len(q) - 1
  <2>1. \A n \in Nat \ {0} : (IF 1 <= n - 1 THEN n - 1 - 1 + 1 ELSE 0) = n - 1
    OBVIOUS
  <2> QED
    BY <1>1, <1>3, <2>1, Zenon
<1>5. ASSUME NEW i \in 1..(Len(q) - 1) PROVE SubSeq(q, 1, Len(q) - 1)[i] = q[i]
  <2>1. i \in 1..(Len(q) - 1 - 1 + 1) /\ 1 + i - 1 = i
    BY <1>1
  <2> QED
    BY <1>3, <2>1
<1> QED
  BY <1>1, <1>3, <1>4, <1>5

\* Taking an instance out for a write keeps pool and instance in their types.
LEMMA CheckoutTypes ==
    ASSUME DTypeOK, NEW s \in Sinks, Checkout(s)
    PROVE  pool' \in [Sinks -> Seq(Slot)] /\ out' \in [Sinks -> Slot]
<1>1. CASE pool[s] = <<>>
  BY <1>1, EmptySeqs DEF Checkout, DTypeOK
<1>2. CASE pool[s] # <<>>
  <2>1. pool[s][Len(pool[s])] \in Slot /\ SubSeq(pool[s], 1, Len(pool[s]) - 1) \in Seq(Slot)
    BY <1>2, PoolPop DEF DTypeOK
  <2> QED
    BY <1>2, <2>1 DEF Checkout, DTypeOK
<1> QED
  BY <1>1, <1>2

\* So does putting it back, whatever rows it kept or stored.
LEMMA PutBackTypes ==
    ASSUME DTypeOK, NEW s \in Sinks, NEW kept \in SUBSET Rows, NEW stored \in SUBSET Rows,
           PutBack(s, kept, stored)
    PROVE  pool' \in [Sinks -> Seq(Slot)] /\ out' \in [Sinks -> Slot] /\ durable' \in [Sinks -> SUBSET Rows]
<1>1. [rows |-> kept, poisoned |-> FALSE] \in Slot
  BY DEF Slot
<1>2. Append(pool[s], [rows |-> kept, poisoned |-> FALSE]) \in Seq(Slot)
  BY <1>1 DEF DTypeOK
<1> QED
  BY <1>2, EmptySeqs DEF PutBack, DTypeOK

\* A failed attempt keeps the count of attempts within its limit.
LEMMA FailedTypes ==
    ASSUME DTypeOK, NEW s \in Sinks, Failed(s), attempt[s] + 1 <= MaxAttempts
    PROVE  /\ attempt' \in [Sinks -> 0..MaxAttempts]
           /\ task' \in [Sinks -> {"recv", "writing", "retry", "written", "done"}]
           /\ inbox' \in [Sinks -> Seq(Batch)]
<1>1. attempt[s] + 1 \in 0..MaxAttempts
  BY DeliveryAssumption DEF DTypeOK
<1>2. inbox' \in [Sinks -> Seq(Batch)]
  BY EmptySeqs DEF Failed, TaskReturns, DTypeOK
<1> QED
  BY <1>1, <1>2 DEF Failed, DTypeOK

\* A sink task keeps the variables in their types.
LEMMA SinkTypes ==
    ASSUME DTypeOK, TypeOK', HandInv, NEW s \in Sinks, SinkStep(s)
    PROVE  DTypeOK'
<1> DEFINE Tasks == {"recv", "writing", "retry", "written", "done"}
<1>1. CASE Recv(s) \/ Retry(s)
  <2>1. Checkout(s)
    BY <1>1 DEF Recv, Retry
  <2>2. task' \in [Sinks -> Tasks]
    BY <2>1 DEF Checkout, DTypeOK
  <2> QED
    BY <2>1, <2>2, CheckoutTypes DEF Checkout, DTypeOK, runVars, sourceVars, fanVars
<1>2. ASSUME s \notin paused, task[s] = "writing" PROVE /\ InHand(s) \in SUBSET Rows
                                                       /\ out[s].rows \in SUBSET Rows
                                                       /\ attempt[s] + 1 <= MaxAttempts
  <2>1. inbox[s] # <<>> /\ inbox[s] \in Seq(Batch) /\ out[s] \in Slot
    BY <1>2 DEF HandInv, DTypeOK
  <2>2. Head(inbox[s]) \in Batch
    BY <2>1, BatchMoves
  <2>3. attempt[s] < MaxAttempts /\ attempt[s] \in 0..MaxAttempts /\ MaxAttempts \in Nat
    BY <1>2, DeliveryAssumption DEF HandInv, DTypeOK
  <2> QED
    BY <2>1, <2>2, <2>3 DEF InHand, Batch, Slot
<1>3. CASE WriteOk(s)
  <2>1. PICK kept \in SUBSET Rows, stored \in SUBSET Rows : PutBack(s, kept, stored)
    BY <1>3, <1>2 DEF WriteOk, TaskRuns
  <2>2. task' \in [Sinks -> Tasks]
    BY <1>3 DEF WriteOk, DTypeOK
  <2> QED
    BY <1>3, <2>1, <2>2, PutBackTypes DEF WriteOk, DTypeOK, runVars, sourceVars, fanVars
<1>4. CASE WriteErr(s)
  <2>1. PICK kept \in SUBSET Rows, stored \in SUBSET Rows : PutBack(s, kept, stored)
    BY <1>4, <1>2 DEF WriteErr, TaskRuns
  <2>2. exposed' \in [Sinks -> SUBSET Rows]
    BY <1>4, <1>2 DEF WriteErr, TaskRuns, DTypeOK
  <2>3. Failed(s) /\ attempt[s] + 1 <= MaxAttempts
    BY <1>4, <1>2 DEF WriteErr, TaskRuns
  <2> QED
    BY <1>4, <2>1, <2>2, <2>3, PutBackTypes, FailedTypes
       DEF WriteErr, DTypeOK, runVars, sourceVars, fanVars
<1>5. CASE WriteTrap(s)
  <2>1. exposed' \in [Sinks -> SUBSET Rows]
    BY <1>5, <1>2 DEF WriteTrap, TaskRuns, DTypeOK
  <2>2. durable' \in [Sinks -> SUBSET Rows]
    BY <1>5, <1>2 DEF WriteTrap, TaskRuns, DTypeOK
  <2>3. Failed(s) /\ attempt[s] + 1 <= MaxAttempts
    BY <1>5, <1>2 DEF WriteTrap, TaskRuns
  <2>4. out' \in [Sinks -> Slot]
    BY <1>5, EmptySeqs DEF WriteTrap, DTypeOK
  <2> QED
    BY <1>5, <2>1, <2>2, <2>3, <2>4, FailedTypes
       DEF WriteTrap, DTypeOK, runVars, sourceVars, fanVars
<1>6. CASE WritePanic(s)
  <2>1. exposed' \in [Sinks -> SUBSET Rows]
    BY <1>6, <1>2 DEF WritePanic, TaskRuns, DTypeOK
  <2>2. out' \in [Sinks -> Slot] /\ inbox' \in [Sinks -> Seq(Batch)]
    BY <1>6, EmptySeqs DEF WritePanic, TaskReturns, DTypeOK
  <2> QED
    BY <1>6, <2>1, <2>2 DEF WritePanic, DTypeOK, runVars, sourceVars, fanVars
<1>7. CASE AckBatch(s)
  <2>1. Tail(inbox[s]) \in Seq(Batch)
    BY <1>7, BatchMoves DEF AckBatch, TaskRuns, HandInv, DTypeOK
  <2>2. 0 \in 0..MaxAttempts
    BY DeliveryAssumption
  <2>3. /\ inbox' \in [Sinks -> Seq(Batch)] /\ task' \in [Sinks -> Tasks]
        /\ attempt' \in [Sinks -> 0..MaxAttempts]
    BY <1>7, <2>1, <2>2 DEF AckBatch, DTypeOK
  <2> QED
    BY <1>7, <2>3 DEF AckBatch, DTypeOK, runVars, sourceVars, fanVars
<1>8. CASE SinkEnds(s)
  BY <1>8 DEF SinkEnds, DTypeOK, runVars, sourceVars, fanVars
<1> QED
  BY <1>1, <1>3, <1>4, <1>5, <1>6, <1>7, <1>8 DEF SinkStep, WriteReturns

\* A pool in which every instance is replaced by another is a pool.
LEMMA PoolMap ==
    ASSUME NEW q \in Seq(Slot), NEW f, f \in [DOMAIN q -> Slot]
    PROVE  f \in Seq(Slot) /\ DOMAIN f = DOMAIN q
<1>1. DOMAIN q = 1..Len(q) /\ Len(q) \in Nat
  BY LenProperties
<1> QED
  BY <1>1, SeqDef

\* An instance of a pool, emptied or poisoned, is an instance.
LEMMA SlotFacts ==
    ASSUME NEW q \in Seq(Slot), NEW i \in DOMAIN q
    PROVE  /\ q[i] \in Slot
           /\ q[i].rows \in SUBSET Rows
           /\ [q[i] EXCEPT !.rows = {}] \in Slot
           /\ [q[i] EXCEPT !.poisoned = TRUE] \in Slot
<1>1. q[i] \in Slot
  BY LenProperties, ElementOfSeq
<1> QED
  BY <1>1 DEF Slot

\* The look at the stop flag keeps the ticker a Boolean.
LEMMA TickerTypes ==
    ASSUME ticker \in BOOLEAN, TickerGoesOn PROVE ticker' \in BOOLEAN
BY Zenon DEF TickerGoesOn

\* A flush, done or failed, keeps the variables in their types.
LEMMA FlushTypes ==
    ASSUME DTypeOK, TypeOK', NEW s \in Sinks, FlushOk(s) \/ FlushErr(s)
    PROVE  DTypeOK'
<1>0. pool[s] \in Seq(Slot)
  BY DEF DTypeOK
<1>1. CASE FlushOk(s)
  <2>1. Emptied(pool[s]) \in [DOMAIN pool[s] -> Slot]
    BY <1>0, SlotFacts DEF Emptied
  <2>2. Emptied(pool[s]) \in Seq(Slot)
    BY <1>0, <2>1, PoolMap
  <2>3. Held(pool[s]) \in SUBSET Rows
    BY <1>0, SlotFacts DEF Held
  <2>4. pool' \in [Sinks -> Seq(Slot)] /\ durable' \in [Sinks -> SUBSET Rows]
    BY <1>1, <2>2, <2>3 DEF FlushOk, DTypeOK
  <2>5. exposed' \in [Sinks -> SUBSET Rows]
    BY <1>1 DEF FlushOk, DTypeOK, Slot
  <2> QED
    BY <1>1, <2>4, <2>5 DEF FlushOk, DTypeOK, runVars, sourceVars, fanVars
<1>2. CASE FlushErr(s)
  <2> DEFINE slots == pool[s]
             After1(i, slot) == [j \in DOMAIN slots |->
                         CASE j < i -> [slots[j] EXCEPT !.rows = {}]
                           [] j = i -> slot
                           [] j > i -> slots[j]]
  <2>1. PICK i \in DOMAIN slots, slot \in Slot, lost \in SUBSET Rows :
           /\ pool' = [pool EXCEPT ![s] = After1(i, slot)]
           /\ exposed' = [exposed EXCEPT ![s] = @ \cup lost]
           /\ durable' = [durable EXCEPT ![s] = @ \cup UNION {slots[j].rows : j \in 1..(i - 1)}]
    <3> DEFINE Leave(i, slot, lost) ==
                  /\ pool' = [pool EXCEPT ![s] = After1(i, slot)]
                  /\ exposed' = [exposed EXCEPT ![s] = @ \cup lost]
    <3>1. PICK i \in DOMAIN slots :
             /\ durable' = [durable EXCEPT ![s] = @ \cup UNION {slots[j].rows : j \in 1..(i - 1)}]
             /\ \/ Leave(i, [slots[i] EXCEPT !.poisoned = TRUE], {})
                \/ Leave(i, FreshSlot, slots[i].rows)
                \/ Leave(i, slots[i], {})
      BY <1>2, Zenon DEF FlushErr
    <3>2. /\ slots[i] \in Slot /\ [slots[i] EXCEPT !.poisoned = TRUE] \in Slot
          /\ FreshSlot \in Slot /\ slots[i].rows \in SUBSET Rows /\ {} \in SUBSET Rows
      BY <1>0, SlotFacts, EmptySeqs
    <3> HIDE DEF After1
    <3> QED
      BY <3>1, <3>2, Zenon
  <2>2. DOMAIN slots = 1..Len(slots) /\ Len(slots) \in Nat
    BY <1>0, LenProperties
  <2>3. \A j \in 1..(i - 1) : j \in DOMAIN slots
    BY <2>2
  <2>4. UNION {slots[j].rows : j \in 1..(i - 1)} \in SUBSET Rows
    BY <1>0, <2>3, SlotFacts
  <2>5. After1(i, slot) \in [DOMAIN slots -> Slot]
    <3>1. ASSUME NEW j \in DOMAIN slots PROVE After1(i, slot)[j] \in Slot
      <4>1. slots[j] \in Slot /\ [slots[j] EXCEPT !.rows = {}] \in Slot
        BY <1>0, SlotFacts
      <4>2. j \in Int /\ i \in Int
        BY <2>2
      <4>3. j < i \/ j = i \/ j > i
        BY <4>2
      <4> QED
        BY <4>1, <4>2, <4>3
    <3> QED
      BY <3>1
  <2>6. After1(i, slot) \in Seq(Slot)
    BY <1>0, <2>5, PoolMap
  <2>7. /\ pool' \in [Sinks -> Seq(Slot)] /\ durable' \in [Sinks -> SUBSET Rows]
        /\ exposed' \in [Sinks -> SUBSET Rows]
    BY <2>1, <2>4, <2>6 DEF DTypeOK
  <2>8. ticker' \in BOOLEAN
    BY <1>2, TickerTypes DEF FlushErr, DTypeOK
  <2> QED
    BY <1>2, <2>7, <2>8 DEF FlushErr, DTypeOK, sourceVars, fanVars
<1> QED
  BY <1>1, <1>2

\* Ending, final checkpoint and the like keep the variables in their types.
LEMMA ProcessTypes ==
    ASSUME DTypeOK, TypeOK', Tick \/ PersistStep \/ Signal \/ AllDone \/ FinalTick
    PROVE  DTypeOK'
<1>1. CASE Tick
  BY <1>1 DEF Tick, DTypeOK, runVars, sourceVars, fanVars, sinkVars
<1>2. CASE PersistStep
  <2>1. ticker' \in BOOLEAN
    BY <1>2, TickerTypes DEF PersistStep, DTypeOK
  <2> QED
    BY <1>2, <2>1 DEF PersistStep, DTypeOK, sourceVars, fanVars, sinkVars
<1>3. CASE Signal \/ AllDone
  <2>1. stop' \in BOOLEAN /\ ticker' \in BOOLEAN
    BY <1>3, Zenon DEF Signal, AllDone, Ending, DTypeOK
  <2> QED
    BY <1>3, <2>1 DEF Signal, AllDone, Ending, DTypeOK, sourceVars, fanVars, sinkVars
<1>4. CASE FinalTick
  BY <1>4 DEF FinalTick, DTypeOK, sourceVars, fanVars, sinkVars
<1> QED
  BY <1>1, <1>2, <1>3, <1>4

\* A non-empty set of naturals has a least element.
LEMMA LeastElement ==
    ASSUME NEW T \in SUBSET Nat, T # {}
    PROVE  \E x \in T : \A y \in T : x <= y
<1> DEFINE R == {ss \in Nat \X Nat : ss[1] < ss[2]}
<1>1. IsWellFoundedOn(R, Nat)
  BY NatLessThanWellFounded DEF OpToRel
<1> HIDE DEF R
<1>2. PICK x \in T : \A y \in T : ~ (<<y, x>> \in R)
  BY <1>1, WFMin
<1>3. ASSUME NEW y \in T PROVE x <= y
  <2>1. <<y, x>> \notin R
    BY <1>2
  <2>2. x \in Nat /\ y \in Nat
    OBVIOUS
  <2> QED
    BY <2>1, <2>2 DEF R
<1> QED
  BY <1>2, <1>3

\* The restart point is a block of the range; where it is not the configured
\* start it is below every persisted cursor.
LEMMA RestartPointFacts ==
    ASSUME TypeOK
    PROVE  /\ RestartPoint(disk) \in Blocks
           /\ \A s \in Sinks : RestartPoint(disk) = FromBlock \/ RestartPoint(disk) <= disk[Pair(s)]
<1> DEFINE saved == RestoreFrom(disk, Src, Sinks)
<1>1. CASE saved = Absent
  BY <1>1, BlockFacts DEF RestartPoint
<1>2. CASE saved # Absent
  <2> DEFINE T == {disk[<<Src, s>>] : s \in Sinks}
  <2>1. Sinks # {} /\ \A s \in Sinks : disk[<<Src, s>>] # Absent
    BY <1>2 DEF RestoreFrom
  <2>2. \A s \in Sinks : disk[<<Src, s>>] \in Blocks
    BY <2>1, PairFacts DEF TypeOK, Cursor, Pair
  <2>3. T \in SUBSET Nat /\ T # {}
    BY <2>1, <2>2, BlockFacts
  <2>4. \E x \in T : \A y \in T : x <= y
    BY <2>3, LeastElement
  <2>5. \E n \in T : \A s \in Sinks : n <= disk[<<Src, s>>]
    BY <2>4
  <2>6. saved = CHOOSE n \in T : \A s \in Sinks : n <= disk[<<Src, s>>]
    BY <2>1 DEF RestoreFrom
  <2>7. saved \in T /\ \A s \in Sinks : saved <= disk[<<Src, s>>]
    BY <2>5, <2>6, Zenon
  <2>8. saved \in Blocks
    BY <2>2, <2>7
  <2>9. RestartPoint(disk) = Greatest(saved, FromBlock)
    BY <1>2 DEF RestartPoint
  <2> QED
    BY <2>7, <2>8, <2>9, BlockFacts DEF Greatest, Pair
<1> QED
  BY <1>1, <1>2

\* The memory of a fresh process has its types.
LEMMA MemoryTypes ==
    ASSUME DTypeOK, TypeOK', NEW b \in Blocks, Memory(b)
    PROVE  DTypeOK'
<1>1. 0 \in 0..MaxAttempts
  BY DeliveryAssumption
<1>2. stop' \in BOOLEAN /\ ticker' \in BOOLEAN
  BY DeliveryAssumption, Zenon DEF Memory
<1>3. /\ cursor' \in Blocks /\ pageEnd' \in Blocks /\ pos' \in Blocks
      /\ feed' \in Seq(Batch) /\ fanTodo' \subseteq live' /\ live' \subseteq Sinks /\ toFlush' \subseteq Sinks
  BY EmptySeqs DEF Memory
<1>4. /\ inbox' \in [Sinks -> Seq(Batch)] /\ attempt' \in [Sinks -> 0..MaxAttempts]
      /\ pool' \in [Sinks -> Seq(Slot)] /\ out' \in [Sinks -> Slot]
  BY <1>1, EmptySeqs DEF Memory
<1>5. durable' \in [Sinks -> SUBSET Rows] /\ exposed' \in [Sinks -> SUBSET Rows]
  BY DEF Memory, DTypeOK
<1> QED
  BY <1>2, <1>3, <1>4, <1>5 DEF Memory, DTypeOK

\* Every step keeps the variables in their types.
LEMMA DTypeStep ==
    ASSUME DTypeOK, HandInv, [DNext]_dvars
    PROVE  DTypeOK'
<1>0. TypeOK'
  BY StoreStep, TypeStep DEF DTypeOK
<1>1. CASE SourceStep
  BY <1>0, <1>1, SourceTypes
<1>2. CASE FanStep
  BY <1>0, <1>2, FanTypes
<1>3. ASSUME NEW s \in Sinks, SinkStep(s) PROVE DTypeOK'
  BY <1>0, <1>3, SinkTypes
<1>4. ASSUME NEW s \in Sinks, FlushOk(s) \/ FlushErr(s) PROVE DTypeOK'
  BY <1>0, <1>4, FlushTypes
<1>5. CASE Tick \/ PersistStep \/ Signal \/ AllDone \/ FinalTick
  BY <1>0, <1>5, ProcessTypes
<1>6. CASE Exit \/ Kill
  <2>1. Memory(FromBlock)
    BY <1>6 DEF Exit, Kill
  <2> QED
    BY <1>0, <2>1, MemoryTypes, BlockFacts
<1>7. CASE Restart
  <2>1. Memory(RestartPoint(disk)) /\ RestartPoint(disk) \in Blocks
    BY <1>7, RestartPointFacts DEF Restart, DTypeOK
  <2> QED
    BY <1>0, <2>1, MemoryTypes
<1>8. CASE UNCHANGED dvars
  BY <1>0, <1>8 DEF dvars, deliveryVars, runVars, sourceVars, fanVars, sinkVars, DTypeOK
<1> QED
  BY <1>1, <1>2, <1>3, <1>4, <1>5, <1>6, <1>7, <1>8 DEF DNext, CheckpointStep

-----------------------------------------------------------------------------
(* What each task has in hand (HandInv).                                     *)

\* A channel with one more batch is not empty.
LEMMA AppendNonEmpty ==
    ASSUME NEW q \in Seq(Batch), NEW b \in Batch
    PROVE  Append(q, b) # <<>>
BY AppendProperties, EmptySeq

\* Nobody has anything in hand at the start.
LEMMA HandInit == DInit => HandInv
<1> SUFFICES ASSUME DInit PROVE HandInv
  OBVIOUS
<1>1. \A s \in Sinks : HoldsNothing(s)
  BY DeliveryAssumption DEF DInit, HoldsNothing, FreshPool, FreshSlot
<1>2. \A s \in Sinks : s \in live /\ attempt[s] < MaxAttempts /\ task[s] = "recv" /\ out[s] = FreshSlot
  BY DeliveryAssumption DEF DInit
<1>3. fan = "recv" /\ loop = "poll" /\ pos = cursor /\ cursor = FromBlock
  BY DEF DInit
<1> QED
  BY <1>1, <1>2, <1>3, BlockFacts DEF HandInv

\* The source's place in the range: the chunks it sends move it forward.
LEMMA SourceHand ==
    ASSUME DTypeOK, HandInv, SourceStep
    PROVE  HandInv'
<1> USE BlockFacts
<1>0. cursor \in Nat /\ pos \in Nat /\ pageEnd \in Nat
  BY DEF DTypeOK
<1>1. UNCHANGED <<fanVars, sinkVars, paused>>
  BY DEF SourceStep, Query, SendChunk, EmptyPage, SendEof, SourceStops, vars, cursorVars
<1>2. \A s \in Sinks : HoldsNothing(s)' <=> HoldsNothing(s)
  BY <1>1 DEF HoldsNothing, sinkVars
<1>3. ASSUME fan = "send" => feed' # <<>>,
             FromBlock <= cursor' /\ cursor' <= pos',
             loop' # "page" => pos' = cursor',
             loop' = "page" => pos' <= pageEnd'
      PROVE  HandInv'
  BY <1>1, <1>2, <1>3 DEF HandInv, fanVars, sinkVars
<1>4. CASE Query
  <2>1. feed' = feed /\ cursor' = cursor
    BY <1>4 DEF Query
  <2>2. CASE loop' = "page"
    <3>1. pos' = cursor /\ pageEnd' \in (cursor + 1) .. Least(cursor + MaxPage, ToBlock)
      BY <1>4, <2>2 DEF Query
    <3>2. pos' <= pageEnd'
      BY <1>0, <3>1, DeliveryAssumption DEF Least
    <3> QED
      BY <1>0, <1>3, <2>1, <2>2, <3>1, <3>2 DEF HandInv
  <2>3. CASE loop' # "page"
    BY <1>0, <1>3, <1>4, <2>1, <2>3 DEF Query, HandInv
  <2> QED
    BY <2>2, <2>3
<1>5. CASE SendChunk
  <2>1. PICK r \in PageRows(pos, pageEnd) :
          LET last == PageRows(r + 1, pageEnd) = {} IN
          /\ Send([rows |-> PageRows(pos, r + 1), ack |-> ChunkAck(last)],
                  IF last THEN After(pageEnd) ELSE "page")
          /\ pos' = IF last THEN pageEnd ELSE r + 1
          /\ cursor' = IF last THEN pageEnd ELSE cursor
    BY <1>5 DEF SendChunk
  <2>2. r \in Rows /\ pos <= r /\ r < pageEnd /\ pageEnd' = pageEnd /\ loop = "page"
    BY <1>5, <2>1 DEF PageRows, SendChunk
  <2>3. \A last \in BOOLEAN : [rows |-> PageRows(pos, r + 1), ack |-> ChunkAck(last)] \in Batch
    BY DEF PageRows, ChunkAck, Batch, DTypeOK
  <2>4. feed' # <<>>
    BY <2>1, <2>3, AppendNonEmpty DEF Send, DTypeOK
  <2>5. CASE PageRows(r + 1, pageEnd) = {}
    <3>1. pos' = pageEnd /\ cursor' = pageEnd /\ loop' # "page"
      BY <2>1, <2>5 DEF Send, After
    <3> QED
      BY <1>0, <1>3, <2>2, <2>4, <3>1 DEF HandInv
  <2>6. CASE PageRows(r + 1, pageEnd) # {}
    <3>1. pos' = r + 1 /\ cursor' = cursor /\ loop' = "page"
      BY <2>1, <2>6 DEF Send
    <3> QED
      BY <1>0, <1>3, <2>2, <2>4, <3>1 DEF HandInv
  <2> QED
    BY <2>5, <2>6
<1>6. CASE EmptyPage
  <2>1. loop' # "page" /\ cursor' = pageEnd /\ pos' = pageEnd /\ feed' = feed /\ loop = "page"
    BY <1>6 DEF EmptyPage, After
  <2> QED
    BY <1>0, <1>3, <2>1 DEF HandInv
<1>7. CASE SendEof
  <2>1. [rows |-> {}, ack |-> cursor] \in Batch
    BY DEF Batch, DTypeOK
  <2>2. feed' # <<>>
    BY <1>7, <2>1, AppendNonEmpty DEF SendEof, Send, DTypeOK
  <2>3. loop' = "done" /\ loop = "eof" /\ cursor' = cursor /\ pos' = pos
    BY <1>7 DEF SendEof, Send
  <2> QED
    BY <1>0, <1>3, <2>2, <2>3 DEF HandInv
<1>8. CASE SourceStops
  <2>1. loop' = "done" /\ loop = "poll" /\ cursor' = cursor /\ pos' = pos /\ feed' = feed
    BY <1>8 DEF SourceStops
  <2> QED
    BY <1>0, <1>3, <2>1 DEF HandInv
<1> QED
  BY <1>4, <1>5, <1>6, <1>7, <1>8 DEF SourceStep

\* The fan-out has a batch in hand whenever it is sending one.
LEMMA FanHand ==
    ASSUME DTypeOK, HandInv, FanStep
    PROVE  HandInv'
<1>1. UNCHANGED <<loop, cursor, pos, pageEnd, task, attempt, pool, out, paused>>
  BY DEF FanStep, FanRecv, FanSend, FanDrop, FanSent, FanEnds, sourceVars, sinkVars, vars, cursorVars
<1>2. \A s \in Sinks : HoldsNothing(s)' <=> HoldsNothing(s)
  BY <1>1 DEF HoldsNothing
<1>3. fan' = "send" => feed' # <<>>
  BY DEF FanStep, FanRecv, FanSend, FanDrop, FanSent, FanEnds, sourceVars, HandInv
<1>4. \A s \in Sinks : s \in paused \/ s \in live'
  BY DEF FanStep, FanRecv, FanSend, FanDrop, FanSent, FanEnds, HandInv
<1>5. \A s \in Sinks : inbox[s] # <<>> => inbox'[s] # <<>>
  <2>1. CASE inbox' = inbox
    BY <2>1
  <2>2. ASSUME NEW t \in Sinks, FanSend(t) PROVE \A s \in Sinks : inbox[s] # <<>> => inbox'[s] # <<>>
    <3>1. Head(feed) \in Batch /\ inbox[t] \in Seq(Batch)
      BY <2>2, BatchMoves DEF FanSend, HandInv, DTypeOK
    <3>2. Append(inbox[t], Head(feed)) # <<>>
      BY <3>1, AppendNonEmpty
    <3> QED
      BY <2>2, <3>2 DEF FanSend, DTypeOK
  <2> QED
    BY <2>1, <2>2 DEF FanStep, FanRecv, FanDrop, FanSent, FanEnds, sinkVars
<1> QED
  BY <1>1, <1>2, <1>3, <1>4, <1>5 DEF HandInv

\* A pool with one more instance: the others are where they were.
LEMMA PoolPush ==
    ASSUME NEW q \in Seq(Slot), NEW x \in Slot
    PROVE  /\ DOMAIN Append(q, x) = 1..(Len(q) + 1) /\ Len(q) \in Nat /\ DOMAIN q = 1..Len(q)
           /\ \A i \in 1..Len(q) : Append(q, x)[i] = q[i]
           /\ Append(q, x)[Len(q) + 1] = x
BY AppendProperties, LenProperties

\* A call to write leaves nothing in the instances of a write-through sink.
LEMMA CheckoutHolds ==
    ASSUME DTypeOK, NEW s \in Sinks, HoldsNothing(s), Checkout(s)
    PROVE  HoldsNothing(s)'
<1>1. CASE pool[s] = <<>>
  BY <1>1 DEF Checkout, HoldsNothing, DTypeOK, FreshSlot
<1>2. CASE pool[s] # <<>>
  <2> DEFINE q == pool[s]
             front == SubSeq(q, 1, Len(q) - 1)
  <2>1. q \in Seq(Slot) /\ Len(q) \in Nat \ {0} /\ DOMAIN q = 1..Len(q)
    BY <1>2, LenProperties, EmptySeq DEF DTypeOK
  <2>2. /\ front \in Seq(Slot) /\ Len(front) = Len(q) - 1
        /\ \A i \in 1..(Len(q) - 1) : front[i] = q[i]
    BY <1>2, <2>1, PoolPop
  <2>3. DOMAIN front = 1..(Len(q) - 1)
    BY <2>2, LenProperties
  <2>4. out'[s] = q[Len(q)] /\ pool'[s] = front
    BY <1>2 DEF Checkout, DTypeOK
  <2>5. q[Len(q)].rows = {} /\ \A i \in 1..(Len(q) - 1) : q[i].rows = {}
    BY <2>1 DEF HoldsNothing
  <2> QED
    BY <2>2, <2>3, <2>4, <2>5 DEF HoldsNothing
<1> QED
  BY <1>1, <1>2

\* A write-through sink puts its instance back empty.
LEMMA PutBackHolds ==
    ASSUME DTypeOK, NEW s \in Sinks, HoldsNothing(s), NEW stored, PutBack(s, {}, stored)
    PROVE  HoldsNothing(s)'
<1> DEFINE x == [rows |-> {}, poisoned |-> FALSE]
<1>1. pool[s] \in Seq(Slot) /\ x \in Slot
  BY DEF DTypeOK, Slot
<1>2. pool'[s] = Append(pool[s], x) /\ out'[s].rows = {}
  BY DEF PutBack, DTypeOK, FreshSlot
<1>3. x.rows = {}
  OBVIOUS
<1> QED
  BY <1>1, <1>2, <1>3, PoolPush DEF HoldsNothing

\* A sink task has a batch in hand from Recv to AckBatch, unless it is paused.
LEMMA SinkHand ==
    ASSUME DTypeOK, HandInv, NEW s \in Sinks, SinkStep(s)
    PROVE  HandInv'
<1> DEFINE Busy == {"writing", "retry", "written"}
           Others(t) == /\ inbox'[t] = inbox[t] /\ task'[t] = task[t] /\ attempt'[t] = attempt[t]
                        /\ pool'[t] = pool[t] /\ out'[t] = out[t] /\ (t \in paused' <=> t \in paused)
<1>1. UNCHANGED <<fanVars, sourceVars>>
  BY DEF SinkStep, WriteReturns, Recv, Retry, Checkout, WriteOk, WriteErr, WriteTrap, WritePanic, AckBatch, SinkEnds
<1>2. s \notin paused
  BY DEF SinkStep, WriteReturns, Recv, Retry, WriteOk, WriteErr, WriteTrap, WritePanic, AckBatch, SinkEnds, TaskRuns
<1>3. attempt[s] < MaxAttempts /\ s \in live /\ (s \notin Buffering => HoldsNothing(s))
  BY <1>2 DEF HandInv
<1>4. ASSUME \A t \in Sinks \ {s} : Others(t),
             s \in paused' \/ (attempt'[s] < MaxAttempts /\ (task'[s] \in Busy => inbox'[s] # <<>>)),
             task'[s] # "writing" => out'[s] = FreshSlot,
             s \notin Buffering => HoldsNothing(s)'
      PROVE  HandInv'
  <2>1. \A t \in Sinks \ {s} : HoldsNothing(t)' <=> HoldsNothing(t)
    BY <1>4 DEF HoldsNothing
  <2> QED
    BY <1>1, <1>3, <1>4, <2>1 DEF HandInv, fanVars, sourceVars
<1>5. CASE Recv(s) \/ Retry(s)
  <2>1. Checkout(s) /\ inbox[s] # <<>> /\ UNCHANGED <<inbox, attempt, paused>>
    BY <1>5 DEF Recv, Retry, Checkout, TaskRuns, HandInv, vars, cursorVars
  <2>2. (\A t \in Sinks \ {s} : Others(t)) /\ task'[s] = "writing"
    BY <2>1 DEF Checkout, DTypeOK
  <2> QED
    BY <1>3, <1>4, <2>1, <2>2, CheckoutHolds
<1>6. CASE WriteOk(s)
  <2>1. inbox[s] # <<>> /\ UNCHANGED <<inbox, attempt, paused>>
    BY <1>6 DEF WriteOk, TaskRuns, HandInv, vars, cursorVars
  <2>2. PICK kept, stored : PutBack(s, kept, stored) /\ (s \notin Buffering => kept = {})
    BY <1>6 DEF WriteOk
  <2>3. (\A t \in Sinks \ {s} : Others(t)) /\ out'[s] = FreshSlot
    BY <1>6, <2>1, <2>2 DEF WriteOk, PutBack, DTypeOK
  <2>4. s \notin Buffering => HoldsNothing(s)'
    BY <1>3, <2>2, PutBackHolds
  <2> QED
    BY <1>3, <1>4, <2>1, <2>3, <2>4
<1>7. ASSUME Failed(s), task[s] = "writing" PROVE
         /\ \A t \in Sinks \ {s} : inbox'[t] = inbox[t] /\ task'[t] = task[t] /\ attempt'[t] = attempt[t]
                                   /\ (t \in paused' <=> t \in paused)
         /\ s \in paused' \/ (attempt'[s] < MaxAttempts /\ inbox'[s] # <<>>)
  <2>1. inbox[s] # <<>> /\ attempt[s] \in 0..MaxAttempts /\ MaxAttempts \in Nat
    BY <1>2, <1>7, DeliveryAssumption DEF HandInv, DTypeOK
  <2>2. CASE attempt[s] + 1 >= MaxAttempts
    BY <1>7, <2>2 DEF Failed, TaskReturns, Pause, DTypeOK
  <2>3. CASE ~(attempt[s] + 1 >= MaxAttempts)
    BY <1>7, <2>1, <2>3 DEF Failed, vars, cursorVars, DTypeOK
  <2> QED
    BY <2>2, <2>3
<1>8. CASE WriteErr(s)
  <2>1. PICK kept, stored : PutBack(s, kept, stored) /\ (s \notin Buffering => kept = {})
    BY <1>8 DEF WriteErr
  <2>2. Failed(s) /\ task[s] = "writing"
    BY <1>8 DEF WriteErr, TaskRuns
  <2>3. (\A t \in Sinks \ {s} : pool'[t] = pool[t] /\ out'[t] = out[t]) /\ out'[s] = FreshSlot
    BY <2>1 DEF PutBack, DTypeOK
  <2>4. s \notin Buffering => HoldsNothing(s)'
    BY <1>3, <2>1, PutBackHolds
  <2> QED
    BY <1>4, <1>7, <2>2, <2>3, <2>4
<1>9. CASE WriteTrap(s)
  <2>1. Failed(s) /\ task[s] = "writing"
    BY <1>9 DEF WriteTrap, TaskRuns
  <2>2. (\A t \in Sinks \ {s} : pool'[t] = pool[t] /\ out'[t] = out[t]) /\ out'[s] = FreshSlot
    BY <1>9 DEF WriteTrap, DTypeOK
  <2>3. s \notin Buffering => HoldsNothing(s)'
    BY <1>3, <1>9 DEF WriteTrap, HoldsNothing, FreshSlot, DTypeOK
  <2> QED
    BY <1>4, <1>7, <2>1, <2>2, <2>3
<1>10. CASE WritePanic(s)
  <2>1. (\A t \in Sinks \ {s} : Others(t)) /\ out'[s] = FreshSlot
    BY <1>10 DEF WritePanic, TaskReturns, Pause, DTypeOK
  <2>2. s \in paused'
    BY <1>10 DEF WritePanic, TaskReturns, Pause
  <2>3. s \notin Buffering => HoldsNothing(s)'
    BY <1>3, <1>10 DEF WritePanic, HoldsNothing, FreshSlot, DTypeOK
  <2> QED
    BY <1>4, <2>1, <2>2, <2>3
<1>11. CASE AckBatch(s)
  <2>1. (\A t \in Sinks \ {s} : Others(t)) /\ out'[s] = FreshSlot
    BY <1>11 DEF AckBatch, TaskRuns, Ack, DTypeOK, HandInv
  <2>2. task'[s] = "recv" /\ attempt'[s] < MaxAttempts
    BY <1>11, DeliveryAssumption DEF AckBatch, DTypeOK
  <2>3. s \notin Buffering => HoldsNothing(s)'
    BY <1>3, <1>11 DEF AckBatch, HoldsNothing
  <2> QED
    BY <1>4, <2>1, <2>2, <2>3
<1>12. CASE SinkEnds(s)
  <2>1. (\A t \in Sinks \ {s} : Others(t)) /\ out'[s] = FreshSlot
    BY <1>12 DEF SinkEnds, TaskRuns, vars, cursorVars, DTypeOK, HandInv
  <2>2. task'[s] = "done" /\ attempt'[s] < MaxAttempts
    BY <1>3, <1>12 DEF SinkEnds, DTypeOK
  <2>3. s \notin Buffering => HoldsNothing(s)'
    BY <1>3, <1>12 DEF SinkEnds, HoldsNothing
  <2> QED
    BY <1>4, <2>1, <2>2, <2>3
<1> QED
  BY <1>5, <1>6, <1>8, <1>9, <1>10, <1>11, <1>12 DEF SinkStep, WriteReturns

\* Flushing instances adds nothing to what they hold.
LEMMA FlushHand ==
    ASSUME DTypeOK, HandInv, NEW s \in Sinks, FlushOk(s) \/ FlushErr(s)
    PROVE  HandInv'
<1>0. pool[s] \in Seq(Slot)
  BY DEF DTypeOK
<1>1. UNCHANGED <<fanVars, sourceVars, inbox, task, attempt, out, paused>>
  BY DEF FlushOk, FlushErr, FlushFails, vars, cursorVars
<1>2. \A t \in Sinks \ {s} : pool'[t] = pool[t]
  BY DEF FlushOk, FlushErr, DTypeOK
<1>3. ASSUME s \notin Buffering PROVE HoldsNothing(s)'
  <2>1. HoldsNothing(s)
    BY <1>3 DEF HandInv
  <2>2. CASE FlushOk(s)
    BY <1>1, <2>1, <2>2 DEF FlushOk, Emptied, HoldsNothing, DTypeOK
  <2>3. CASE FlushErr(s)
    <3>1. PICK i \in DOMAIN pool[s] :
             pool' = [pool EXCEPT ![s] = [j \in DOMAIN pool[s] |->
                         CASE j < i -> [pool[s][j] EXCEPT !.rows = {}]
                           [] j = i -> [pool[s][i] EXCEPT !.poisoned = TRUE]
                           [] j > i -> pool[s][j]]]
      BY <1>3, <2>3, Zenon DEF FlushErr
    <3>2. \A j \in DOMAIN pool[s] : pool[s][j] \in Slot /\ pool[s][j].rows = {}
      BY <1>0, <2>1, SlotFacts DEF HoldsNothing
    <3>3. DOMAIN pool[s] \subseteq Int
      BY <1>0, LenProperties
    <3>4. DOMAIN pool'[s] = DOMAIN pool[s]
      BY <3>1 DEF DTypeOK
    <3>5. ASSUME NEW j \in DOMAIN pool[s] PROVE pool'[s][j].rows = {}
      <4>1. j < i \/ j = i \/ j > i
        BY <3>3
      <4> QED
        BY <3>1, <3>2, <3>3, <4>1 DEF Slot, DTypeOK
    <3> QED
      BY <1>1, <2>1, <3>4, <3>5 DEF HoldsNothing
  <2> QED
    BY <2>2, <2>3
<1>4. \A t \in Sinks \ {s} : HoldsNothing(t)' <=> HoldsNothing(t)
  BY <1>1, <1>2 DEF HoldsNothing
<1> QED
  BY <1>1, <1>3, <1>4 DEF HandInv, fanVars, sourceVars

\* Nobody has anything in hand in a fresh process.
LEMMA MemoryHand ==
    ASSUME NEW b \in Blocks, Memory(b)
    PROVE  HandInv'
<1>1. \A s \in Sinks : HoldsNothing(s)'
  BY DeliveryAssumption DEF Memory, HoldsNothing, FreshPool, FreshSlot
<1>2. \A s \in Sinks : s \in live' /\ attempt'[s] < MaxAttempts /\ task'[s] = "recv" /\ out'[s] = FreshSlot
  BY DeliveryAssumption DEF Memory
<1>3. fan' = "recv" /\ loop' = "poll" /\ pos' = cursor' /\ FromBlock <= cursor' /\ cursor' <= pos'
  BY BlockFacts DEF Memory
<1> QED
  BY <1>1, <1>2, <1>3 DEF HandInv

\* Every step keeps HandInv.
LEMMA HandStep ==
    ASSUME DTypeOK, HandInv, [DNext]_dvars
    PROVE  HandInv'
<1>1. ASSUME UNCHANGED <<fanVars, sourceVars, sinkVars, paused>> PROVE HandInv'
  <2>1. \A s \in Sinks : HoldsNothing(s)' <=> HoldsNothing(s)
    BY <1>1 DEF HoldsNothing, sinkVars
  <2> QED
    BY <1>1, <2>1 DEF HandInv, fanVars, sourceVars, sinkVars
<1>2. CASE Tick \/ FinalTick
  BY <1>1, <1>2 DEF Tick, FinalTick, Snapshot, cursorVars
<1>3. CASE PersistStep
  <2>1. UNCHANGED paused
    BY <1>3 DEF PersistStep, Persist, PersistBegin, ReadFloor, InsertRow, Commit, PersistFails, RollBack, cursorVars
  <2> QED
    BY <1>1, <1>3, <2>1 DEF PersistStep
<1>4. CASE Signal \/ AllDone
  <2>1. UNCHANGED paused
    BY <1>4 DEF Signal, AllDone, Ending, CheckpointAborted, RollBack, vars, cursorVars
  <2> QED
    BY <1>1, <1>4, <2>1 DEF Signal, AllDone, Ending
<1>5. CASE Exit \/ Kill
  BY <1>5, MemoryHand, BlockFacts DEF Exit, Kill
<1>6. CASE Restart
  BY <1>6, MemoryHand, RestartPointFacts DEF Restart, DTypeOK
<1>7. CASE UNCHANGED dvars
  BY <1>1, <1>7 DEF dvars, deliveryVars, vars, cursorVars
<1> QED
  BY <1>2, <1>3, <1>4, <1>5, <1>6, <1>7, SourceHand, FanHand, SinkHand, FlushHand DEF DNext, CheckpointStep

\* The whole pipeline's variables keep their types in every behaviour, for
\* every number of sinks, range, page size, capacity and pool: in particular a
\* task never takes a batch from an empty channel, an instance from an empty
\* pool, or a block outside the range.
THEOREM DeliveryTyped == DSpec => []DTypeOK
<1>1. DInit => DTypeOK /\ HandInv
  BY DTypeInit, HandInit
<1>2. DTypeOK /\ HandInv /\ [DNext]_dvars => (DTypeOK /\ HandInv)'
  BY DTypeStep, HandStep
<1> QED
  BY <1>1, <1>2, PTL DEF DSpec

-----------------------------------------------------------------------------
(* The values of a tick (TickInv).  Without rollbacks the watermark and the   *)
(* table only grow, and the tick's values lie between them.                   *)

\* No tick is under way at the start.
LEMMA TickInit == DInit => TickInv
<1> SUFFICES ASSUME DInit PROVE TickInv
  OBVIOUS
<1>1. ckpt = "idle" /\ snap = NoRows /\ hand = NoRows /\ txn = NoRows /\ disk = NoRows /\ cursors = NoRows
  BY DEF DInit, Init
<1>2. \A s \in Sinks : NoRows[Pair(s)] = Absent
  BY PairFacts DEF NoRows
<1>3. Absent <= Absent
  BY CursorIsInt
<1> QED
  BY <1>1, <1>2, <1>3 DEF TickInv, TickRow

\* One row in one step: the row of the table never goes back.
LEMMA TickRowStep ==
    ASSUME TypeOK, TypeOK', PhaseInv, PhaseInv', NEW s \in Sinks, TickRow(s),
           ckpt = "idle" => snap = NoRows, [QuietNext]_vars
    PROVE  TickRow(s)' /\ disk[Pair(s)] <= disk'[Pair(s)]
<1> DEFINE p == Pair(s)
<1>0. p \in Pairs /\ NoRows[p] = Absent
  BY PairFacts DEF NoRows
<1> HIDE DEF p
<1> USE <1>0
<1>1. /\ disk[p] \in Int /\ cursors[p] \in Int /\ snap[p] \in Int /\ hand[p] \in Int /\ txn[p] \in Int
      /\ disk'[p] \in Int /\ cursors'[p] \in Int /\ snap'[p] \in Int /\ hand'[p] \in Int /\ txn'[p] \in Int
      /\ disk[p] >= Absent /\ Absent \in Int
  BY RowTypes, CursorIsInt DEF TypeOK
<1>2. TickRow(s) <=> /\ running => disk[p] <= cursors[p]
                     /\ ckpt # "idle" => disk[p] <= snap[p] /\ snap[p] <= cursors[p]
                     /\ hand[p] # Absent => disk[p] <= hand[p] /\ hand[p] <= snap[p]
                     /\ txn[p] # Absent => disk[p] <= txn[p] /\ txn[p] <= snap[p]
  BY DEF TickRow, p
<1>3. ASSUME running' => disk'[p] <= cursors'[p],
             ckpt' # "idle" => disk'[p] <= snap'[p] /\ snap'[p] <= cursors'[p],
             hand'[p] # Absent => disk'[p] <= hand'[p] /\ hand'[p] <= snap'[p],
             txn'[p] # Absent => disk'[p] <= txn'[p] /\ txn'[p] <= snap'[p],
             disk[p] <= disk'[p]
      PROVE  TickRow(s)' /\ disk[Pair(s)] <= disk'[Pair(s)]
  BY <1>3 DEF TickRow, p
<1>4. CASE UNCHANGED vars
  BY <1>1, <1>2, <1>3, <1>4 DEF vars, cursorVars, persistVars
<1>5. ASSUME NEW q \in Pairs, NEW n \in Blocks, Ack(q, n)
      PROVE  TickRow(s)' /\ disk[Pair(s)] <= disk'[Pair(s)]
  <2>1. UNCHANGED <<running, disk, ckpt, snap, hand, txn>> /\ running
    BY <1>5 DEF Ack, SinkFree, persistVars
  <2>2. cursors[p] <= cursors'[p]
    <3>1. n \in Int
      BY BlocksAssumption
    <3>2. cursors'[p] = IF p = q THEN Greatest(cursors[p], n) ELSE cursors[p]
      BY <1>5 DEF Ack, TypeOK
    <3> QED
      BY <1>1, <3>1, <3>2 DEF Greatest
  <2> QED
    BY <1>1, <1>2, <1>3, <2>1, <2>2
<1>6. CASE Snapshot
  <2>1. /\ running /\ running' = running /\ snap' = cursors /\ disk' = disk /\ cursors' = cursors
        /\ hand' = NoRows /\ txn' = NoRows
    BY <1>6 DEF Snapshot, cursorVars, PhaseInv
  <2> QED
    BY <1>1, <1>2, <1>3, <2>1
<1>7. CASE FlushFails \/ PersistFails \/ CheckpointAborted
  <2>1. /\ running' = running /\ disk' = disk /\ cursors' = cursors /\ ckpt' = "idle"
        /\ hand' = NoRows /\ txn' = NoRows
    BY <1>7 DEF FlushFails, PersistFails, CheckpointAborted, RollBack, cursorVars, PhaseInv
  <2> QED
    BY <1>1, <1>2, <1>3, <2>1
<1>8. CASE PersistBegin
  <2>1. /\ UNCHANGED <<running, disk, cursors, snap>> /\ ckpt # "idle"
        /\ hand' = NoRows /\ txn' = NoRows
    BY <1>8 DEF PersistBegin, cursorVars, PhaseInv
  <2> QED
    BY <1>1, <1>2, <1>3, <2>1
<1>9. ASSUME NEW q \in Pairs, ReadFloor(q)
      PROVE  TickRow(s)' /\ disk[Pair(s)] <= disk'[Pair(s)]
  <2>1. UNCHANGED <<running, disk, cursors, snap, ckpt, txn>> /\ ckpt # "idle"
    BY <1>9 DEF ReadFloor, cursorVars
  <2>2. hand'[p] = Absent \/ hand'[p] = snap[p]
    <3>1. CASE p = q
      <4>1. snap[p] # Absent /\ cursors[p] # Absent
        BY <1>9, <3>1 DEF ReadFloor, PhaseInv
      <4>2. snap[p] <= cursors[p]
        BY <1>2, <2>1
      <4>3. Floor(p) = snap[p]
        BY <1>1, <4>1, <4>2 DEF Floor, Least
      <4> QED
        BY <1>9, <3>1, <4>3 DEF ReadFloor, TypeOK
    <3>2. CASE p # q
      BY <1>9, <3>2 DEF ReadFloor, TypeOK
    <3> QED
      BY <3>1, <3>2
  <2> QED
    BY <1>1, <1>2, <1>3, <2>1, <2>2
<1>10. ASSUME NEW q \in Pairs, InsertRow(q)
       PROVE  TickRow(s)' /\ disk[Pair(s)] <= disk'[Pair(s)]
  <2>1. UNCHANGED <<running, disk, cursors, snap, ckpt>> /\ hand' = NoRows
    BY <1>10 DEF InsertRow, cursorVars
  <2>2. txn'[p] = txn[p] \/ txn'[p] = hand[p]
    BY <1>10 DEF InsertRow, TypeOK
  <2> QED
    BY <1>1, <1>2, <1>3, <2>1, <2>2
<1>11. CASE Commit
  <2>1. /\ running' = running /\ cursors' = cursors /\ ckpt' = "idle" /\ ckpt # "idle"
        /\ hand' = hand /\ txn' = NoRows /\ hand' = NoRows
    BY <1>11 DEF Commit, PhaseInv, PhaseInv
  <2>2. disk'[p] = IF txn[p] = Absent THEN disk[p] ELSE txn[p]
    BY <1>11 DEF Commit
  <2> QED
    BY <1>1, <1>2, <1>3, <2>1, <2>2
<1>12. CASE Crash \/ Shutdown
  <2>1. /\ ~running' /\ disk' = disk /\ ckpt' = "idle" /\ hand' = NoRows /\ txn' = NoRows
    BY <1>12 DEF Crash, Shutdown, Halt
  <2> QED
    BY <1>1, <1>3, <2>1
<1>13. CASE Open
  <2>1. /\ cursors' = disk /\ disk' = disk /\ ckpt' = "idle" /\ hand' = NoRows /\ txn' = NoRows
    BY <1>13 DEF Open, persistVars, PhaseInv
  <2> QED
    BY <1>1, <1>3, <2>1
<1>14. ASSUME NEW t \in Sinks, Pause(t)
       PROVE  TickRow(s)' /\ disk[Pair(s)] <= disk'[Pair(s)]
  <2>1. UNCHANGED <<running, disk, cursors, ckpt, snap, hand, txn>>
    BY <1>14 DEF Pause, persistVars
  <2> QED
    BY <1>1, <1>2, <1>3, <2>1
<1> QED
  BY <1>4, <1>5, <1>6, <1>7, <1>8, <1>9, <1>10, <1>11, <1>12, <1>13, <1>14 DEF QuietNext, CheckpointNext

\* Every step keeps the values of a tick ordered, and no step lowers a persisted cursor.
LEMMA TickStep ==
    ASSUME DTypeOK, DTypeOK', PhaseInv, PhaseInv', HandInv, TickInv, [DNext]_dvars
    PROVE  TickInv' /\ \A s \in Sinks : disk[Pair(s)] <= disk'[Pair(s)]
<1>1. [QuietNext]_vars
  BY StoreStepQuiet
<1>2. \A s \in Sinks : TickRow(s)' /\ disk[Pair(s)] <= disk'[Pair(s)]
  BY <1>1, TickRowStep DEF TickInv, DTypeOK
<1>3. ckpt' = "idle" => snap' = NoRows
  <2>1. CASE PersistBegin
    <3>1. ckpt' = "idle" => \A p \in Pairs : snap[p] = Absent
      BY <2>1 DEF PersistBegin
    <3>2. (\A p \in Pairs : snap[p] = Absent) => snap = NoRows
      BY DEF DTypeOK, TypeOK, NoRows
    <3> QED
      BY <2>1, <3>1, <3>2 DEF PersistBegin
  <2>2. CASE Crash \/ Shutdown \/ FlushFails \/ Commit \/ PersistFails \/ CheckpointAborted
    BY <2>2 DEF Crash, Shutdown, Halt, FlushFails, Commit, PersistFails, CheckpointAborted, RollBack
  <2>3. CASE Snapshot
    BY <2>3 DEF Snapshot
  <2>4. CASE UNCHANGED <<ckpt, snap>>
    BY <2>4 DEF TickInv
  <2> QED
    BY <1>1, <2>1, <2>2, <2>3, <2>4
       DEF QuietNext, CheckpointNext, Ack, Pause, Open, ReadFloor, InsertRow, persistVars, vars
<1>4. ckpt' = "rows" => toFlush' = {}
  <2>1. CASE UNCHANGED <<ckpt, toFlush>>
    BY <2>1 DEF TickInv
  <2>2. CASE SourceStep
    BY <2>1, <2>2 DEF SourceStep, Query, SendChunk, EmptyPage, SendEof, SourceStops, vars, persistVars
  <2>3. CASE FanStep
    BY <2>1, <2>3 DEF FanStep, FanRecv, FanSend, FanDrop, FanSent, FanEnds, vars, persistVars
  <2>4. ASSUME NEW s \in Sinks, SinkStep(s) PROVE UNCHANGED <<ckpt, toFlush>>
    BY <2>4 DEF SinkStep, WriteReturns, Recv, Retry, Checkout, WriteOk, WriteErr, WriteTrap, WritePanic,
                AckBatch, SinkEnds, Failed, TaskReturns, Pause, Ack, vars, persistVars
  <2>5. CASE Tick \/ FinalTick
    BY <2>5 DEF Tick, FinalTick, Snapshot
  <2>6. CASE PersistStep
    <3>1. toFlush' = toFlush /\ (toFlush = {} \/ ckpt = "rows" \/ ckpt' # "rows" \/ UNCHANGED ckpt)
      BY <2>6 DEF PersistStep, Persist, ReadFloor, Commit, PersistFails, InsertRow
    <3> QED
      BY <3>1 DEF TickInv
  <2>7. ASSUME NEW s \in Sinks, FlushOk(s) \/ FlushErr(s) PROVE ckpt' # "rows"
    BY <2>7 DEF FlushOk, FlushErr, FlushFails, vars, persistVars
  <2>8. CASE Signal \/ AllDone \/ Exit \/ Kill \/ Restart
    BY <2>8 DEF Signal, AllDone, Ending, Exit, Kill, Restart, Memory
  <2>9. CASE UNCHANGED dvars
    BY <2>1, <2>9 DEF dvars, deliveryVars, vars, persistVars
  <2> QED
    BY <2>1, <2>2, <2>3, <2>4, <2>5, <2>6, <2>7, <2>8, <2>9 DEF DNext, CheckpointStep
<1> QED
  BY <1>2, <1>3, <1>4 DEF TickInv

-----------------------------------------------------------------------------
(* Channels.                                                                 *)

\* A channel with one more batch.
LEMMA ChannelAppend ==
    ASSUME NEW q \in Seq(Batch), NEW b \in Batch
    PROVE  /\ Append(q, b) \in Seq(Batch) /\ Len(q) \in Nat /\ DOMAIN q = 1..Len(q)
           /\ Len(Append(q, b)) = Len(q) + 1 /\ DOMAIN Append(q, b) = 1..(Len(q) + 1)
           /\ \A i \in 1..Len(q) : Append(q, b)[i] = q[i]
           /\ Append(q, b)[Len(q) + 1] = b
BY AppendProperties, LenProperties

\* A row travelling in a channel goes on travelling when a batch is added.
LEMMA CarriedAppend ==
    ASSUME NEW q \in Seq(Batch), NEW b \in Batch, NEW r
    PROVE  /\ \A n \in 0..Len(q) : Carried(q, n, r) => Carried(Append(q, b), n, r)
           /\ Carried(q, Len(q), r) => Carried(Append(q, b), Len(q) + 1, r)
           /\ r \in b.rows => Carried(Append(q, b), Len(q) + 1, r)
<1>1. /\ Len(q) \in Nat /\ \A i \in 1..Len(q) : Append(q, b)[i] = q[i]
      /\ Append(q, b)[Len(q) + 1] = b
  BY ChannelAppend
<1>2. ASSUME NEW n \in 0..Len(q), Carried(q, n, r) PROVE Carried(Append(q, b), n, r)
  <2>1. PICK i \in 1..n : r \in q[i].rows
    BY <1>2 DEF Carried
  <2>2. i \in 1..Len(q)
    BY <1>1
  <2> QED
    BY <1>1, <2>1, <2>2 DEF Carried
<1>3. ASSUME Carried(q, Len(q), r) PROVE Carried(Append(q, b), Len(q) + 1, r)
  <2>1. PICK i \in 1..Len(q) : r \in q[i].rows
    BY <1>3 DEF Carried
  <2>2. i \in 1..(Len(q) + 1)
    BY <1>1
  <2> QED
    BY <1>1, <2>1, <2>2 DEF Carried
<1>4. ASSUME r \in b.rows PROVE Carried(Append(q, b), Len(q) + 1, r)
  <2>1. Len(q) + 1 \in 1..(Len(q) + 1)
    BY <1>1
  <2> QED
    BY <1>1, <1>4, <2>1 DEF Carried
<1> QED
  BY <1>2, <1>3, <1>4

\* A channel whose first batch is taken.
LEMMA ChannelTail ==
    ASSUME NEW q \in Seq(Batch), q # <<>>
    PROVE  /\ Tail(q) \in Seq(Batch) /\ Len(q) \in Nat \ {0} /\ DOMAIN q = 1..Len(q)
           /\ Len(Tail(q)) = Len(q) - 1 /\ DOMAIN Tail(q) = 1..(Len(q) - 1)
           /\ \A i \in 1..(Len(q) - 1) : Tail(q)[i] = q[i + 1] /\ i + 1 \in 1..Len(q)
           /\ Head(q) = q[1] /\ q[1] \in Batch
<1>1. Len(q) \in Nat \ {0} /\ DOMAIN q = 1..Len(q)
  BY EmptySeq, LenProperties
<1>2. /\ Head(q) \in Batch /\ Tail(q) \in Seq(Batch) /\ Len(Tail(q)) = Len(q) - 1
      /\ \A i \in 1..Len(Tail(q)) : Tail(q)[i] = q[i + 1]
  BY HeadTailProperties
<1>3. Head(q) = q[1]
  OBVIOUS
<1>4. DOMAIN Tail(q) = 1..(Len(q) - 1)
  BY <1>2, LenProperties
<1>5. \A i \in 1..(Len(q) - 1) : i + 1 \in 1..Len(q)
  BY <1>1
<1> QED
  BY <1>1, <1>2, <1>3, <1>4, <1>5

\* A row is in the batch taken off a channel or in the rest of it.
LEMMA CarriedTail ==
    ASSUME NEW q \in Seq(Batch), q # <<>>, NEW r, NEW n \in 1..Len(q), Carried(q, n, r)
    PROVE  r \in q[1].rows \/ Carried(Tail(q), n - 1, r)
<1>1. /\ Len(q) \in Nat \ {0} /\ \A i \in 1..(Len(q) - 1) : Tail(q)[i] = q[i + 1]
  BY ChannelTail
<1>2. PICK i \in 1..n : r \in q[i].rows
  BY DEF Carried
<1>3. CASE i = 1
  BY <1>2, <1>3
<1>4. CASE i # 1
  <2>1. i - 1 \in 1..(n - 1) /\ i - 1 \in 1..(Len(q) - 1) /\ (i - 1) + 1 = i
    BY <1>1, <1>4
  <2>2. Tail(q)[i - 1] = q[i]
    BY <1>1, <2>1
  <2> QED
    BY <1>2, <2>1, <2>2 DEF Carried
<1> QED
  BY <1>3, <1>4

-----------------------------------------------------------------------------
(* What a sink has stored stays stored; what it has safe stays safe while the *)
(* process runs.                                                              *)

\* What is stored, or counted as an exception, stays so.
LEMMA StoredGrows ==
    ASSUME DTypeOK, [DNext]_dvars, NEW s \in Sinks
    PROVE  durable[s] \subseteq durable'[s] /\ exposed[s] \subseteq exposed'[s]
<1>0. CASE UNCHANGED <<durable, exposed>>
  BY <1>0
<1>1. CASE SourceStep
  BY <1>0, <1>1 DEF SourceStep, Query, SendChunk, EmptyPage, SendEof, SourceStops, sinkVars
<1>2. CASE FanStep
  BY <1>0, <1>2 DEF FanStep, FanRecv, FanSend, FanDrop, FanSent, FanEnds, sinkVars
<1>3. ASSUME NEW t \in Sinks, SinkStep(t) PROVE durable[s] \subseteq durable'[s] /\ exposed[s] \subseteq exposed'[s]
  <2>1. CASE Recv(t) \/ Retry(t) \/ AckBatch(t) \/ SinkEnds(t)
    BY <1>0, <2>1 DEF Recv, Retry, Checkout, AckBatch, SinkEnds
  <2>2. ASSUME NEW more1, NEW more2,
               durable' = [durable EXCEPT ![t] = @ \cup more1],
               exposed' = [exposed EXCEPT ![t] = @ \cup more2] \/ UNCHANGED exposed
        PROVE  durable[s] \subseteq durable'[s] /\ exposed[s] \subseteq exposed'[s]
    BY <2>2 DEF DTypeOK
  <2>3. CASE WriteOk(t)
    <3>1. (\E more : durable' = [durable EXCEPT ![t] = @ \cup more]) /\ UNCHANGED exposed
      BY <2>3, Zenon DEF WriteOk, PutBack
    <3> QED
      BY <2>2, <3>1
  <2>4. CASE WriteErr(t)
    <3>1. \E more : durable' = [durable EXCEPT ![t] = @ \cup more]
      BY <2>4, Zenon DEF WriteErr, PutBack
    <3>2. exposed' = [exposed EXCEPT ![t] = @ \cup out[t].rows] \/ UNCHANGED exposed
      BY <2>4, Zenon DEF WriteErr
    <3> QED
      BY <2>2, <3>1, <3>2
  <2>5. CASE WriteTrap(t)
    <3>1. \E more : durable' = [durable EXCEPT ![t] = @ \cup more]
      BY <2>5, Zenon DEF WriteTrap
    <3>2. exposed' = [exposed EXCEPT ![t] = @ \cup out[t].rows]
      BY <2>5 DEF WriteTrap
    <3> QED
      BY <2>2, <3>1, <3>2
  <2>6. CASE WritePanic(t)
    BY <2>6 DEF WritePanic, DTypeOK
  <2> QED
    BY <1>3, <2>1, <2>3, <2>4, <2>5, <2>6 DEF SinkStep, WriteReturns
<1>4. CASE Tick \/ FinalTick \/ PersistStep \/ Signal \/ AllDone
  BY <1>0, <1>4 DEF Tick, FinalTick, PersistStep, Signal, AllDone, Ending, sinkVars
<1>5. ASSUME NEW t \in Sinks, FlushOk(t) PROVE durable[s] \subseteq durable'[s] /\ exposed[s] \subseteq exposed'[s]
  BY <1>5 DEF FlushOk, DTypeOK
<1>6. ASSUME NEW t \in Sinks, FlushErr(t) PROVE durable[s] \subseteq durable'[s] /\ exposed[s] \subseteq exposed'[s]
  <2>1. PICK lost1, lost2 : /\ durable' = [durable EXCEPT ![t] = @ \cup lost1]
                            /\ exposed' = [exposed EXCEPT ![t] = @ \cup lost2]
    BY <1>6, Zenon DEF FlushErr
  <2> QED
    BY <2>1 DEF DTypeOK
<1>7. CASE Exit \/ Kill \/ Restart
  BY <1>0, <1>7 DEF Exit, Kill, Restart, Memory
<1>8. CASE UNCHANGED dvars
  BY <1>0, <1>8 DEF dvars, deliveryVars, sinkVars
<1> QED
  BY <1>1, <1>2, <1>3, <1>4, <1>5, <1>6, <1>7, <1>8 DEF DNext, CheckpointStep

\* An instance moves from the pool to the task.
LEMMA CheckoutSafe ==
    ASSUME DTypeOK, NEW s \in Sinks, Checkout(s), out[s] = FreshSlot, NEW r, Safe(s, r)
    PROVE  Safe(s, r)'
<1>1. UNCHANGED <<durable, exposed>>
  BY DEF Checkout
<1>2. CASE Stored(s, r)
  BY <1>1, <1>2 DEF Safe, Stored
<1>3. ASSUME NEW i \in DOMAIN pool[s], r \in pool[s][i].rows PROVE Safe(s, r)'
  <2> DEFINE q == pool[s]
  <2>1. q \in Seq(Slot) /\ DOMAIN q = 1..Len(q) /\ Len(q) \in Nat
    BY LenProperties DEF DTypeOK
  <2>2. q # <<>>
    BY <1>3
  <2>3. out'[s] = q[Len(q)] /\ pool'[s] = SubSeq(q, 1, Len(q) - 1)
    BY <2>2 DEF Checkout, DTypeOK
  <2>4. /\ pool'[s] \in Seq(Slot) /\ Len(pool'[s]) = Len(q) - 1
        /\ \A j \in 1..(Len(q) - 1) : pool'[s][j] = q[j]
    BY <2>1, <2>2, <2>3, PoolPop
  <2>5. DOMAIN pool'[s] = 1..(Len(q) - 1)
    BY <2>4, LenProperties
  <2>6. i = Len(q) \/ i \in 1..(Len(q) - 1)
    BY <2>1
  <2> QED
    BY <1>3, <2>3, <2>4, <2>5, <2>6 DEF Safe
<1> QED
  BY <1>2, <1>3 DEF Safe, FreshSlot

\* The instance goes back: rows it kept or stored are safe, and so are the
\* rows it held if they are accounted for.
LEMMA PutBackSafe ==
    ASSUME DTypeOK, NEW s \in Sinks, NEW kept \in SUBSET Rows, NEW stored \in SUBSET Rows,
           PutBack(s, kept, stored), exposed[s] \subseteq exposed'[s],
           out[s].rows \subseteq kept \cup stored \cup exposed'[s], NEW r
    PROVE  /\ Safe(s, r) => Safe(s, r)'
           /\ r \in kept \cup stored => Safe(s, r)'
<1> DEFINE q == pool[s]
           x == [rows |-> kept, poisoned |-> FALSE]
<1>1. q \in Seq(Slot) /\ x \in Slot /\ x.rows = kept
  BY DEF DTypeOK, Slot
<1>2. /\ DOMAIN Append(q, x) = 1..(Len(q) + 1) /\ Len(q) \in Nat /\ DOMAIN q = 1..Len(q)
      /\ \A i \in 1..Len(q) : Append(q, x)[i] = q[i]
      /\ Append(q, x)[Len(q) + 1] = x
  BY <1>1, PoolPush
<1>3. pool'[s] = Append(q, x) /\ durable'[s] = durable[s] \cup stored
  BY DEF PutBack, DTypeOK
<1>4. Len(q) + 1 \in DOMAIN pool'[s] /\ \A i \in DOMAIN q : i \in DOMAIN pool'[s]
  BY <1>2, <1>3
<1>5. r \in kept \cup stored => Safe(s, r)'
  BY <1>1, <1>2, <1>3, <1>4 DEF Safe, Stored
<1>6. Safe(s, r) => Safe(s, r)'
  <2>1. CASE Stored(s, r)
    BY <1>3, <2>1 DEF Safe, Stored
  <2>2. CASE r \in out[s].rows
    BY <1>5, <2>2 DEF Safe, Stored
  <2>3. ASSUME NEW i \in DOMAIN q, r \in q[i].rows PROVE Safe(s, r)'
    BY <1>2, <1>3, <1>4, <2>3 DEF Safe
  <2> QED
    BY <2>1, <2>2, <2>3 DEF Safe
<1> QED
  BY <1>5, <1>6

\* A write, however it ends, loses nothing that was safe; when it succeeds the
\* rows of the batch are safe too.
LEMMA WriteSafe ==
    ASSUME DTypeOK, HandInv, NEW s \in Sinks, WriteReturns(s), NEW r \in Rows
    PROVE  /\ Safe(s, r) => Safe(s, r)'
           /\ (WriteOk(s) /\ r \in InHand(s)) => Safe(s, r)'
<1>0. s \notin paused /\ task[s] = "writing"
  BY DEF WriteReturns, WriteOk, WriteErr, WriteTrap, WritePanic, TaskRuns
<1>1. inbox[s] # <<>> /\ inbox[s] \in Seq(Batch) /\ out[s] \in Slot
  BY <1>0 DEF HandInv, DTypeOK
<1>2. InHand(s) \in SUBSET Rows /\ out[s].rows \in SUBSET Rows
  <2>1. Head(inbox[s]) \in Batch
    BY <1>1, BatchMoves
  <2> QED
    BY <1>1, <2>1 DEF InHand, Batch, Slot
<1>3. s \notin Buffering => out[s].rows = {}
  BY DEF HandInv, HoldsNothing
<1>4. CASE WriteOk(s)
  <2>1. exposed' = exposed
    BY <1>4 DEF WriteOk
  <2>2. PICK kept \in SUBSET Rows, stored \in SUBSET Rows :
           PutBack(s, kept, stored) /\ kept \cup stored = out[s].rows \cup InHand(s)
    <3>1. CASE s \in Buffering
      BY <1>2, <1>4, <3>1 DEF WriteOk
    <3>2. CASE s \notin Buffering
      BY <1>2, <1>3, <1>4, <3>2 DEF WriteOk
    <3> QED
      BY <3>1, <3>2
  <2>3. out[s].rows \subseteq kept \cup stored \cup exposed'[s] /\ exposed[s] \subseteq exposed'[s]
    BY <2>1, <2>2
  <2>4. /\ Safe(s, r) => Safe(s, r)'
        /\ r \in kept \cup stored => Safe(s, r)'
    BY <2>2, <2>3, PutBackSafe
  <2> QED
    BY <2>2, <2>4
<1>5. CASE WriteErr(s)
  <2>1. PICK kept \in SUBSET Rows, stored \in SUBSET Rows :
           /\ PutBack(s, kept, stored)
           /\ exposed[s] \subseteq exposed'[s]
           /\ out[s].rows \subseteq kept \cup stored \cup exposed'[s]
    <3>1. CASE s \in Buffering
      <4>1. CASE PutBack(s, {}, {}) /\ exposed' = [exposed EXCEPT ![s] = @ \cup out[s].rows]
        <5>1. exposed'[s] = exposed[s] \cup out[s].rows
          BY <4>1 DEF DTypeOK
        <5> QED
          BY <4>1, <5>1
      <4>2. CASE PutBack(s, out[s].rows \cup InHand(s), {}) /\ UNCHANGED exposed
        BY <1>2, <4>2
      <4> QED
        BY <1>5, <3>1, <4>1, <4>2 DEF WriteErr
    <3>2. CASE s \notin Buffering
      BY <1>2, <1>3, <1>5, <3>2 DEF WriteErr
    <3> QED
      BY <3>1, <3>2
  <2>2. Safe(s, r) => Safe(s, r)'
    BY <2>1, PutBackSafe
  <2>3. ~WriteOk(s)
    BY <1>5, <1>0, DeliveryAssumption DEF WriteOk, WriteErr, Failed, DTypeOK
  <2> QED
    BY <2>2, <2>3
<1>6. CASE WriteTrap(s) \/ WritePanic(s)
  <2>1. pool' = pool /\ exposed'[s] = exposed[s] \cup out[s].rows
    BY <1>6 DEF WriteTrap, WritePanic, DTypeOK
  <2>2. durable[s] \subseteq durable'[s]
    <3>1. (\E more : durable' = [durable EXCEPT ![s] = @ \cup more]) \/ UNCHANGED durable
      BY <1>6, Zenon DEF WriteTrap, WritePanic
    <3> QED
      BY <3>1 DEF DTypeOK
  <2>3. ~WriteOk(s)
    BY <1>6, <1>0 DEF WriteOk, WriteTrap, WritePanic, Failed, DTypeOK
  <2> QED
    BY <2>1, <2>2, <2>3 DEF Safe, Stored
<1> QED
  BY <1>4, <1>5, <1>6 DEF WriteReturns

\* A flush stores what the pool holds and accounts for what it does not reach.
LEMMA FlushStores ==
    ASSUME DTypeOK, NEW s \in Sinks, FlushOk(s), NEW r \in Rows, Safe(s, r)
    PROVE  Stored(s, r)'
<1>1. /\ durable'[s] = durable[s] \cup Held(pool[s])
      /\ exposed'[s] = exposed[s] \cup out[s].rows
  BY DEF FlushOk, DTypeOK
<1> QED
  BY <1>1 DEF Safe, Stored, Held

\* A flush that fails at one instance has stored what the ones before it held;
\* it leaves the others as they were.
LEMMA FlushErrSafe ==
    ASSUME DTypeOK, NEW s \in Sinks, FlushErr(s), NEW r \in Rows, Safe(s, r)
    PROVE  Safe(s, r)'
<1> DEFINE q == pool[s]
           After1(i, slot) == [j \in DOMAIN q |->
                         CASE j < i -> [q[j] EXCEPT !.rows = {}]
                           [] j = i -> slot
                           [] j > i -> q[j]]
           Leave(i, slot, lost) ==
                  /\ pool' = [pool EXCEPT ![s] = After1(i, slot)]
                  /\ exposed' = [exposed EXCEPT ![s] = @ \cup lost]
<1>0. q \in Seq(Slot) /\ DOMAIN q = 1..Len(q) /\ Len(q) \in Nat
  BY LenProperties DEF DTypeOK
<1>1. PICK i \in DOMAIN q :
         /\ durable' = [durable EXCEPT ![s] = @ \cup UNION {q[j].rows : j \in 1..(i - 1)}]
         /\ \/ Leave(i, [q[i] EXCEPT !.poisoned = TRUE], {})
            \/ Leave(i, FreshSlot, q[i].rows)
            \/ Leave(i, q[i], {})
  BY Zenon DEF FlushErr
<1>2. q[i] \in Slot
  BY <1>0, SlotFacts
<1>3. PICK slot, lost : Leave(i, slot, lost) /\ q[i].rows \subseteq slot.rows \cup lost
  <2>1. [q[i] EXCEPT !.poisoned = TRUE].rows = q[i].rows
    BY <1>2 DEF Slot
  <2>2. /\ q[i].rows \subseteq [q[i] EXCEPT !.poisoned = TRUE].rows \cup {}
        /\ q[i].rows \subseteq FreshSlot.rows \cup q[i].rows
        /\ q[i].rows \subseteq q[i].rows \cup {}
    BY <2>1
  <2> HIDE DEF Leave
  <2> QED
    BY <1>1, <2>2, Zenon
<1>4. /\ durable'[s] = durable[s] \cup UNION {q[j].rows : j \in 1..(i - 1)}
      /\ pool'[s] = After1(i, slot)
      /\ exposed'[s] = exposed[s] \cup lost
  BY <1>1, <1>3 DEF DTypeOK
<1>5. out' = out
  BY DEF FlushErr
<1>6. ASSUME NEW j \in DOMAIN q, r \in q[j].rows PROVE Safe(s, r)'
  <2>1. j \in Int /\ i \in Int
    BY <1>0
  <2>2. CASE j < i
    <3>1. j \in 1..(i - 1)
      BY <1>0, <2>1, <2>2
    <3> QED
      BY <1>4, <1>6, <3>1 DEF Safe, Stored
  <2>3. CASE j = i
    <3>1. pool'[s][j] = slot /\ j \in DOMAIN pool'[s]
      BY <1>4, <2>1, <2>3
    <3> QED
      BY <1>3, <1>4, <1>6, <2>3, <3>1 DEF Safe, Stored
  <2>4. CASE j > i
    <3>1. pool'[s][j] = q[j] /\ j \in DOMAIN pool'[s]
      BY <1>4, <2>1, <2>4
    <3> QED
      BY <1>6, <3>1 DEF Safe
  <2> QED
    BY <2>1, <2>2, <2>3, <2>4
<1>7. CASE Stored(s, r)
  BY <1>4, <1>7 DEF Safe, Stored
<1>8. CASE r \in out[s].rows
  BY <1>5, <1>8 DEF Safe
<1> QED
  BY <1>6, <1>7, <1>8 DEF Safe

\* A sink task touches nothing of another sink.
LEMMA SinkLocal ==
    ASSUME DTypeOK, NEW t \in Sinks, SinkStep(t), NEW s \in Sinks, s # t
    PROVE  /\ pool'[s] = pool[s] /\ out'[s] = out[s] /\ inbox'[s] = inbox[s] /\ task'[s] = task[s]
           /\ cursors'[Pair(s)] = cursors[Pair(s)]
<1>0. Pair(s) # Pair(t)
  BY PairFacts
<1>1. CASE Recv(t) \/ Retry(t) \/ WriteOk(t) \/ WriteErr(t) \/ WriteTrap(t) \/ WritePanic(t) \/ SinkEnds(t)
  <2>1. cursors' = cursors
    BY <1>1 DEF Recv, Retry, Checkout, WriteOk, WriteErr, WriteTrap, WritePanic, SinkEnds,
                Failed, TaskReturns, Pause, vars, cursorVars
  <2>2. inbox'[s] = inbox[s] /\ task'[s] = task[s]
    BY <1>1 DEF Recv, Retry, Checkout, WriteOk, WriteErr, WriteTrap, WritePanic, SinkEnds,
                Failed, TaskReturns, DTypeOK
  <2>3. out'[s] = out[s]
    BY <1>1 DEF Recv, Retry, Checkout, WriteOk, WriteErr, WriteTrap, WritePanic, SinkEnds, PutBack, DTypeOK
  <2>4. pool'[s] = pool[s]
    BY <1>1 DEF Recv, Retry, Checkout, WriteOk, WriteErr, WriteTrap, WritePanic, SinkEnds, PutBack, DTypeOK
  <2> QED
    BY <2>1, <2>2, <2>3, <2>4
<1>2. CASE AckBatch(t)
  BY <1>0, <1>2, PairFacts DEF AckBatch, Ack, DTypeOK, TypeOK
<1> QED
  BY <1>1, <1>2 DEF SinkStep, WriteReturns

\* While the process runs, a safe row stays safe.
LEMMA SafeGrows ==
    ASSUME DTypeOK, HandInv, [DNext]_dvars, running, running', NEW s \in Sinks, NEW r \in Rows, Safe(s, r)
    PROVE  Safe(s, r)'
<1>1. ASSUME pool'[s] = pool[s], out'[s] = out[s] PROVE Safe(s, r)'
  BY <1>1, StoredGrows DEF Safe, Stored
<1>2. CASE SourceStep
  BY <1>1, <1>2 DEF SourceStep, Query, SendChunk, EmptyPage, SendEof, SourceStops, sinkVars
<1>3. CASE FanStep
  BY <1>1, <1>3 DEF FanStep, FanRecv, FanSend, FanDrop, FanSent, FanEnds, sinkVars
<1>4. ASSUME NEW t \in Sinks, SinkStep(t) PROVE Safe(s, r)'
  <2>1. CASE s # t
    BY <1>1, <1>4, <2>1, SinkLocal
  <2>2. CASE s = t /\ WriteReturns(t)
    BY <2>2, WriteSafe
  <2>3. CASE s = t /\ (Recv(t) \/ Retry(t))
    <3>1. Checkout(s) /\ out[s] = FreshSlot
      BY <2>3 DEF Recv, Retry, TaskRuns, HandInv
    <3> QED
      BY <3>1, CheckoutSafe
  <2>4. CASE AckBatch(t) \/ SinkEnds(t)
    BY <1>1, <2>4 DEF AckBatch, SinkEnds
  <2> QED
    BY <1>4, <2>1, <2>2, <2>3, <2>4 DEF SinkStep
<1>5. CASE Tick \/ FinalTick \/ PersistStep \/ Signal \/ AllDone
  BY <1>1, <1>5 DEF Tick, FinalTick, PersistStep, Signal, AllDone, Ending, sinkVars
<1>6. ASSUME NEW t \in Sinks, FlushOk(t) \/ FlushErr(t) PROVE Safe(s, r)'
  <2>1. CASE s # t
    <3>1. pool'[s] = pool[s] /\ out'[s] = out[s]
      BY <1>6, <2>1 DEF FlushOk, FlushErr, DTypeOK
    <3> QED
      BY <1>1, <3>1
  <2>2. CASE s = t
    BY <1>6, <2>2, FlushStores, FlushErrSafe DEF Safe
  <2> QED
    BY <2>1, <2>2
<1>7. CASE Exit \/ Kill \/ Restart
  BY <1>7 DEF Exit, Kill, Restart, Shutdown, Crash, Halt, Open
<1>8. CASE UNCHANGED dvars
  BY <1>1, <1>8 DEF dvars, deliveryVars, sinkVars
<1> QED
  BY <1>2, <1>3, <1>4, <1>5, <1>6, <1>7, <1>8 DEF DNext, CheckpointStep

-----------------------------------------------------------------------------
(* Rows below a cursor (CursorInv).                                          *)

\* No row is below a cursor at the start.
LEMMA CursorInit == DInit => CursorInv
<1> SUFFICES ASSUME DInit, NEW s \in Sinks, NEW r \in Rows
             PROVE  /\ r < disk[Pair(s)] => Stored(s, r)
                    /\ (ckpt # "idle" /\ s \notin toFlush /\ r < snap[Pair(s)]) => Stored(s, r)
                    /\ (running /\ r < cursors[Pair(s)]) => Safe(s, r)
  BY DEF CursorInv
<1>1. ckpt = "idle" /\ disk[Pair(s)] = Absent /\ cursors[Pair(s)] = Absent
  BY PairFacts DEF DInit, Init, NoRows
<1>2. ~(r < Absent)
  BY BlockFacts DEF Absent
<1> QED
  BY <1>1, <1>2

\* A row of the table changes only by a commit of the value in the transaction.
LEMMA DiskMoves ==
    ASSUME [QuietNext]_vars, NEW p \in Pairs, disk'[p] # disk[p]
    PROVE  ckpt = "rows" /\ txn[p] # Absent /\ disk'[p] = txn[p]
<1>1. CASE Commit
  BY <1>1 DEF Commit
<1>2. CASE ~Commit
  BY <1>2 DEF QuietNext, CheckpointNext, Ack, Snapshot, FlushFails, PersistBegin, ReadFloor, InsertRow,
              PersistFails, CheckpointAborted, RollBack, Pause, Crash, Shutdown, Halt, Open, vars, cursorVars
<1> QED
  BY <1>1, <1>2

\* What a step does to the tick: it ends it or begins it, flushes one sink, or
\* leaves the snapshot and the sinks to flush alone.
LEMMA TickMoves ==
    ASSUME DTypeOK, PhaseInv, [DNext]_dvars
    PROVE  \/ ckpt' = "idle"
           \/ toFlush' = Sinks
           \/ \E t \in Sinks : FlushOk(t)
           \/ toFlush' = toFlush /\ snap' = snap /\ ckpt # "idle"
           \/ UNCHANGED <<toFlush, snap, ckpt>>
<1>1. CASE SourceStep
  BY <1>1 DEF SourceStep, Query, SendChunk, EmptyPage, SendEof, SourceStops, vars, persistVars
<1>2. CASE FanStep
  BY <1>2 DEF FanStep, FanRecv, FanSend, FanDrop, FanSent, FanEnds, vars, persistVars
<1>3. ASSUME NEW s \in Sinks, SinkStep(s) PROVE UNCHANGED <<ckpt, snap, toFlush>>
  BY <1>3 DEF SinkStep, WriteReturns, Recv, Retry, Checkout, WriteOk, WriteErr, WriteTrap, WritePanic,
              AckBatch, SinkEnds, Failed, TaskReturns, Pause, Ack, vars, persistVars
<1>4. CASE Tick \/ FinalTick
  BY <1>4 DEF Tick, FinalTick
<1>5. CASE PersistStep
  <2>1. CASE PersistBegin
    BY <1>5, <2>1 DEF PersistStep, PersistBegin
  <2>2. CASE \E p \in Pairs : ReadFloor(p) \/ InsertRow(p)
    BY <1>5, <2>2 DEF PersistStep, ReadFloor, InsertRow
  <2>3. CASE Commit \/ PersistFails
    BY <2>3 DEF Commit, PersistFails, RollBack
  <2> QED
    BY <1>5, <2>1, <2>2, <2>3 DEF PersistStep, Persist
<1>6. ASSUME NEW s \in Sinks, FlushErr(s) PROVE ckpt' = "idle"
  BY <1>6 DEF FlushErr, FlushFails
<1>7. CASE Signal \/ AllDone
  <2>1. ckpt' = "idle"
    BY <1>7 DEF Signal, AllDone, Ending, CheckpointAborted, RollBack, vars, persistVars
  <2> QED
    BY <2>1
<1>8. CASE Exit \/ Kill
  BY <1>8 DEF Exit, Kill, Shutdown, Crash, Halt
<1>9. CASE Restart
  BY <1>9 DEF Restart, Open, PhaseInv, persistVars
<1>10. CASE UNCHANGED dvars
  BY <1>10 DEF dvars, deliveryVars, vars, persistVars
<1> QED
  BY <1>1, <1>2, <1>3, <1>4, <1>5, <1>6, <1>7, <1>8, <1>9, <1>10 DEF DNext, CheckpointStep

\* A sink's watermark changes only by the ack of the batch its task has just
\* written, while the process runs.
LEMMA CursorMoves ==
    ASSUME DTypeOK, [DNext]_dvars, running, running', NEW s \in Sinks,
           cursors'[Pair(s)] # cursors[Pair(s)]
    PROVE  AckBatch(s)
<1>0. cursors' # cursors
  OBVIOUS
<1>1. CASE SourceStep
  BY <1>0, <1>1 DEF SourceStep, Query, SendChunk, EmptyPage, SendEof, SourceStops, vars, cursorVars
<1>2. CASE FanStep
  BY <1>0, <1>2 DEF FanStep, FanRecv, FanSend, FanDrop, FanSent, FanEnds, vars, cursorVars
<1>3. ASSUME NEW t \in Sinks, SinkStep(t) PROVE AckBatch(s)
  <2>1. s = t
    BY <1>3, SinkLocal
  <2>2. AckBatch(t)
    BY <1>0, <1>3 DEF SinkStep, WriteReturns, Recv, Retry, Checkout, WriteOk, WriteErr, WriteTrap, WritePanic,
              SinkEnds, Failed, TaskReturns, Pause, vars, cursorVars
  <2> QED
    BY <2>1, <2>2
<1>4. CASE Tick \/ FinalTick
  BY <1>0, <1>4 DEF Tick, FinalTick, Snapshot, cursorVars
<1>5. CASE PersistStep
  BY <1>0, <1>5 DEF PersistStep, Persist, PersistBegin, ReadFloor, InsertRow, Commit, PersistFails, RollBack, cursorVars
<1>6. ASSUME NEW t \in Sinks, FlushOk(t) \/ FlushErr(t) PROVE FALSE
  BY <1>0, <1>6 DEF FlushOk, FlushErr, FlushFails, vars, cursorVars
<1>7. CASE Signal \/ AllDone
  BY <1>0, <1>7 DEF Signal, AllDone, Ending, CheckpointAborted, RollBack, vars, cursorVars
<1>8. CASE Exit \/ Kill \/ Restart
  BY <1>8 DEF Exit, Kill, Restart, Shutdown, Crash, Halt, Open
<1>9. CASE UNCHANGED dvars
  BY <1>0, <1>9 DEF dvars, vars, cursorVars
<1> QED
  BY <1>1, <1>2, <1>3, <1>4, <1>5, <1>6, <1>7, <1>8, <1>9 DEF DNext, CheckpointStep

\* Only a restart starts the process.
LEMMA StartIsRestart ==
    ASSUME [DNext]_dvars, ~running, running'
    PROVE  Restart
<1>1. \A s \in Sinks : ~SinkStep(s)
  BY DEF SinkStep, WriteReturns, Recv, Retry, WriteOk, WriteErr, WriteTrap, WritePanic, AckBatch, SinkEnds, TaskRuns
<1>2. ~SourceStep /\ ~FanStep
  BY DEF SourceStep, Query, SendChunk, EmptyPage, SendEof, SourceStops,
         FanStep, FanRecv, FanSend, FanDrop, FanSent, FanEnds
<1>3. ~Tick /\ ~FinalTick /\ ~CheckpointStep
  BY DEF Tick, FinalTick, Snapshot, CheckpointStep, FlushOk, FlushErr, FlushFails, PersistStep, Persist,
         PersistBegin, ReadFloor, InsertRow, Commit, PersistFails, RollBack
<1>4. ~Signal /\ ~AllDone /\ ~Exit /\ ~Kill
  BY DEF Signal, AllDone, Ending, Exit, Kill, Shutdown, Crash, Halt
<1>5. ~UNCHANGED dvars
  BY DEF dvars, vars
<1> QED
  BY <1>1, <1>2, <1>3, <1>4, <1>5 DEF DNext

\* An ack leaves the greater of the old watermark and the batch's block.
LEMMA AckValue ==
    ASSUME TypeOK, NEW p \in Pairs, NEW n, Ack(p, n)
    PROVE  cursors'[p] = Greatest(cursors[p], n)
<1>1. cursors \in [Pairs -> Cursor]
  BY DEF TypeOK
<1>2. cursors' = [cursors EXCEPT ![p] = Greatest(@, n)]
  BY DEF Ack
<1> QED
  BY <1>1, <1>2

\* Every step keeps the rows below the three cursors stored or safe.
LEMMA CursorStep ==
    ASSUME DTypeOK, DTypeOK', PhaseInv, HandInv, TickInv, CursorInv, StreamInv, [DNext]_dvars
    PROVE  CursorInv'
<1> SUFFICES ASSUME NEW s \in Sinks, NEW r \in Rows
             PROVE  /\ r < disk'[Pair(s)] => Stored(s, r)'
                    /\ (ckpt' # "idle" /\ s \notin toFlush' /\ r < snap'[Pair(s)]) => Stored(s, r)'
                    /\ (running' /\ r < cursors'[Pair(s)]) => Safe(s, r)'
  BY DEF CursorInv
<1> DEFINE p == Pair(s)
<1>0. p \in Pairs
  BY PairFacts
<1>1. /\ r < disk[p] => Stored(s, r)
      /\ (ckpt # "idle" /\ s \notin toFlush /\ r < snap[p]) => Stored(s, r)
      /\ (running /\ r < cursors[p]) => Safe(s, r)
  BY DEF CursorInv
<1>2. TickRow(s) /\ (ckpt = "rows" => toFlush = {}) /\ [QuietNext]_vars
  BY StoreStepQuiet DEF TickInv
<1>3. Stored(s, r) => Stored(s, r)'
  BY StoredGrows DEF Stored
<1>4. /\ r \in Int /\ disk[p] \in Int /\ cursors[p] \in Int /\ snap[p] \in Int /\ txn[p] \in Int
      /\ disk'[p] \in Int /\ cursors'[p] \in Int /\ snap'[p] \in Int
  <2>1. r \in Int
    BY BlockFacts
  <2>2. disk[p] \in Int /\ cursors[p] \in Int /\ snap[p] \in Int /\ txn[p] \in Int
    BY <1>0, RowTypes DEF DTypeOK
  <2>3. disk'[p] \in Cursor /\ cursors'[p] \in Cursor /\ snap'[p] \in Cursor
    BY <1>0 DEF DTypeOK, TypeOK
  <2> QED
    BY <2>1, <2>2, <2>3, CursorIsInt
<1>5. ASSUME r < disk'[p] PROVE Stored(s, r)'
  <2>1. CASE disk'[p] = disk[p]
    BY <1>1, <1>3, <1>5, <2>1
  <2>2. CASE disk'[p] # disk[p]
    <3>1. ckpt = "rows" /\ txn[p] # Absent /\ disk'[p] = txn[p]
      BY <1>0, <1>2, <2>2, DiskMoves
    <3>2. txn[p] <= snap[p]
      BY <1>2, <3>1 DEF TickRow
    <3>3. r < snap[p]
      BY <1>4, <1>5, <3>1, <3>2
    <3> QED
      BY <1>1, <1>2, <1>3, <3>1, <3>3
  <2> QED
    BY <2>1, <2>2
<1>6. ASSUME ckpt' # "idle", s \notin toFlush', r < snap'[p] PROVE Stored(s, r)'
  <2>1. ASSUME toFlush' = toFlush, snap' = snap, ckpt # "idle" PROVE Stored(s, r)'
    BY <1>1, <1>3, <1>6, <2>1
  <2>2. ASSUME NEW t \in Sinks, FlushOk(t) PROVE Stored(s, r)'
    <3>1. snap' = snap /\ ckpt # "idle" /\ toFlush' = toFlush \ {t} /\ running
      BY <2>2 DEF FlushOk, vars, persistVars
    <3>2. CASE s = t
      <4>1. r < cursors[p]
        BY <1>2, <1>4, <1>6, <3>1 DEF TickRow
      <4> QED
        BY <1>1, <2>2, <3>1, <3>2, <4>1, FlushStores
    <3>3. CASE s # t
      BY <1>1, <1>3, <1>6, <3>1, <3>3
    <3> QED
      BY <3>2, <3>3
  <2>3. CASE UNCHANGED <<toFlush, snap, ckpt>>
    BY <1>6, <2>1, <2>3
  <2> QED
    BY <1>6, <2>1, <2>2, <2>3, TickMoves
<1>7. ASSUME running', r < cursors'[p] PROVE Safe(s, r)'
  <2>1. CASE ~running
    <3>1. Restart
      BY <1>7, <2>1, StartIsRestart
    <3>2. cursors' = disk
      BY <3>1 DEF Restart, Open
    <3> QED
      BY <1>1, <1>3, <1>7, <3>2 DEF Safe
  <2>2. CASE running /\ cursors'[p] = cursors[p]
    BY <1>1, <1>7, <2>2, SafeGrows
  <2>3. CASE running /\ cursors'[p] # cursors[p]
    <3>1. AckBatch(s)
      BY <1>7, <2>3, CursorMoves
    <3>2. s \notin paused /\ inbox[s] # <<>> /\ inbox[s] \in Seq(Batch) /\ task[s] = "written"
      BY <3>1 DEF AckBatch, TaskRuns, HandInv, DTypeOK
    <3>3. Head(inbox[s]) = inbox[s][1] /\ inbox[s][1] \in Batch /\ 1 \in DOMAIN inbox[s]
      BY <3>2, ChannelTail
    <3>4. cursors'[p] = Greatest(cursors[p], inbox[s][1].ack) /\ inbox[s][1].ack \in Int
      <4>1. Ack(p, Head(inbox[s]).ack)
        BY <3>1 DEF AckBatch
      <4>2. cursors'[p] = Greatest(cursors[p], Head(inbox[s]).ack)
        BY <1>0, <4>1, AckValue DEF DTypeOK
      <4>3. inbox[s][1].ack \in Blocks
        BY <3>3 DEF Batch
      <4>4. inbox[s][1].ack \in Int
        <5>1. Blocks \subseteq Int
          BY BlocksAssumption
        <5> QED
          BY <4>3, <5>1, Zenon
      <4> QED
        BY <3>3, <4>2, <4>4, Zenon
    <3>5. r < cursors[p] \/ r < inbox[s][1].ack
      BY <1>4, <1>7, <3>4 DEF Greatest
    <3>6. StreamAt(s, r)
      BY <2>3, <3>2 DEF StreamInv
    <3>7. Carried(inbox[s], 1, r) => r \in inbox[s][1].rows
      BY DEF Carried
    <3>8. Safe(s, r)
      BY <1>1, <2>3, <3>2, <3>3, <3>5, <3>6, <3>7 DEF StreamAt
    <3> QED
      BY <1>7, <2>3, <3>8, SafeGrows
  <2> QED
    BY <2>1, <2>2, <2>3
<1> QED
  BY <1>5, <1>6, <1>7

-----------------------------------------------------------------------------
(* Rows on their way to a sink (StreamInv).                                  *)

\* No row is on its way at the start.
LEMMA StreamInit == DInit => StreamInv
<1> SUFFICES ASSUME DInit, NEW s \in Sinks, NEW r \in Rows PROVE StreamAt(s, r)
  BY DEF StreamInv
<1>1. inbox[s] = <<>> /\ feed = <<>> /\ fan = "recv" /\ task[s] = "recv" /\ pos = FromBlock
  BY DEF DInit
<1>2. ~(r < FromBlock)
  BY BlockFacts
<1> QED
  BY <1>1, <1>2 DEF StreamAt

\* A process that starts has nothing on its way, and starts where every row
\* below is stored.
LEMMA RestartStream ==
    ASSUME DTypeOK, CursorInv, [DNext]_dvars, Restart, NEW s \in Sinks, NEW r \in Rows
    PROVE  StreamAt(s, r)'
<1>1. /\ inbox'[s] = <<>> /\ feed' = <<>> /\ fan' = "recv" /\ task'[s] = "recv"
      /\ pos' = RestartPoint(disk)
  BY DEF Restart, Memory
<1>2. ASSUME r < RestartPoint(disk) PROVE Safe(s, r)'
  <2>1. r \in Int /\ FromBlock <= r /\ FromBlock \in Int /\ RestartPoint(disk) \in Int /\ disk[Pair(s)] \in Int
    <3>1. RestartPoint(disk) \in Blocks /\ disk[Pair(s)] \in Int
      BY RestartPointFacts, CursorFacts DEF DTypeOK
    <3>2. Blocks \subseteq Int
      BY BlocksAssumption
    <3>3. r \in Int /\ FromBlock <= r /\ FromBlock \in Int
      BY BlockFacts
    <3> QED
      BY <3>1, <3>2, <3>3, Zenon
  <2>2. RestartPoint(disk) = FromBlock \/ RestartPoint(disk) <= disk[Pair(s)]
    BY RestartPointFacts DEF DTypeOK
  <2>3. r < disk[Pair(s)]
    BY <1>2, <2>1, <2>2
  <2>4. Stored(s, r)
    BY <2>3 DEF CursorInv
  <2> QED
    BY <2>4, StoredGrows DEF Safe, Stored
<1> QED
  BY <1>1, <1>2 DEF StreamAt, Arrived

\* A branch that is paused stays so until the process ends.
LEMMA PausedGrows ==
    ASSUME [QuietNext]_vars, running, running'
    PROVE  paused \subseteq paused'
BY DEF QuietNext, CheckpointNext, Ack, Snapshot, FlushFails, PersistBegin, ReadFloor, InsertRow, Commit,
       PersistFails, CheckpointAborted, RollBack, Pause, Crash, Shutdown, Halt, Open, vars, cursorVars

\* A step that moves no batch towards or away from the sink.
LEMMA StreamFrame ==
    ASSUME NEW s \in Sinks, NEW r \in Rows, StreamAt(s, r), Safe(s, r) => Safe(s, r)',
           inbox'[s] = inbox[s], feed' = feed,
           (fan' = "send" /\ s \notin fanTodo') => (fan = "send" /\ s \notin fanTodo),
           task'[s] = "written" => task[s] = "written",
           r < pos' => r < pos
    PROVE  StreamAt(s, r)'
BY Zenon DEF StreamAt, Arrived

\* The source appends a batch that carries every row between its place and the
\* block the batch acks.
LEMMA StreamSend ==
    ASSUME DTypeOK, NEW s \in Sinks, NEW r \in Rows, StreamAt(s, r), Safe(s, r) => Safe(s, r)',
           UNCHANGED <<inbox, fan, fanTodo, task>>, fan = "send" => feed # <<>>,
           NEW m \in Batch, feed' = Append(feed, m),
           r < m.ack => (r < pos \/ r \in m.rows),
           r < pos' => (r < pos \/ r \in m.rows)
    PROVE  StreamAt(s, r)'
<1>0. feed \in Seq(Batch)
  BY DEF DTypeOK
<1>1. /\ Len(feed) \in Nat /\ DOMAIN feed = 1..Len(feed) /\ Len(feed') = Len(feed) + 1
      /\ DOMAIN feed' = 1..(Len(feed) + 1)
      /\ \A i \in 1..Len(feed) : feed'[i] = feed[i]
      /\ feed'[Len(feed) + 1] = m
  BY <1>0, ChannelAppend
<1>2. /\ \A n \in 0..Len(feed) : Carried(feed, n, r) => Carried(feed', n, r)
      /\ Carried(feed, Len(feed), r) => Carried(feed', Len(feed) + 1, r)
      /\ r \in m.rows => Carried(feed', Len(feed) + 1, r)
  BY <1>0, CarriedAppend
<1>3. Arrived(s, r) => Arrived(s, r)'
  BY Zenon DEF Arrived
<1>4. (r < pos \/ r \in m.rows) => (Arrived(s, r)' \/ Carried(feed', Len(feed) + 1, r))
  BY <1>2, <1>3, Zenon DEF StreamAt
<1>5. \A i \in DOMAIN feed' : r < feed'[i].ack => (Arrived(s, r)' \/ Carried(feed', i, r))
  <2> SUFFICES ASSUME NEW i \in DOMAIN feed', r < feed'[i].ack
               PROVE  Arrived(s, r)' \/ Carried(feed', i, r)
    OBVIOUS
  <2>1. CASE i \in 1..Len(feed)
    <3>1. i \in DOMAIN feed /\ i \in 0..Len(feed) /\ feed'[i] = feed[i]
      BY <1>1, <2>1
    <3>2. Arrived(s, r) \/ Carried(feed, i, r)
      BY <3>1, Zenon DEF StreamAt
    <3> QED
      BY <1>2, <1>3, <3>1, <3>2, Zenon
  <2>2. CASE i = Len(feed) + 1
    BY <1>1, <1>4, <2>2, Zenon
  <2>3. i \in 1..Len(feed) \/ i = Len(feed) + 1
    BY <1>1
  <2> QED
    BY <2>1, <2>2, <2>3
<1>6. (fan = "send" /\ s \notin fanTodo /\ r \in feed'[1].rows) => Arrived(s, r)'
  <2> SUFFICES ASSUME fan = "send", s \notin fanTodo, r \in feed'[1].rows PROVE Arrived(s, r)'
    OBVIOUS
  <2>1. 1 \in 1..Len(feed)
    BY <1>0, <1>1, ChannelTail
  <2>2. r \in feed[1].rows
    BY <1>1, <2>1, Zenon
  <2> QED
    BY <1>3, <2>2, Zenon DEF StreamAt
<1>7. r < pos' => (Arrived(s, r)' \/ Carried(feed', Len(feed'), r))
  BY <1>1, <1>4, Zenon
<1>8. /\ \A i \in DOMAIN inbox'[s] : r < inbox'[s][i].ack => (Safe(s, r)' \/ Carried(inbox'[s], i, r))
      /\ (task'[s] = "written" /\ r \in inbox'[s][1].rows) => Safe(s, r)'
  BY Zenon DEF StreamAt
<1>9. fan' = fan /\ fanTodo' = fanTodo
  OBVIOUS
<1> QED
  BY <1>5, <1>6, <1>7, <1>8, <1>9, Zenon DEF StreamAt

\* The source loop sends every row before the block that acks it.
LEMMA SourceStream ==
    ASSUME DTypeOK, HandInv, NEW s \in Sinks, NEW r \in Rows, StreamAt(s, r), Safe(s, r) => Safe(s, r)',
           SourceStep
    PROVE  StreamAt(s, r)'
<1>0. UNCHANGED <<inbox, fan, fanTodo, task>> /\ (fan = "send" => feed # <<>>)
  BY DEF SourceStep, Query, SendChunk, EmptyPage, SendEof, SourceStops, fanVars, sinkVars, HandInv
<1>1. cursor \in Int /\ pos \in Int /\ pageEnd \in Int /\ r \in Int /\ cursor <= pos
  BY BlockFacts DEF DTypeOK, HandInv
<1>2. ASSUME feed' = feed, r < pos' => r < pos PROVE StreamAt(s, r)'
  BY <1>0, <1>2, StreamFrame
<1>3. CASE Query
  <2>1. feed' = feed /\ (pos' = cursor \/ pos' = pos)
    BY <1>3 DEF Query
  <2> QED
    BY <1>1, <1>2, <2>1
<1>4. CASE SendChunk
  <2>1. PICK k \in PageRows(pos, pageEnd) :
          LET last == PageRows(k + 1, pageEnd) = {} IN
          /\ Send([rows |-> PageRows(pos, k + 1), ack |-> ChunkAck(last)],
                  IF last THEN After(pageEnd) ELSE "page")
          /\ pos' = IF last THEN pageEnd ELSE k + 1
          /\ cursor' = IF last THEN pageEnd ELSE cursor
    BY <1>4 DEF SendChunk
  <2> DEFINE last == PageRows(k + 1, pageEnd) = {}
             m == [rows |-> PageRows(pos, k + 1), ack |-> ChunkAck(last)]
  <2>2. k \in Rows /\ k \in Int /\ pos <= k /\ k < pageEnd
    BY <2>1, BlockFacts DEF PageRows
  <2>3. m \in Batch /\ m.rows = PageRows(pos, k + 1) /\ m.ack = ChunkAck(last)
    BY DEF PageRows, ChunkAck, Batch, DTypeOK
  <2>4. feed' = Append(feed, m)
    BY <2>1 DEF Send
  <2>5. last => (r < pageEnd => (r < pos \/ r \in PageRows(pos, k + 1)))
    BY <1>1, <2>2 DEF PageRows
  <2>6. r < k + 1 => (r < pos \/ r \in PageRows(pos, k + 1))
    BY <1>1, <2>2 DEF PageRows
  <2>7. r < ChunkAck(last) => (r < pos \/ r \in PageRows(pos, k + 1))
    BY <1>1, <2>5 DEF ChunkAck
  <2>8. r < pos' => (r < pos \/ r \in PageRows(pos, k + 1))
    BY <2>1, <2>5, <2>6
  <2>9. (r < m.ack => (r < pos \/ r \in m.rows)) /\ (r < pos' => (r < pos \/ r \in m.rows))
    BY <2>3, <2>7, <2>8, Zenon
  <2> HIDE DEF m
  <2> QED
    BY <1>0, <2>3, <2>4, <2>9, StreamSend
<1>5. CASE EmptyPage
  <2>1. feed' = feed /\ pos' = pageEnd /\ PageRows(cursor, pageEnd) = {}
    BY <1>5 DEF EmptyPage
  <2>2. r < pageEnd => r < pos
    BY <1>1, <2>1 DEF PageRows
  <2> QED
    BY <1>2, <2>1, <2>2
<1>6. CASE SendEof
  <2> DEFINE m == [rows |-> {}, ack |-> cursor]
  <2>1. m \in Batch /\ m.ack = cursor
    BY DEF Batch, DTypeOK
  <2>2. feed' = Append(feed, m) /\ pos' = pos
    BY <1>6 DEF SendEof, Send
  <2>3. r < m.ack => r < pos
    BY <1>1, <2>1
  <2> HIDE DEF m
  <2> QED
    BY <1>0, <2>1, <2>2, <2>3, StreamSend
<1>7. CASE SourceStops
  BY <1>2, <1>7 DEF SourceStops
<1> QED
  BY <1>3, <1>4, <1>5, <1>6, <1>7 DEF SourceStep

\* The batch in the fan-out's hand goes into the sink's channel.
LEMMA FanSendStream ==
    ASSUME DTypeOK, HandInv, NEW s \in Sinks, NEW r \in Rows, StreamAt(s, r), Safe(s, r) => Safe(s, r)',
           FanSend(s)
    PROVE  StreamAt(s, r)'
<1> DEFINE q == inbox[s]
           b == feed[1]
<1>1. feed # <<>> /\ feed \in Seq(Batch) /\ q \in Seq(Batch)
  BY DEF FanSend, HandInv, DTypeOK
<1>2. Head(feed) = b /\ b \in Batch /\ 1 \in DOMAIN feed
  BY <1>1, ChannelTail
<1>3. inbox'[s] = Append(q, b)
  <2>1. inbox'[s] = Append(q, Head(feed))
    BY DEF FanSend, DTypeOK
  <2> QED
    BY <1>2, <2>1, Zenon
<1>4. /\ Len(q) \in Nat /\ DOMAIN q = 1..Len(q)
      /\ Len(inbox'[s]) = Len(q) + 1 /\ DOMAIN inbox'[s] = 1..(Len(q) + 1)
      /\ \A i \in 1..Len(q) : inbox'[s][i] = q[i]
      /\ inbox'[s][Len(q) + 1] = b
  BY <1>1, <1>2, <1>3, ChannelAppend
<1>5. /\ \A n \in 0..Len(q) : Carried(q, n, r) => Carried(inbox'[s], n, r)
      /\ Carried(q, Len(q), r) => Carried(inbox'[s], Len(q) + 1, r)
      /\ r \in b.rows => Carried(inbox'[s], Len(q) + 1, r)
  BY <1>1, <1>2, <1>3, CarriedAppend
<1>6. Arrived(s, r) => Arrived(s, r)'
  BY <1>4, <1>5, Zenon DEF Arrived
<1>7. r \in b.rows => Arrived(s, r)'
  BY <1>4, <1>5, Zenon DEF Arrived
<1>8. UNCHANGED <<feed, pos, fan, task>>
  BY DEF FanSend, sourceVars
<1>9. \A i \in DOMAIN inbox'[s] : r < inbox'[s][i].ack => (Safe(s, r)' \/ Carried(inbox'[s], i, r))
  <2> SUFFICES ASSUME NEW i \in DOMAIN inbox'[s], r < inbox'[s][i].ack
               PROVE  Safe(s, r)' \/ Carried(inbox'[s], i, r)
    OBVIOUS
  <2>1. CASE i \in 1..Len(q)
    <3>1. i \in DOMAIN q /\ i \in 0..Len(q) /\ inbox'[s][i] = q[i]
      BY <1>4, <2>1
    <3>2. Safe(s, r) \/ Carried(q, i, r)
      BY <3>1, Zenon DEF StreamAt
    <3> QED
      BY <1>5, <3>1, <3>2, Zenon
  <2>2. CASE i = Len(q) + 1
    <3>1. r < b.ack
      BY <1>4, <2>2, Zenon
    <3>2. Arrived(s, r) \/ Carried(feed, 1, r)
      BY <1>2, <3>1, Zenon DEF StreamAt
    <3>3. Carried(feed, 1, r) => r \in b.rows
      BY DEF Carried
    <3>4. Arrived(s, r)'
      BY <1>6, <1>7, <3>2, <3>3
    <3> QED
      BY <1>4, <2>2, <3>4, Zenon DEF Arrived
  <2>3. i \in 1..Len(q) \/ i = Len(q) + 1
    BY <1>4
  <2> QED
    BY <2>1, <2>2, <2>3
<1>10. (task'[s] = "written" /\ r \in inbox'[s][1].rows) => Safe(s, r)'
  <2> SUFFICES ASSUME task[s] = "written", r \in inbox'[s][1].rows PROVE Safe(s, r)'
    BY <1>8
  <2>1. q # <<>>
    BY DEF FanSend, HandInv
  <2>2. 1 \in 1..Len(q)
    BY <1>1, <2>1, ChannelTail
  <2>3. r \in q[1].rows
    BY <1>4, <2>2, Zenon
  <2> QED
    BY <2>3, Zenon DEF StreamAt
<1>11. \A i \in DOMAIN feed : r < feed[i].ack => (Arrived(s, r)' \/ Carried(feed, i, r))
  BY <1>6, Zenon DEF StreamAt
<1>12. r < pos => (Arrived(s, r)' \/ Carried(feed, Len(feed), r))
  BY <1>6, Zenon DEF StreamAt
<1> QED
  BY <1>7, <1>8, <1>9, <1>10, <1>11, <1>12, Zenon DEF StreamAt

\* The batch that has reached every branch leaves the feed.
LEMMA FanSentStream ==
    ASSUME DTypeOK, HandInv, NEW s \in Sinks, NEW r \in Rows, StreamAt(s, r), Safe(s, r) => Safe(s, r)',
           FanSent
    PROVE  StreamAt(s, r)'
<1>1. /\ UNCHANGED <<inbox, task, pos>> /\ feed' = Tail(feed) /\ fan' # "send"
      /\ fan = "send" /\ s \notin fanTodo /\ feed # <<>> /\ feed \in Seq(Batch)
  BY DEF FanSent, HandInv, DTypeOK, sinkVars
<1>2. Arrived(s, r) => Arrived(s, r)'
  BY <1>1, Zenon DEF Arrived
<1>3. /\ Len(feed) \in Nat \ {0} /\ DOMAIN feed = 1..Len(feed)
      /\ Len(feed') = Len(feed) - 1 /\ DOMAIN feed' = 1..(Len(feed) - 1)
      /\ \A i \in 1..(Len(feed) - 1) : feed'[i] = feed[i + 1] /\ i + 1 \in 1..Len(feed)
  BY <1>1, ChannelTail
<1>4. r \in feed[1].rows => Arrived(s, r)'
  BY <1>1, <1>2, Zenon DEF StreamAt
<1>5. \A n \in 1..Len(feed) : Carried(feed, n, r) => (Arrived(s, r)' \/ Carried(feed', n - 1, r))
  BY <1>1, <1>4, CarriedTail
<1>6. \A i \in DOMAIN feed' : r < feed'[i].ack => (Arrived(s, r)' \/ Carried(feed', i, r))
  <2> SUFFICES ASSUME NEW i \in DOMAIN feed', r < feed'[i].ack
               PROVE  Arrived(s, r)' \/ Carried(feed', i, r)
    OBVIOUS
  <2>1. feed'[i] = feed[i + 1] /\ i + 1 \in 1..Len(feed) /\ (i + 1) - 1 = i /\ i + 1 \in DOMAIN feed
    BY <1>3
  <2>2. Arrived(s, r) \/ Carried(feed, i + 1, r)
    BY <2>1, Zenon DEF StreamAt
  <2>3. Carried(feed, i + 1, r) => (Arrived(s, r)' \/ Carried(feed', (i + 1) - 1, r))
    BY <1>5, <2>1, Zenon
  <2> QED
    BY <1>2, <2>1, <2>2, <2>3, Zenon
<1>7. r < pos' => (Arrived(s, r)' \/ Carried(feed', Len(feed'), r))
  <2> SUFFICES ASSUME r < pos PROVE Arrived(s, r)' \/ Carried(feed', Len(feed'), r)
    BY <1>1
  <2>1. Arrived(s, r) \/ Carried(feed, Len(feed), r)
    BY Zenon DEF StreamAt
  <2>2. Len(feed) \in 1..Len(feed) /\ Len(feed) - 1 = Len(feed')
    BY <1>3
  <2> QED
    BY <1>2, <1>5, <2>1, <2>2, Zenon
<1>8. /\ \A i \in DOMAIN inbox'[s] : r < inbox'[s][i].ack => (Safe(s, r)' \/ Carried(inbox'[s], i, r))
      /\ (task'[s] = "written" /\ r \in inbox'[s][1].rows) => Safe(s, r)'
  BY <1>1, Zenon DEF StreamAt
<1> QED
  BY <1>1, <1>6, <1>7, <1>8, Zenon DEF StreamAt

\* The fan-out passes every row on to every branch it still feeds.
LEMMA FanStream ==
    ASSUME DTypeOK, HandInv, NEW s \in Sinks \ paused, NEW r \in Rows, StreamAt(s, r), Safe(s, r) => Safe(s, r)',
           FanStep
    PROVE  StreamAt(s, r)'
<1>1. CASE FanRecv
  <2>1. UNCHANGED <<inbox, feed, task, pos>> /\ s \in fanTodo'
    BY <1>1 DEF FanRecv, sourceVars, sinkVars, HandInv
  <2> QED
    BY <2>1, StreamFrame
<1>2. ASSUME NEW t \in Sinks, FanSend(t) PROVE StreamAt(s, r)'
  <2>1. CASE s = t
    BY <1>2, <2>1, FanSendStream
  <2>2. CASE s # t
    <3>1. UNCHANGED <<feed, task, pos, fan>> /\ inbox'[s] = inbox[s] /\ (s \notin fanTodo' => s \notin fanTodo)
      BY <1>2, <2>2 DEF FanSend, sourceVars, DTypeOK
    <3> QED
      BY <3>1, StreamFrame
  <2> QED
    BY <2>1, <2>2
<1>3. ASSUME NEW t \in Sinks, FanDrop(t) PROVE StreamAt(s, r)'
  <2>1. UNCHANGED <<inbox, feed, task, pos, fan>> /\ (s \notin fanTodo' => s \notin fanTodo)
    BY <1>3 DEF FanDrop, sourceVars, sinkVars
  <2> QED
    BY <2>1, StreamFrame
<1>4. CASE FanSent
  BY <1>4, FanSentStream
<1>5. CASE FanEnds
  <2>1. UNCHANGED <<inbox, feed, task, pos>> /\ fan' # "send"
    BY <1>5 DEF FanEnds, sourceVars, sinkVars
  <2> QED
    BY <2>1, StreamFrame
<1> QED
  BY <1>1, <1>2, <1>3, <1>4, <1>5 DEF FanStep

\* The task acks the batch it has written: its rows are safe.
LEMMA AckStream ==
    ASSUME DTypeOK, HandInv, NEW s \in Sinks, NEW r \in Rows, StreamAt(s, r), Safe(s, r) => Safe(s, r)',
           AckBatch(s)
    PROVE  StreamAt(s, r)'
<1> DEFINE q == inbox[s]
<1>1. /\ UNCHANGED <<feed, pos, fan, fanTodo>> /\ task'[s] = "recv" /\ task[s] = "written"
      /\ inbox'[s] = Tail(q) /\ q # <<>> /\ q \in Seq(Batch)
  BY DEF AckBatch, TaskRuns, HandInv, DTypeOK, sourceVars, fanVars
<1>2. /\ Len(q) \in Nat \ {0} /\ DOMAIN q = 1..Len(q)
      /\ Len(inbox'[s]) = Len(q) - 1 /\ DOMAIN inbox'[s] = 1..(Len(q) - 1)
      /\ \A i \in 1..(Len(q) - 1) : inbox'[s][i] = q[i + 1] /\ i + 1 \in 1..Len(q)
  BY <1>1, ChannelTail
<1>3. r \in q[1].rows => Safe(s, r)'
  BY <1>1, Zenon DEF StreamAt
<1>4. \A n \in 1..Len(q) : Carried(q, n, r) => (Safe(s, r)' \/ Carried(inbox'[s], n - 1, r))
  BY <1>1, <1>3, CarriedTail
<1>5. Arrived(s, r) => Arrived(s, r)'
  <2>1. Len(q) \in 1..Len(q) /\ Len(q) - 1 = Len(inbox'[s])
    BY <1>2
  <2> QED
    BY <1>4, <2>1, Zenon DEF Arrived
<1>6. \A i \in DOMAIN inbox'[s] : r < inbox'[s][i].ack => (Safe(s, r)' \/ Carried(inbox'[s], i, r))
  <2> SUFFICES ASSUME NEW i \in DOMAIN inbox'[s], r < inbox'[s][i].ack
               PROVE  Safe(s, r)' \/ Carried(inbox'[s], i, r)
    OBVIOUS
  <2>1. inbox'[s][i] = q[i + 1] /\ i + 1 \in 1..Len(q) /\ (i + 1) - 1 = i /\ i + 1 \in DOMAIN q
    <3>1. i \in 1..(Len(q) - 1)
      BY <1>2
    <3>2. inbox'[s][i] = q[i + 1] /\ i + 1 \in 1..Len(q)
      BY <1>2, <3>1, Zenon
    <3>3. (i + 1) - 1 = i
      BY <3>1
    <3> QED
      BY <1>2, <3>2, <3>3, Zenon
  <2>2. Safe(s, r) \/ Carried(q, i + 1, r)
    BY <2>1, Zenon DEF StreamAt
  <2>3. Carried(q, i + 1, r) => (Safe(s, r)' \/ Carried(inbox'[s], (i + 1) - 1, r))
    BY <1>4, <2>1, Zenon
  <2> QED
    BY <2>1, <2>2, <2>3, Zenon
<1>7. /\ \A i \in DOMAIN feed : r < feed[i].ack => (Arrived(s, r)' \/ Carried(feed, i, r))
      /\ (fan = "send" /\ s \notin fanTodo /\ r \in feed[1].rows) => Arrived(s, r)'
      /\ r < pos => (Arrived(s, r)' \/ Carried(feed, Len(feed), r))
  BY <1>5, Zenon DEF StreamAt
<1>8. task'[s] # "written"
  BY <1>1
<1> QED
  BY <1>1, <1>6, <1>7, <1>8, Zenon DEF StreamAt

\* A sink task loses no row on the way from its channel to its instances.
LEMMA SinkStream ==
    ASSUME DTypeOK, HandInv, NEW s \in Sinks \ paused', NEW r \in Rows, StreamAt(s, r), Safe(s, r) => Safe(s, r)',
           NEW t \in Sinks, SinkStep(t)
    PROVE  StreamAt(s, r)'
<1>0. UNCHANGED <<feed, pos, fan, fanTodo>>
  BY DEF SinkStep, WriteReturns, Recv, Retry, Checkout, WriteOk, WriteErr, WriteTrap, WritePanic, AckBatch,
         SinkEnds, fanVars, sourceVars
<1>1. ASSUME inbox'[s] = inbox[s], task'[s] = "written" => task[s] = "written" PROVE StreamAt(s, r)'
  BY <1>0, <1>1, StreamFrame
<1>2. CASE s # t
  BY <1>1, <1>2, SinkLocal
<1>3. CASE s = t /\ (Recv(t) \/ Retry(t) \/ SinkEnds(t))
  <2>1. inbox' = inbox /\ task'[s] # "written"
    BY <1>3 DEF Recv, Retry, Checkout, SinkEnds, DTypeOK
  <2> QED
    BY <1>1, <2>1
<1>4. CASE s = t /\ (WriteErr(t) \/ WriteTrap(t))
  <2>1. Failed(s)
    BY <1>4 DEF WriteErr, WriteTrap
  <2>2. inbox' = inbox /\ task'[s] = "retry"
    BY <2>1 DEF Failed, TaskReturns, Pause, DTypeOK
  <2> QED
    BY <1>1, <2>2
<1>5. CASE s = t /\ WritePanic(t)
  BY <1>5 DEF WritePanic, TaskReturns, Pause
<1>6. CASE s = t /\ AckBatch(t)
  BY <1>6, AckStream
<1>7. CASE s = t /\ WriteOk(t)
  <2>1. inbox' = inbox /\ inbox[s] # <<>> /\ inbox[s] \in Seq(Batch)
    BY <1>7 DEF WriteOk, TaskRuns, HandInv, DTypeOK
  <2>2. Head(inbox[s]) = inbox[s][1]
    BY <2>1, ChannelTail
  <2>3. r \in inbox[s][1].rows => r \in InHand(s)
    BY <2>2, Zenon DEF InHand
  <2>4. r \in inbox[s][1].rows => Safe(s, r)'
    BY <1>7, <2>3, WriteSafe DEF WriteReturns
  <2>5. Arrived(s, r) => Arrived(s, r)'
    BY <2>1, Zenon DEF Arrived
  <2>6. /\ \A i \in DOMAIN feed : r < feed[i].ack => (Arrived(s, r)' \/ Carried(feed, i, r))
        /\ (fan = "send" /\ s \notin fanTodo /\ r \in feed[1].rows) => Arrived(s, r)'
        /\ r < pos => (Arrived(s, r)' \/ Carried(feed, Len(feed), r))
        /\ \A i \in DOMAIN inbox[s] : r < inbox[s][i].ack => (Safe(s, r)' \/ Carried(inbox[s], i, r))
    BY <2>5, Zenon DEF StreamAt
  <2> QED
    BY <1>0, <2>1, <2>4, <2>6, Zenon DEF StreamAt
<1> QED
  BY <1>2, <1>3, <1>4, <1>5, <1>6, <1>7 DEF SinkStep, WriteReturns

\* Every step keeps StreamInv.
LEMMA StreamStep ==
    ASSUME DTypeOK, HandInv, CursorInv, StreamInv, [DNext]_dvars
    PROVE  StreamInv'
<1> SUFFICES ASSUME running', NEW s \in Sinks \ paused', NEW r \in Rows PROVE StreamAt(s, r)'
  BY DEF StreamInv
<1>1. CASE ~running
  BY <1>1, StartIsRestart, RestartStream
<1>2. CASE running
  <2>1. paused \subseteq paused'
    BY <1>2, PausedGrows, StoreStepQuiet
  <2>2. StreamAt(s, r)
    BY <1>2, <2>1 DEF StreamInv
  <2>3. Safe(s, r) => Safe(s, r)'
    BY <1>2, SafeGrows
  <2>4. ASSUME UNCHANGED <<inbox, task, feed, pos, fan, fanTodo>> PROVE StreamAt(s, r)'
    BY <2>2, <2>3, <2>4, StreamFrame
  <2>5. CASE SourceStep
    BY <2>2, <2>3, <2>5, SourceStream
  <2>6. CASE FanStep
    BY <2>1, <2>2, <2>3, <2>6, FanStream
  <2>7. ASSUME NEW t \in Sinks, SinkStep(t) PROVE StreamAt(s, r)'
    BY <2>2, <2>3, <2>7, SinkStream
  <2>8. CASE Tick \/ FinalTick \/ PersistStep \/ Signal \/ AllDone
    BY <2>4, <2>8 DEF Tick, FinalTick, PersistStep, Signal, AllDone, Ending, sinkVars, sourceVars, fanVars
  <2>9. ASSUME NEW t \in Sinks, FlushOk(t) \/ FlushErr(t) PROVE StreamAt(s, r)'
    BY <2>4, <2>9 DEF FlushOk, FlushErr, sourceVars, fanVars
  <2>10. CASE Exit \/ Kill \/ Restart
    BY <1>2, <2>10 DEF Exit, Kill, Restart, Shutdown, Crash, Halt, Open
  <2>11. CASE UNCHANGED dvars
    BY <2>4, <2>11 DEF dvars, deliveryVars, sinkVars, sourceVars, fanVars
  <2> QED
    BY <2>5, <2>6, <2>7, <2>8, <2>9, <2>10, <2>11 DEF DNext, CheckpointStep
<1> QED
  BY <1>1, <1>2

-----------------------------------------------------------------------------
(* The theorems.                                                             *)

\* The induction hypothesis holds at the start.
LEMMA DeliveryInvInit == DInit => DeliveryInv
<1> SUFFICES ASSUME DInit PROVE DeliveryInv
  OBVIOUS
<1>1. PhaseInv
  BY StoreInvInit DEF DInit, StoreInv
<1> QED
  BY <1>1, DTypeInit, HandInit, TickInit, CursorInit, StreamInit DEF DeliveryInv

\* Every step keeps the induction hypothesis.
LEMMA DeliveryInvStep == DeliveryInv /\ [DNext]_dvars => DeliveryInv'
<1> SUFFICES ASSUME DeliveryInv, [DNext]_dvars PROVE DeliveryInv'
  OBVIOUS
<1>0. DTypeOK /\ PhaseInv /\ HandInv /\ TickInv /\ CursorInv /\ StreamInv
  BY DEF DeliveryInv
<1>1. DTypeOK' /\ HandInv'
  BY <1>0, DTypeStep, HandStep
<1>2. PhaseInv'
  BY <1>0, StoreStep, PhaseStep DEF DTypeOK
<1>3. TickInv'
  BY <1>0, <1>1, <1>2, TickStep
<1>4. CursorInv'
  BY <1>0, <1>1, CursorStep
<1>5. StreamInv'
  BY <1>0, StreamStep
<1> QED
  BY <1>1, <1>2, <1>3, <1>4, <1>5 DEF DeliveryInv

\* Where a row is, in every state of every behaviour: what NoLoss and the
\* refinement rest on.
LEMMA DeliveryInvAlways == DSpec => []DeliveryInv
BY DeliveryInvInit, DeliveryInvStep, PTL DEF DSpec

\* "Never lost, possibly repeated" (ARCHITECTURE.md 8.1): for every number of
\* sinks, range, page and chunk size, channel capacity, pool and number of
\* attempts, with crashes, signals, traps, failed writes, flushes and
\* transactions at any step, the cursor a restart resumes from is never above
\* a row that the sink's system has not stored, the rows of the exception
\* aside.
THEOREM DeliveryNoLoss == DSpec => []NoLoss
<1>1. DeliveryInv => NoLoss
  BY DEF DeliveryInv, CursorInv, NoLoss, Stored
<1> QED
  BY <1>1, DeliveryInvAlways, PTL

\* The initial states are initial states of the abstract specification.
LEMMA PromiseInit == DInit => Promise!Init
<1> SUFFICES ASSUME DInit PROVE Promise!Init
  OBVIOUS
<1>1. \A s \in Sinks : disk[Pair(s)] = -1 /\ durable[s] \cup exposed[s] = {}
  BY PairFacts DEF DInit, Init, NoRows, Absent
<1> QED
  BY <1>1 DEF Promise!Init

\* A step that commits stores nothing; one that stores commits nothing.
LEMMA CommitStoresNothing ==
    ASSUME DTypeOK, HandInv, [DNext]_dvars, disk' # disk
    PROVE  UNCHANGED <<durable, exposed>>
<1>1. CASE SourceStep
  BY <1>1 DEF SourceStep, Query, SendChunk, EmptyPage, SendEof, SourceStops, sinkVars
<1>2. CASE FanStep
  BY <1>2 DEF FanStep, FanRecv, FanSend, FanDrop, FanSent, FanEnds, sinkVars
<1>3. ASSUME NEW t \in Sinks, SinkStep(t) PROVE disk' = disk
  BY <1>3 DEF SinkStep, WriteReturns, Recv, Retry, Checkout, WriteOk, WriteErr, WriteTrap, WritePanic,
              AckBatch, Ack, SinkEnds, Failed, TaskReturns, Pause, vars, cursorVars
<1>4. CASE Tick \/ FinalTick \/ PersistStep \/ Signal \/ AllDone
  BY <1>4 DEF Tick, FinalTick, PersistStep, Signal, AllDone, Ending, sinkVars
<1>5. ASSUME NEW t \in Sinks, FlushOk(t) \/ FlushErr(t) PROVE disk' = disk
  BY <1>5 DEF FlushOk, FlushErr, FlushFails, vars, cursorVars
<1>6. CASE Exit \/ Kill \/ Restart
  BY <1>6 DEF Exit, Kill, Restart, Memory
<1>7. CASE UNCHANGED dvars
  BY <1>7 DEF dvars, deliveryVars, sinkVars
<1> QED
  BY <1>1, <1>2, <1>3, <1>4, <1>5, <1>6, <1>7 DEF DNext, CheckpointStep

\* Every step of the pipeline stores rows, moves cursors over stored rows, or is a stutter.
LEMMA PromiseStep == DeliveryInv /\ DeliveryInv' /\ [DNext]_dvars => [Promise!Next]_Promise!avars
<1> SUFFICES ASSUME DeliveryInv, DeliveryInv', [DNext]_dvars PROVE [Promise!Next]_Promise!avars
  OBVIOUS
<1>0. DTypeOK /\ DTypeOK' /\ HandInv /\ CursorInv'
  BY DEF DeliveryInv
<1> DEFINE old == [s \in Sinks |-> durable[s] \cup exposed[s]]
           new == [s \in Sinks |-> durable'[s] \cup exposed'[s]]
           from == [s \in Sinks |-> disk[Pair(s)]]
           to == [s \in Sinks |-> disk'[Pair(s)]]
<1>1. CASE disk' = disk
  <2>1. new \in [Sinks -> SUBSET Rows]
    BY <1>0 DEF DTypeOK
  <2>2. \A s \in Sinks : old[s] \subseteq new[s]
    BY <1>0, StoredGrows
  <2>3. to = from
    BY <1>1
  <2> QED
    BY <2>1, <2>2, <2>3 DEF Promise!Next, Promise!Deliver
<1>2. CASE disk' # disk
  <2>1. new = old
    BY <1>0, <1>2, CommitStoresNothing
  <2>2. to \in [Sinks -> Cursor]
    BY <1>0, PairFacts DEF DTypeOK, TypeOK
  <2>3. \A s \in Sinks : from[s] <= to[s]
    BY <1>0, TickStep DEF DeliveryInv
  <2>4. \A s \in Sinks : \A r \in Rows : r < to[s] => r \in new[s]
    BY <1>0 DEF CursorInv, Stored
  <2> QED
    BY <2>1, <2>2, <2>3, <2>4 DEF Promise!Next, Promise!Advance, Promise!Below
<1> QED
  BY <1>1, <1>2

\* The pipeline implements AtLeastOnce: in addition to NoLoss no step, crash
\* or restart moves a persisted cursor back, and nothing stored is withdrawn.
THEOREM DeliveryRefines == DSpec => DeliversAtLeastOnce
BY PromiseInit, PromiseStep, DeliveryInvAlways, PTL DEF DSpec, DeliversAtLeastOnce, Promise!Spec

-----------------------------------------------------------------------------
(* A run that reports its end has ended: EofIsComplete.                      *)


\* A process that has just started.
LEMMA StartEnds ==
    ASSUME NEW b, Memory(b), Open
    PROVE  StopInv' /\ \A s \in Sinks : BranchEnds(s)'
<1>1. StopInv'
  BY DEF Memory, StopInv
<1>2. ASSUME NEW s \in Sinks PROVE BranchEnds(s)'
  BY DEF Memory, BranchEnds
<1> QED
  BY <1>1, <1>2

\* The steps by which the source loop reaches its end.
LEMMA SourceKeepsStop ==
    ASSUME DTypeOK, HandInv, StopInv, running, SourceStep
    PROVE  StopInv'
<1> USE BlockFacts DEF StopInv
<1>1. CASE Query
  <2>1. UNCHANGED <<phase, ended, stop, cursor, feed, fan, live>>
    BY <1>1 DEF Query, runVars, fanVars
  <2>2. loop' = "eof" => cursor = ToBlock
    BY <1>1 DEF Query, DTypeOK
  <2>3. loop # "done"
    BY <1>1 DEF Query
  <2> QED
    BY <2>1, <2>2, <2>3
<1>2. CASE SendChunk
  <2>1. UNCHANGED <<phase, ended, stop, fan, live>> /\ loop = "page"
    BY <1>2 DEF SendChunk, runVars, fanVars
  <2>2. loop' = "eof" => cursor' = ToBlock
    BY <1>2 DEF SendChunk, Send, After, DTypeOK
  <2> QED
    BY <2>1, <2>2
<1>3. CASE EmptyPage
  <2>1. UNCHANGED <<phase, ended, stop, fan, live>> /\ loop = "page"
    BY <1>3 DEF EmptyPage, runVars, fanVars
  <2>2. loop' = "eof" => cursor' = ToBlock
    BY <1>3 DEF EmptyPage, After, DTypeOK
  <2> QED
    BY <2>1, <2>2
<1>4. CASE SendEof
  BY <1>4 DEF SendEof, Send, runVars, fanVars
<1>5. CASE SourceStops
  BY <1>5 DEF SourceStops, runVars, fanVars
<1> QED
  BY <1>1, <1>2, <1>3, <1>4, <1>5 DEF SourceStep

\* The stop flag and the end of the loop and of the fan-out, kept by every step
\* of a running process.
LEMMA StopStep ==
    ASSUME DTypeOK, HandInv, StopInv, running, running', [DNext]_dvars
    PROVE  StopInv'
<1>1. CASE SourceStep
  BY <1>1, SourceKeepsStop
<1>2. ASSUME UNCHANGED <<runVars, sourceVars, fanVars>> PROVE StopInv'
  BY <1>2 DEF StopInv, runVars, sourceVars, fanVars
<1>3. CASE FanStep
  <2>1. CASE FanRecv \/ FanEnds
    BY <2>1 DEF FanRecv, FanEnds, StopInv, runVars, sourceVars
  <2>2. ASSUME NEW s \in Sinks, FanSend(s) \/ FanDrop(s) PROVE StopInv'
    BY <2>2 DEF FanSend, FanDrop, StopInv, runVars, sourceVars
  <2>3. CASE FanSent
    BY <2>3 DEF FanSent, StopInv
  <2> QED
    BY <1>3, <2>1, <2>2, <2>3 DEF FanStep
<1>4. ASSUME NEW s \in Sinks, SinkStep(s) PROVE StopInv'
  BY <1>2, <1>4 DEF SinkStep, WriteReturns, Recv, Retry, Checkout, WriteOk, WriteErr, WriteTrap, WritePanic,
                    AckBatch, SinkEnds
<1>5. CASE Tick
  BY <1>2, <1>5 DEF Tick
<1>6. CASE CheckpointStep
  <2>1. UNCHANGED <<phase, ended, stop, sourceVars, fanVars>>
    BY <1>6 DEF CheckpointStep, PersistStep, FlushOk, FlushErr, runVars
  <2> QED
    BY <2>1 DEF StopInv, sourceVars, fanVars
<1>7. CASE Signal \/ AllDone
  <2>1. phase' = "ending" /\ UNCHANGED <<sourceVars, fanVars>>
    BY <1>7 DEF Signal, AllDone, Ending
  <2> QED
    BY <2>1 DEF StopInv, sourceVars, fanVars
<1>8. CASE FinalTick
  <2>1. phase' = "final" /\ UNCHANGED <<sourceVars, fanVars>>
    BY <1>8 DEF FinalTick
  <2> QED
    BY <2>1 DEF StopInv, sourceVars, fanVars
<1>9. CASE Exit \/ Kill \/ Restart
  BY <1>9 DEF Exit, Kill, Restart, Shutdown, Crash, Halt, Open
<1>10. CASE UNCHANGED dvars
  BY <1>2, <1>10 DEF dvars, deliveryVars
<1> QED
  BY <1>1, <1>3, <1>4, <1>5, <1>6, <1>7, <1>8, <1>9, <1>10 DEF DNext

-----------------------------------------------------------------------------
(* One branch.                                                               *)

\* A step that leaves the way to the sink as it is.
LEMMA EndFrame ==
    ASSUME NEW s \in Sinks, BranchEnds(s),
           UNCHANGED <<feed, fan, fanTodo>>, inbox'[s] = inbox[s], task'[s] = task[s],
           cursors'[Pair(s)] = cursors[Pair(s)],
           (phase' = "run" /\ loop' = "done") => (phase = "run" /\ loop = "done"),
           ended' = ended
    PROVE  BranchEnds(s)'
BY DEF BranchEnds, EndReaches

\* The source loop: only the batch that ends the range is followed by its end.
LEMMA SourceEnds ==
    ASSUME DTypeOK, HandInv, StopInv, running, NEW s \in Sinks \ paused, BranchEnds(s), SourceStep
    PROVE  BranchEnds(s)'
<1>0. /\ UNCHANGED <<phase, ended, stop, fan, fanTodo, live, inbox, task, cursors>>
      /\ loop # "done"
  BY DEF SourceStep, Query, SendChunk, EmptyPage, SendEof, SourceStops, runVars, fanVars, sinkVars, vars, cursorVars
<1>1. ASSUME loop' # "done" PROVE BranchEnds(s)'
  BY <1>0, <1>1 DEF BranchEnds
<1>2. CASE Query \/ SendChunk \/ EmptyPage
  <2>1. loop' # "done"
    BY <1>2 DEF Query, SendChunk, Send, EmptyPage, After
  <2> QED
    BY <1>1, <2>1
<1>3. CASE SourceStops
  <2>1. s \in live /\ stop
    BY <1>3 DEF SourceStops, HandInv
  <2>2. phase # "run"
    BY <2>1 DEF StopInv
  <2> QED
    BY <1>0, <2>2 DEF BranchEnds
<1>4. CASE SendEof
  <2> DEFINE m == [rows |-> {}, ack |-> cursor]
  <2>1. feed \in Seq(Batch) /\ m \in Batch /\ feed' = Append(feed, m) /\ m.ack = ToBlock
    BY <1>4 DEF SendEof, Send, DTypeOK, Batch, StopInv
  <2>2. Len(feed) \in Nat /\ DOMAIN feed' = 1..(Len(feed) + 1) /\ feed'[Len(feed) + 1] = m
    BY <2>1, ChannelAppend
  <2>3. fan = "send" => Len(feed) # 0
    BY <2>1, EmptySeq DEF HandInv
  <2>4. Len(feed) + 1 \in DOMAIN feed' /\ (fan = "send" => Len(feed) + 1 # 1)
    BY <2>2, <2>3
  <2>5. EndReaches(s)'
    BY <1>0, <2>1, <2>2, <2>4 DEF EndReaches
  <2> QED
    BY <1>0, <2>5 DEF BranchEnds
<1> QED
  BY <1>2, <1>3, <1>4 DEF SourceStep

\* The fan-out hands the batch on to every branch that is left.
LEMMA FanEndsBranch ==
    ASSUME DTypeOK, HandInv, StopInv, running, NEW s \in Sinks \ paused, BranchEnds(s), FanStep
    PROVE  BranchEnds(s)'
<1>0. UNCHANGED <<phase, ended, loop, task, cursors>> /\ fan # "done" /\ s \in live
  BY DEF FanStep, FanRecv, FanSend, FanDrop, FanSent, FanEnds, runVars, sourceVars, sinkVars, vars, cursorVars, HandInv
<1>1. task[s] # "done"
  BY <1>0 DEF BranchEnds
<1>2. ASSUME EndReaches(s) => EndReaches(s)' PROVE BranchEnds(s)'
  BY <1>0, <1>1, <1>2 DEF BranchEnds
<1>3. CASE FanRecv
  <2>1. fanTodo' = live /\ fan = "recv" /\ UNCHANGED <<feed, inbox, cursors>>
    BY <1>3 DEF FanRecv, sourceVars, sinkVars, vars, cursorVars
  <2> QED
    BY <1>0, <1>2, <2>1 DEF EndReaches
<1>4. CASE FanEnds
  <2>1. fan = "recv" /\ UNCHANGED <<feed, inbox, cursors>> /\ fan' = "done"
    BY <1>4 DEF FanEnds, sourceVars, sinkVars, vars, cursorVars
  <2> QED
    BY <1>2, <2>1 DEF EndReaches
<1>5. ASSUME NEW t \in Sinks, FanDrop(t) PROVE BranchEnds(s)'
  <2>1. UNCHANGED <<feed, inbox, cursors, fan>> /\ fanTodo' = fanTodo \ {t} /\ t # s
    BY <1>5 DEF FanDrop, sourceVars, sinkVars, vars, cursorVars
  <2> QED
    BY <1>2, <2>1 DEF EndReaches
<1>6. ASSUME NEW t \in Sinks, FanSend(t) PROVE BranchEnds(s)'
  <2>1. UNCHANGED <<feed, cursors, fan>> /\ fanTodo' = fanTodo \ {t} /\ fan = "send"
    BY <1>6 DEF FanSend, sourceVars, vars, cursorVars
  <2>2. CASE t # s
    <3>1. inbox'[s] = inbox[s]
      BY <1>6, <2>2 DEF FanSend, DTypeOK
    <3> QED
      BY <1>2, <2>1, <2>2, <3>1 DEF EndReaches
  <2>3. CASE t = s
    <3>1. feed \in Seq(Batch) /\ feed # <<>> /\ inbox[s] \in Seq(Batch)
      BY <2>1 DEF HandInv, DTypeOK
    <3>2. Head(feed) = feed[1] /\ feed[1] \in Batch
      BY <3>1, ChannelTail
    <3>3. inbox'[s] = Append(inbox[s], feed[1])
      BY <1>6, <2>3, <3>2 DEF FanSend, DTypeOK
    <3>4. /\ Len(inbox[s]) \in Nat /\ DOMAIN inbox[s] = 1..Len(inbox[s])
          /\ DOMAIN inbox'[s] = 1..(Len(inbox[s]) + 1)
          /\ \A i \in 1..Len(inbox[s]) : inbox'[s][i] = inbox[s][i]
          /\ inbox'[s][Len(inbox[s]) + 1] = feed[1]
      BY <3>1, <3>2, <3>3, ChannelAppend
    <3>5. DOMAIN inbox[s] \subseteq DOMAIN inbox'[s] /\ Len(inbox[s]) + 1 \in DOMAIN inbox'[s]
      BY <3>4
    <3>6. CASE \E i \in DOMAIN inbox[s] : inbox[s][i].ack = ToBlock
      BY <1>2, <3>4, <3>5, <3>6 DEF EndReaches
    <3>7. CASE feed[1].ack = ToBlock
      BY <1>2, <3>4, <3>5, <3>7 DEF EndReaches
    <3>8. CASE \E i \in DOMAIN feed : i # 1 /\ feed[i].ack = ToBlock
      BY <1>2, <2>1, <3>8 DEF EndReaches
    <3>9. CASE cursors[Pair(s)] = ToBlock
      BY <1>2, <2>1, <3>9 DEF EndReaches
    <3> QED
      BY <1>2, <3>6, <3>7, <3>8, <3>9 DEF EndReaches
  <2> QED
    BY <2>2, <2>3
<1>7. CASE FanSent
  <2>1. /\ fan = "send" /\ fanTodo = {} /\ feed' = Tail(feed) /\ fan' # "send"
        /\ UNCHANGED <<inbox, cursors>>
    BY <1>7 DEF FanSent, sinkVars, vars, cursorVars
  <2>2. feed \in Seq(Batch) /\ feed # <<>>
    BY <2>1 DEF HandInv, DTypeOK
  <2>3. /\ Len(feed) \in Nat \ {0} /\ DOMAIN feed = 1..Len(feed) /\ DOMAIN feed' = 1..(Len(feed) - 1)
        /\ \A i \in 1..(Len(feed) - 1) : feed'[i] = feed[i + 1]
    BY <2>1, <2>2, ChannelTail
  <2>4. ASSUME NEW i \in DOMAIN feed, feed[i].ack = ToBlock, i # 1 PROVE EndReaches(s)'
    <3>1. i - 1 \in 1..(Len(feed) - 1) /\ (i - 1) + 1 = i
      BY <2>3, <2>4
    <3>2. i - 1 \in DOMAIN feed' /\ feed'[i - 1] = feed[i]
      BY <2>3, <3>1
    <3> QED
      BY <2>1, <2>4, <3>2 DEF EndReaches
  <2>5. EndReaches(s) => EndReaches(s)'
    BY <2>1, <2>4 DEF EndReaches
  <2> QED
    BY <1>2, <2>5
<1> QED
  BY <1>3, <1>4, <1>5, <1>6, <1>7 DEF FanStep

\* The sink's own steps: the ack of a batch that ends the range takes the
\* watermark to it, and a task returns only when its channel is closed.
LEMMA SinkEndsBranch ==
    ASSUME DTypeOK, HandInv, HandInv', StopInv, running, NEW t \in Sinks, SinkStep(t),
           NEW s \in Sinks \ paused, s \notin paused', BranchEnds(s)
    PROVE  BranchEnds(s)'
<1>0. UNCHANGED <<phase, ended, loop, feed, fan, fanTodo>>
  BY DEF SinkStep, WriteReturns, Recv, Retry, Checkout, WriteOk, WriteErr, WriteTrap, WritePanic,
         AckBatch, SinkEnds, runVars, sourceVars, fanVars
<1>1. CASE s # t
  BY <1>0, <1>1, SinkLocal, EndFrame
<1>2. CASE s = t /\ (Recv(t) \/ Retry(t) \/ WriteReturns(t))
  <2>1. task[s] # "done" /\ task'[s] # "done"
    <3>1. CASE Recv(t) \/ Retry(t) \/ WriteOk(t)
      BY <1>2, <3>1 DEF Recv, Retry, Checkout, WriteOk, TaskRuns, DTypeOK
    <3>2. CASE WriteErr(t) \/ WriteTrap(t) \/ WritePanic(t)
      BY <1>2, <3>2 DEF WriteErr, WriteTrap, WritePanic, Failed, TaskRuns, DTypeOK
    <3> QED
      BY <1>2, <3>1, <3>2 DEF WriteReturns
  <2>2. inbox'[s] = inbox[s] /\ cursors' = cursors
    <3>1. CASE Recv(t) \/ Retry(t) \/ WriteOk(t)
      BY <3>1 DEF Recv, Retry, Checkout, WriteOk, vars, cursorVars
    <3>2. ~TaskReturns(t)
      BY <1>2 DEF TaskReturns, Pause
    <3>3. CASE WriteErr(t) \/ WriteTrap(t) \/ WritePanic(t)
      BY <3>2, <3>3 DEF WriteErr, WriteTrap, WritePanic, Failed, vars, cursorVars
    <3> QED
      BY <1>2, <3>1, <3>3 DEF WriteReturns
  <2> QED
    BY <1>0, <2>1, <2>2 DEF BranchEnds, EndReaches
<1>3. CASE s = t /\ AckBatch(t)
  <2>1. inbox[s] \in Seq(Batch) /\ inbox[s] # <<>> /\ task[s] = "written" /\ task'[s] = "recv"
    BY <1>3 DEF AckBatch, TaskRuns, HandInv, DTypeOK
  <2>2. /\ Len(inbox[s]) \in Nat \ {0} /\ DOMAIN inbox[s] = 1..Len(inbox[s])
        /\ DOMAIN Tail(inbox[s]) = 1..(Len(inbox[s]) - 1)
        /\ \A i \in 1..(Len(inbox[s]) - 1) : Tail(inbox[s])[i] = inbox[s][i + 1]
        /\ Head(inbox[s]) = inbox[s][1] /\ inbox[s][1] \in Batch
    BY <2>1, ChannelTail
  <2>3. inbox'[s] = Tail(inbox[s])
    BY <1>3 DEF AckBatch, DTypeOK
  <2>4. cursors'[Pair(s)] = Greatest(cursors[Pair(s)], inbox[s][1].ack)
    BY <1>3, <2>2, PairFacts, AckValue DEF AckBatch, DTypeOK
  <2>5. /\ cursors[Pair(s)] \in Int /\ cursors[Pair(s)] <= ToBlock
        /\ inbox[s][1].ack \in Int /\ inbox[s][1].ack <= ToBlock
    <3>1. cursors[Pair(s)] \in Cursor
      BY PairFacts DEF DTypeOK, TypeOK
    <3> QED
      BY <2>2, <3>1, BlockFacts DEF Cursor, Absent, Batch
  <2>6. ASSUME NEW i \in DOMAIN inbox[s], inbox[s][i].ack = ToBlock PROVE EndReaches(s)'
    <3>1. CASE i = 1
      BY <2>4, <2>5, <2>6, <3>1 DEF EndReaches, Greatest
    <3>2. CASE i # 1
      <4>1. i - 1 \in 1..(Len(inbox[s]) - 1) /\ (i - 1) + 1 = i
        BY <2>2, <3>2
      <4>2. i - 1 \in DOMAIN inbox'[s] /\ inbox'[s][i - 1] = inbox[s][i]
        BY <2>2, <2>3, <4>1
      <4> QED
        BY <2>6, <4>2 DEF EndReaches
    <3> QED
      BY <3>1, <3>2
  <2>7. cursors[Pair(s)] = ToBlock => cursors'[Pair(s)] = ToBlock
    BY <2>4, <2>5 DEF Greatest
  <2>8. EndReaches(s) => EndReaches(s)'
    BY <1>0, <2>6, <2>7 DEF EndReaches
  <2> QED
    BY <1>0, <2>1, <2>8 DEF BranchEnds
<1>4. CASE s = t /\ SinkEnds(t)
  <2>1. /\ inbox[s] = <<>> /\ fan = "done" /\ inbox' = inbox /\ cursors' = cursors
        /\ task[s] = "recv"
    BY <1>4 DEF SinkEnds, TaskRuns, SendersGone, vars, cursorVars
  <2> QED
    BY <1>0, <2>1 DEF BranchEnds, EndReaches
<1> QED
  BY <1>1, <1>2, <1>3, <1>4 DEF SinkStep

\* Every task has returned, so the end of the range has been acked.
LEMMA AllDoneEnds ==
    ASSUME DTypeOK, HandInv, StopInv, running, NEW s \in Sinks \ paused, BranchEnds(s), AllDone
    PROVE  BranchEnds(s)'
<1>1. /\ loop = "done" /\ fan = "done" /\ phase = "run" /\ phase' = "ending" /\ task[s] = "done"
      /\ UNCHANGED <<fan, inbox, task>>
  BY DEF AllDone, Ending, fanVars, sinkVars
<1>2. s \in live
  BY DEF HandInv
<1>3. feed = <<>> /\ inbox[s] = <<>>
  BY <1>1, <1>2 DEF StopInv, BranchEnds
<1>4. cursors[Pair(s)] = ToBlock
  BY <1>1, <1>3 DEF BranchEnds, EndReaches
<1>5. cursors' = cursors
  BY DEF AllDone, Ending, CheckpointAborted, RollBack, vars, cursorVars
<1> QED
  BY <1>1, <1>3, <1>4, <1>5 DEF BranchEnds

\* Every step of a running process keeps what is known of a branch.
LEMMA BranchStep ==
    ASSUME DTypeOK, HandInv, HandInv', StopInv, running, running', [DNext]_dvars,
           NEW s \in Sinks \ paused, s \notin paused', BranchEnds(s)
    PROVE  BranchEnds(s)'
<1>1. CASE SourceStep
  BY <1>1, SourceEnds
<1>2. CASE FanStep
  BY <1>2, FanEndsBranch
<1>3. ASSUME NEW t \in Sinks, SinkStep(t) PROVE BranchEnds(s)'
  BY <1>3, SinkEndsBranch
<1>4. CASE Tick \/ FinalTick
  <2>1. /\ UNCHANGED <<ended, feed, fan, fanTodo, inbox, task, cursors, loop>>
        /\ phase' = "run" => phase = "run"
    BY <1>4 DEF Tick, FinalTick, Snapshot, runVars, sourceVars, fanVars, sinkVars, cursorVars
  <2> QED
    BY <2>1, EndFrame
<1>5. CASE CheckpointStep
  <2>1. UNCHANGED <<phase, ended, feed, fan, fanTodo, inbox, task, loop>>
    BY <1>5 DEF CheckpointStep, PersistStep, FlushOk, FlushErr, runVars, sourceVars, fanVars, sinkVars
  <2>2. cursors' = cursors
    BY <1>5 DEF CheckpointStep, PersistStep, Persist, FlushOk, FlushErr, FlushFails, PersistBegin, ReadFloor, InsertRow,
                Commit, PersistFails, RollBack, vars, cursorVars
  <2> QED
    BY <2>1, <2>2, EndFrame
<1>6. CASE Signal
  <2>1. /\ phase' = "ending" /\ ended' = "signal" /\ UNCHANGED <<fan, inbox, task>>
    BY <1>6 DEF Signal, Ending, fanVars, sinkVars
  <2> QED
    BY <2>1 DEF BranchEnds
<1>7. CASE AllDone
  BY <1>7, AllDoneEnds
<1>8. CASE Exit \/ Kill \/ Restart
  BY <1>8 DEF Exit, Kill, Restart, Shutdown, Crash, Halt, Open
<1>9. CASE UNCHANGED dvars
  BY <1>9, EndFrame DEF dvars, deliveryVars, runVars, sourceVars, fanVars, sinkVars, vars, cursorVars
<1> QED
  BY <1>1, <1>2, <1>3, <1>4, <1>5, <1>6, <1>7, <1>8, <1>9 DEF DNext

-----------------------------------------------------------------------------
\* The way of the end of the range to each branch, in every behaviour.
LEMMA EndInvAlways == DSpec => []EndInv
<1>1. DInit => EndInv
  BY DEF DInit, EndInv, StopInv, BranchEnds
<1>2. DeliveryInv /\ DeliveryInv' /\ EndInv /\ [DNext]_dvars => EndInv'
  <2> SUFFICES ASSUME DeliveryInv, DeliveryInv', EndInv, [DNext]_dvars, running'
               PROVE  StopInv' /\ \A s \in Sinks \ paused' : BranchEnds(s)'
    BY DEF EndInv
  <2>0. DTypeOK /\ HandInv /\ HandInv'
    BY DEF DeliveryInv
  <2>1. [QuietNext]_vars
    BY <2>0, StoreStepQuiet
  <2>2. CASE running
    <3>1. paused \subseteq paused'
      BY <2>1, <2>2, PausedGrows
    <3>2. StopInv /\ \A s \in Sinks \ paused : BranchEnds(s)
      BY <2>2 DEF EndInv
    <3>3. StopInv'
      BY <2>0, <2>2, <3>2, StopStep
    <3>4. ASSUME NEW s \in Sinks \ paused' PROVE BranchEnds(s)'
      <4>1. s \in Sinks \ paused /\ s \notin paused' /\ BranchEnds(s)
        BY <3>1, <3>2, <3>4
      <4> QED
        BY <2>0, <2>2, <3>2, <4>1, BranchStep
    <3> QED
      BY <3>3, <3>4
  <2>3. CASE ~running
    <3>1. Restart
      BY <2>3, StartIsRestart
    <3> QED
      BY <3>1, StartEnds DEF Restart
  <2> QED
    BY <2>2, <2>3
<1> QED
  BY <1>1, <1>2, DeliveryInvAlways, PTL DEF DSpec

\* When run returns because every task has returned, every branch that is not
\* paused has acked the whole range and holds or has stored every row of it:
\* no branch is truncated behind a clean end, however branches pause, writes
\* fail and the bounded channels fill (fan_out, source_task, sink_task, run).
THEOREM DeliveryEofIsComplete == DSpec => []EofIsComplete
<1>1. DeliveryInv /\ EndInv => EofIsComplete
  <2> SUFFICES ASSUME DeliveryInv, EndInv, running, ended = "eof", NEW s \in Sinks \ paused
               PROVE  /\ cursors[Pair(s)] = ToBlock
                      /\ Rows \subseteq durable[s] \cup Held(pool[s]) \cup exposed[s]
    BY DEF EofIsComplete
  <2>1. task[s] = "done" /\ cursors[Pair(s)] = ToBlock
    BY DEF EndInv, BranchEnds
  <2>2. out[s].rows = {}
    BY <2>1 DEF DeliveryInv, HandInv, FreshSlot
  <2>3. ASSUME NEW r \in Rows PROVE r \in durable[s] \cup Held(pool[s]) \cup exposed[s]
    <3>1. r < cursors[Pair(s)]
      BY <2>1, BlockFacts
    <3>2. Safe(s, r)
      BY <3>1 DEF DeliveryInv, CursorInv
    <3> QED
      BY <2>2, <3>2 DEF Safe, Stored, Held
  <2> QED
    BY <2>1, <2>3
<1> QED
  BY <1>1, EndInvAlways, DeliveryInvAlways, PTL

=============================================================================

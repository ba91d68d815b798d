----------------------- MODULE CheckpointStoreProofs -----------------------
(* Proofs about CheckpointStore, for every set of sources, sinks, keys and
   blocks and for every bound. *)
EXTENDS CheckpointStore, TLAPS

\* Facts about the two orderings the store uses.
LEMMA LeastFacts ==
    ASSUME NEW a \in Int, NEW b \in Int
    PROVE  /\ Least(a, b) \in {a, b}
           /\ Least(a, b) <= a
           /\ Least(a, b) <= b
           /\ Greatest(a, b) \in {a, b}
           /\ Greatest(a, b) >= a
BY DEF Least, Greatest

\* Cursors are integers, none of them below Absent.
LEMMA CursorIsInt ==
    /\ Cursor \subseteq Int /\ Absent \in Cursor /\ Absent \in Int
    /\ \A c \in Cursor : c >= Absent
BY BlocksAssumption DEF Cursor, Absent

\* The empty tables have their types.
LEMMA EmptyTables ==
    NoRows \in [Pairs -> Cursor] /\ NoVersions \in [Keys -> Version \cup {Absent}]
BY CursorIsInt DEF NoRows, NoVersions

\* The store starts in its types.
LEMMA TypeInit == Init => TypeOK
BY BoundsAssumption, CursorIsInt DEF Init, TypeOK, NoRows, NoVersions, Version

\* Every action keeps the variables in their types.
LEMMA TypeStep == TypeOK /\ [Next]_vars => TypeOK'
<1> SUFFICES ASSUME TypeOK, [Next]_vars PROVE TypeOK'
  OBVIOUS
<1> USE BoundsAssumption, CursorIsInt
<1>1. ASSUME NEW p \in Pairs, NEW n \in Blocks, Ack(p, n) PROVE TypeOK'
  <2>1. Greatest(cursors[p], n) \in Cursor
    BY DEF TypeOK, Greatest, Cursor
  <2> QED
    BY <1>1, <2>1 DEF Ack, TypeOK, persistVars, kvVars, historyVars
<1>2. ASSUME NEW p \in Pairs, NEW n \in Blocks, RewindMemory(p, n) PROVE TypeOK'
  <2>1. (IF cursors[p] = Absent THEN n ELSE Least(cursors[p], n)) \in Cursor
    BY DEF TypeOK, Least, Cursor
  <2>2. n \in Cursor
    BY DEF Cursor
  <2> QED
    BY <1>2, <2>1, <2>2 DEF RewindMemory, TypeOK, persistVars, kvVars
<1>3. ASSUME NEW p \in Pairs, RewindUpdate(p) PROVE TypeOK'
  <2>1. Least(disk[p], rewinding[p]) \in Cursor
    BY DEF TypeOK, Least
  <2> QED
    BY <1>3, <2>1 DEF RewindUpdate, TypeOK, persistVars, kvVars
<1>4. ASSUME NEW p \in Pairs, RewindFails(p) PROVE TypeOK'
  <2>1. p[2] \in Sinks
    BY DEF Pairs
  <2> QED
    BY <1>4, <2>1 DEF RewindFails, TypeOK, persistVars, kvVars
<1>5. CASE Snapshot
  BY <1>5 DEF Snapshot, TypeOK, cursorVars, kvVars
<1>6. CASE FlushFails
  BY <1>6, EmptyTables DEF FlushFails, TypeOK, cursorVars, kvVars, historyVars
<1>7. CASE PersistBegin
  BY <1>7 DEF PersistBegin, TypeOK, cursorVars, historyVars, NoVersions
<1>8. ASSUME NEW p \in Pairs, ReadFloor(p) PROVE TypeOK'
  <2>1. Floor(p) \in Cursor
    BY DEF TypeOK, Floor, Least
  <2> QED
    BY <1>8, <2>1 DEF ReadFloor, TypeOK, cursorVars, kvVars, historyVars
<1>9. ASSUME NEW p \in Pairs, InsertRow(p) PROVE TypeOK'
  BY <1>9 DEF InsertRow, TypeOK, cursorVars, kvVars, historyVars, NoRows
<1>10. CASE Commit
  BY <1>10 DEF Commit, TypeOK, NoRows, NoVersions
<1>11. CASE PersistFails \/ CheckpointAborted
  BY <1>11 DEF PersistFails, CheckpointAborted, RollBack, TypeOK, cursorVars, NoRows, NoVersions
<1>12. ASSUME NEW k \in Keys, KvSet(k) PROVE TypeOK'
  <2>1. kvLast[k] + 1 \in Version
    BY <1>12 DEF KvSet, TypeOK, Version
  <2> QED
    BY <1>12, <2>1 DEF KvSet, TypeOK, cursorVars, persistVars
<1>13. ASSUME NEW k \in Keys, KvGetMiss(k) PROVE TypeOK'
  BY <1>13 DEF KvGetMiss, TypeOK, cursorVars, persistVars, historyVars
<1>14. ASSUME NEW k \in Keys, KvGetFill(k) PROVE TypeOK'
  BY <1>14 DEF KvGetFill, TypeOK, cursorVars, persistVars, historyVars
<1>15. CASE Crash \/ Shutdown
  <2>0. running' \in BOOLEAN
    BY <1>15, Zenon DEF Crash, Shutdown, Halt
  <2>1. rewinds' \in Nat /\ crashes' \in Nat
    BY <1>15 DEF Crash, Shutdown, Halt, TypeOK
  <2>2. /\ cursors' = NoRows /\ rewinding' = NoRows /\ snap' = NoRows
        /\ hand' = NoRows /\ txn' = NoRows /\ disk' = disk
        /\ kvDirty' = NoVersions /\ kvCache' = NoVersions
        /\ kvTxn' = NoVersions /\ filling' = NoVersions
        /\ kvDisk' = kvDisk /\ kvLast' = kvDisk /\ kvSnap' = kvSnap
    BY <1>15 DEF Crash, Shutdown, Halt
  <2>3. /\ paused' = {} /\ todo' = {} /\ stale' = {} /\ staleTxn' = {}
        /\ kvDropped' = {} /\ ckpt' = "idle"
    BY <1>15 DEF Crash, Shutdown, Halt
  <2> QED
    BY <2>0, <2>1, <2>2, <2>3, EmptyTables DEF TypeOK
<1>16. CASE Open
  BY <1>16 DEF Open, TypeOK, persistVars, kvVars, historyVars
<1>17. CASE UNCHANGED vars
  BY <1>17 DEF vars, cursorVars, persistVars, kvVars, historyVars, TypeOK
<1>18. ASSUME NEW s \in Sinks, Pause(s) PROVE TypeOK'
  BY <1>18 DEF Pause, TypeOK, persistVars, kvVars, historyVars
<1> QED
  BY <1>1, <1>2, <1>3, <1>4, <1>5, <1>6, <1>7, <1>8, <1>9, <1>10, <1>11,
     <1>12, <1>13, <1>14, <1>15, <1>16, <1>17, <1>18
     DEF Next, SinkNext, CheckpointNext, KvNext

\* The store's variables keep their types in every behaviour.
THEOREM StoreTyped == Spec => []TypeOK
BY TypeInit, TypeStep, PTL DEF Spec

-----------------------------------------------------------------------------
(* StoreInv speaks of one pair at a time: RowInv(p) is its part for p.       *)

\* What a pair has in each table is an integer.
LEMMA RowTypes ==
    ASSUME TypeOK, NEW p \in Pairs
    PROVE  /\ disk[p] \in Int /\ cursors[p] \in Int /\ rewinding[p] \in Int
           /\ txn[p] \in Int /\ hand[p] \in Int /\ snap[p] \in Int
           /\ cursors[p] >= Absent /\ disk[p] >= Absent
BY CursorIsInt DEF TypeOK

\* An ack raises the watermark of a pair with no rewind in flight.
LEMMA AckKeepsRows ==
    ASSUME TypeOK, NEW p \in Pairs, RowInv(p),
           NEW q \in Pairs, NEW n \in Blocks, Ack(q, n)
    PROVE  RowInv(p)'
<1>1. n \in Int
  BY BlocksAssumption
<1>2. cursors'[p] \in Int /\ cursors'[p] >= cursors[p]
  BY <1>1, RowTypes, LeastFacts DEF Ack, TypeOK, Greatest
<1>3. UNCHANGED <<disk, rewinding, txn, hand, stale, staleTxn>>
  BY DEF Ack, persistVars, historyVars
<1>4. Lowered(p, disk[p]) \in Int /\ Lowered(p, txn[p]) \in Int /\ Lowered(p, hand[p]) \in Int
  BY RowTypes DEF Lowered, Least
<1> QED
  BY <1>2, <1>3, <1>4, RowTypes DEF RowInv, Lowered

\* A rewind that starts lowers the watermark and bounds every pending value
\* by the same block.
LEMMA RewindMemoryKeepsRows ==
    ASSUME TypeOK, NEW p \in Pairs, RowInv(p),
           NEW q \in Pairs, NEW n \in Blocks, RewindMemory(q, n)
    PROVE  RowInv(p)'
<1>1. n \in Int /\ n >= 0
  BY BlocksAssumption
<1>2. UNCHANGED <<disk, txn, hand, stale, staleTxn>>
  BY DEF RewindMemory, persistVars
<1>3. CASE p # q
  <2>1. cursors'[p] = cursors[p] /\ rewinding'[p] = rewinding[p]
    BY <1>3 DEF RewindMemory, TypeOK
  <2> QED
    BY <1>2, <2>1 DEF RowInv, Lowered
<1>4. CASE p = q
  <2>1. rewinding[p] = Absent
    BY <1>4 DEF RewindMemory, SinkFree
  <2>2. rewinding'[p] = n
    BY <1>4 DEF RewindMemory, TypeOK
  <2>3. cursors'[p] = IF cursors[p] = Absent THEN n ELSE Least(cursors[p], n)
    BY <1>4 DEF RewindMemory, TypeOK
  <2> QED
    BY <1>1, <1>2, <2>1, <2>2, <2>3, RowTypes DEF RowInv, Lowered, Least, Absent
<1> QED
  BY <1>3, <1>4

\* The UPDATE of a rewind runs outside the transaction: either p has no row in
\* it, or the value in hand becomes stale.
LEMMA RewindUpdateKeepsRows ==
    ASSUME TypeOK, NEW p \in Pairs, RowInv(p), NEW q \in Pairs, RewindUpdate(q)
    PROVE  RowInv(p)'
<1>1. UNCHANGED <<cursors, txn, hand, stale>> /\ txn[p] = Absent
  BY DEF RewindUpdate, persistVars, WriteLocked
<1>2. CASE p # q
  <2>1. disk'[p] = disk[p] /\ rewinding'[p] = rewinding[p]
    BY <1>2 DEF RewindUpdate, TypeOK
  <2>2. p \in staleTxn' <=> p \in staleTxn
    BY <1>2 DEF RewindUpdate
  <2> QED
    BY <1>1, <2>1, <2>2 DEF RowInv, Lowered
<1>3. CASE p = q
  <2>1. disk'[p] = Least(disk[p], rewinding[p]) /\ rewinding'[p] = Absent /\ rewinding[p] # Absent
    BY <1>3 DEF RewindUpdate, TypeOK
  <2>2. hand[p] # Absent => p \in staleTxn'
    BY <1>3 DEF RewindUpdate, InTxn
  <2> QED
    BY <1>1, <2>1, <2>2 DEF RowInv, Lowered
<1> QED
  BY <1>2, <1>3

\* A rewind whose UPDATE fails leaves its pair stale.
LEMMA RewindFailsKeepsRows ==
    ASSUME TypeOK, NEW p \in Pairs, RowInv(p), NEW q \in Pairs, RewindFails(q)
    PROVE  RowInv(p)'
<1>1. UNCHANGED <<cursors, disk, txn, hand>>
  BY DEF RewindFails, persistVars
<1>2. CASE p # q
  <2>1. rewinding'[p] = rewinding[p]
    BY <1>2 DEF RewindFails, TypeOK
  <2>2. (p \in staleTxn' <=> p \in staleTxn) /\ (p \in stale' <=> p \in stale)
    BY <1>2 DEF RewindFails
  <2> QED
    BY <1>1, <2>1, <2>2 DEF RowInv, Lowered
<1>3. CASE p = q
  <2>1. p \in stale'
    BY <1>3 DEF RewindFails
  <2>2. (hand[p] # Absent \/ txn[p] # Absent) => p \in staleTxn'
    BY <1>3 DEF RewindFails, InTxn
  <2> QED
    BY <1>1, <2>1, <2>2 DEF RowInv
<1> QED
  BY <1>2, <1>3

\* The value read under the mutex is at most the watermark.
LEMMA ReadFloorKeepsRows ==
    ASSUME TypeOK, NEW p \in Pairs, RowInv(p), NEW q \in Pairs, ReadFloor(q),
           \A r \in Pairs : snap[r] # Absent => cursors[r] # Absent,
           \A r \in todo : snap[r] # Absent
    PROVE  RowInv(p)'
<1>1. UNCHANGED <<cursors, disk, txn, stale, staleTxn, rewinding>>
  BY DEF ReadFloor, cursorVars, historyVars
<1>2. CASE p # q
  <2>1. hand'[p] = hand[p]
    BY <1>2 DEF ReadFloor, TypeOK
  <2> QED
    BY <1>1, <2>1 DEF RowInv, Lowered
<1>3. CASE p = q
  <2>1. hand'[p] = Least(snap[p], cursors[p])
    BY <1>3 DEF ReadFloor, TypeOK, Floor
  <2>2. Lowered(p, hand'[p]) <= cursors[p]
    BY <2>1, RowTypes DEF Lowered, Least
  <2> QED
    BY <1>1, <2>2 DEF RowInv, Lowered
<1> QED
  BY <1>2, <1>3

\* The row inserted is the one in hand.
LEMMA InsertKeepsRows ==
    ASSUME TypeOK, NEW p \in Pairs, RowInv(p), NEW q \in Pairs, InsertRow(q)
    PROVE  RowInv(p)'
<1>1. UNCHANGED <<cursors, disk, stale, staleTxn, rewinding>> /\ hand'[p] = Absent
  BY DEF InsertRow, cursorVars, historyVars, NoRows
<1>2. txn'[p] = IF p = q THEN hand[p] ELSE txn[p]
  BY DEF InsertRow, TypeOK
<1>3. p = q => hand[p] # Absent
  BY DEF InsertRow
<1> QED
  BY <1>1, <1>2, <1>3 DEF RowInv, Lowered

\* The commit moves the transaction's rows into the table.
LEMMA CommitKeepsRows ==
    ASSUME TypeOK, NEW p \in Pairs, RowInv(p), Commit, hand[p] = Absent
    PROVE  RowInv(p)'
<1>1. UNCHANGED <<cursors, rewinding, hand>> /\ txn'[p] = Absent
  BY DEF Commit, NoRows
<1>2. disk'[p] = IF txn[p] = Absent THEN disk[p] ELSE txn[p]
  BY DEF Commit
<1>3. p \notin stale' => (p \notin staleTxn /\ (txn[p] # Absent \/ p \notin stale))
  BY DEF Commit
<1> QED
  BY <1>1, <1>2, <1>3 DEF RowInv, Lowered

\* The phases of the tick, preserved by every action.
LEMMA PhaseStep == TypeOK /\ PhaseInv /\ [Next]_vars => PhaseInv'
<1> SUFFICES ASSUME TypeOK, PhaseInv, [Next]_vars PROVE PhaseInv'
  OBVIOUS
<1>1. ASSUME NEW p \in Pairs, NEW n \in Blocks, Ack(p, n) PROVE PhaseInv'
  <2>1. n # Absent /\ Greatest(cursors[p], n) # Absent
    BY BlocksAssumption, RowTypes DEF Greatest, Absent
  <2>2. \A q \in Pairs : cursors[q] # Absent => cursors'[q] # Absent
    BY <1>1, <2>1 DEF Ack, TypeOK
  <2> QED
    BY <1>1, <2>2 DEF Ack, SinkFree, PhaseInv, persistVars
<1>2. ASSUME NEW p \in Pairs, NEW n \in Blocks, RewindMemory(p, n) PROVE PhaseInv'
  <2>1. n # Absent /\ (cursors[p] # Absent => Least(cursors[p], n) # Absent)
    BY BlocksAssumption, RowTypes DEF Least, Absent
  <2>2. \A q \in Pairs : cursors[q] # Absent => cursors'[q] # Absent
    BY <1>2, <2>1 DEF RewindMemory, TypeOK
  <2> QED
    BY <1>2, <2>2 DEF RewindMemory, SinkFree, PhaseInv, persistVars
<1>3. ASSUME NEW p \in Pairs, RewindUpdate(p) \/ RewindFails(p) PROVE PhaseInv'
  BY <1>3 DEF RewindUpdate, RewindFails, PhaseInv, persistVars
<1>4. CASE Snapshot
  <2>1. txn = NoRows /\ hand = NoRows /\ todo = {}
    BY <1>4 DEF Snapshot, PhaseInv
  <2>2. \A q \in Pairs : q \in todo => cursors[q] # Absent
    BY DEF PhaseInv
  <2> QED
    BY <1>4, <2>1, <2>2 DEF Snapshot, PhaseInv, cursorVars
<1>5. CASE FlushFails
  BY <1>5 DEF FlushFails, PhaseInv, cursorVars, NoRows
<1>6. CASE PersistBegin
  BY <1>6 DEF PersistBegin, PhaseInv, cursorVars, NoRows
<1>7. ASSUME NEW p \in Pairs, ReadFloor(p) PROVE PhaseInv'
  <2>1. \A q \in Pairs : hand'[q] # Absent => q \in todo
    BY <1>7 DEF ReadFloor, TypeOK, NoRows
  <2> QED
    BY <1>7, <2>1 DEF ReadFloor, PhaseInv, cursorVars
<1>8. ASSUME NEW p \in Pairs, InsertRow(p) PROVE PhaseInv'
  <2>1. ckpt = "rows"
    BY <1>8 DEF InsertRow, PhaseInv, NoRows
  <2>2. \A q \in Pairs : hand'[q] = Absent
    BY <1>8 DEF InsertRow, NoRows
  <2> QED
    BY <1>8, <2>1, <2>2 DEF InsertRow, PhaseInv, cursorVars
<1>9. CASE Commit
  <2>1. hand = NoRows
    BY <1>9 DEF Commit, PhaseInv, TypeOK, NoRows
  <2> QED
    BY <1>9, <2>1 DEF Commit, PhaseInv
<1>10. CASE PersistFails \/ CheckpointAborted
  BY <1>10 DEF PersistFails, CheckpointAborted, RollBack, PhaseInv, cursorVars, NoRows
<1>11. ASSUME NEW k \in Keys, KvSet(k) \/ KvGetMiss(k) \/ KvGetFill(k) PROVE PhaseInv'
  BY <1>11 DEF KvSet, KvGetMiss, KvGetFill, PhaseInv, cursorVars, persistVars
<1>12. CASE Crash \/ Shutdown
  BY <1>12 DEF Crash, Shutdown, Halt, PhaseInv, NoRows
<1>13. CASE Open
  BY <1>13 DEF Open, PhaseInv, persistVars, NoRows
<1>14. CASE UNCHANGED vars
  BY <1>14 DEF vars, cursorVars, persistVars, PhaseInv
<1>15. ASSUME NEW s \in Sinks, Pause(s) PROVE PhaseInv'
  BY <1>15 DEF Pause, PhaseInv, persistVars
<1> QED
  BY <1>1, <1>2, <1>3, <1>4, <1>5, <1>6, <1>7, <1>8, <1>9, <1>10, <1>11,
     <1>12, <1>13, <1>14, <1>15 DEF Next, SinkNext, CheckpointNext, KvNext

\* The rows of one pair, preserved by every action of a running process.
LEMMA RowStep ==
    ASSUME TypeOK, PhaseInv, [Next]_vars, running', NEW p \in Pairs,
           running => RowInv(p)
    PROVE  RowInv(p)'
<1>1. ASSUME NEW q \in Pairs, NEW n \in Blocks, Ack(q, n) PROVE RowInv(p)'
  BY <1>1, AckKeepsRows DEF Ack, SinkFree
<1>2. ASSUME NEW q \in Pairs, NEW n \in Blocks, RewindMemory(q, n) PROVE RowInv(p)'
  BY <1>2, RewindMemoryKeepsRows DEF RewindMemory, SinkFree
<1>3. ASSUME NEW q \in Pairs, RewindUpdate(q) PROVE RowInv(p)'
  BY <1>3, RewindUpdateKeepsRows DEF RewindUpdate
<1>4. ASSUME NEW q \in Pairs, RewindFails(q) PROVE RowInv(p)'
  BY <1>4, RewindFailsKeepsRows DEF RewindFails
<1>5. CASE Snapshot \/ FlushFails \/ PersistBegin
  BY <1>5 DEF Snapshot, FlushFails, PersistBegin, RowInv, Lowered, cursorVars, historyVars
<1>6. ASSUME NEW q \in Pairs, ReadFloor(q) PROVE RowInv(p)'
  BY <1>6, ReadFloorKeepsRows DEF ReadFloor, PhaseInv, TypeOK
<1>7. ASSUME NEW q \in Pairs, InsertRow(q) PROVE RowInv(p)'
  BY <1>7, InsertKeepsRows DEF InsertRow
<1>8. CASE Commit
  <2>1. hand[p] = Absent
    BY <1>8 DEF Commit, PhaseInv
  <2> QED
    BY <1>8, <2>1, CommitKeepsRows DEF Commit
<1>9. CASE PersistFails \/ CheckpointAborted
  <2>1. hand'[p] = Absent /\ txn'[p] = Absent
    BY <1>9 DEF PersistFails, CheckpointAborted, RollBack, NoRows
  <2> QED
    BY <1>9, <2>1 DEF PersistFails, CheckpointAborted, RollBack, RowInv, Lowered, cursorVars
<1>10. ASSUME NEW k \in Keys, KvSet(k) \/ KvGetMiss(k) \/ KvGetFill(k) PROVE RowInv(p)'
  BY <1>10 DEF KvSet, KvGetMiss, KvGetFill, RowInv, Lowered, cursorVars, persistVars, historyVars
<1>11. CASE Crash \/ Shutdown
  BY <1>11 DEF Crash, Shutdown, Halt
<1>12. CASE Open
  <2>1. rewinding'[p] = Absent /\ txn'[p] = Absent /\ hand'[p] = Absent
    BY <1>12 DEF Open, PhaseInv, persistVars, NoRows
  <2>2. cursors'[p] = disk'[p] /\ disk'[p] \in Int
    BY <1>12, RowTypes DEF Open
  <2> QED
    BY <2>1, <2>2 DEF RowInv, Lowered
<1>13. CASE UNCHANGED vars
  BY <1>13 DEF vars, cursorVars, persistVars, historyVars, RowInv, Lowered
<1>14. ASSUME NEW s \in Sinks, Pause(s) PROVE RowInv(p)'
  BY <1>14 DEF Pause, RowInv, Lowered, persistVars, historyVars
<1> QED
  BY <1>1, <1>2, <1>3, <1>4, <1>5, <1>6, <1>7, <1>8, <1>9, <1>10, <1>11,
     <1>12, <1>13, <1>14 DEF Next, SinkNext, CheckpointNext, KvNext

\* The induction hypothesis holds at the start.
LEMMA StoreInvInit == Init => StoreInv
<1> SUFFICES ASSUME Init PROVE StoreInv
  OBVIOUS
<1>1. TypeOK
  BY TypeInit
<1>2. PhaseInv
  BY DEF Init, PhaseInv, NoRows
<1>3. \A p \in Pairs : RowInv(p)
  BY DEF Init, RowInv, Lowered, NoRows, Absent
<1> QED
  BY <1>1, <1>2, <1>3 DEF StoreInv

\* Every action keeps the induction hypothesis.
LEMMA StoreInvStep == StoreInv /\ [Next]_vars => StoreInv'
<1> SUFFICES ASSUME StoreInv, [Next]_vars PROVE StoreInv'
  OBVIOUS
<1>1. TypeOK /\ PhaseInv /\ (running => \A p \in Pairs : RowInv(p))
  BY DEF StoreInv
<1>2. TypeOK'
  BY <1>1, TypeStep
<1>3. PhaseInv'
  BY <1>1, PhaseStep
<1>4. ASSUME running', NEW p \in Pairs PROVE RowInv(p)'
  BY <1>1, <1>4, RowStep
<1> QED
  BY <1>2, <1>3, <1>4 DEF StoreInv

\* Once a rewind has returned, the persisted cursor is not ahead of the
\* watermark, except for the pairs in stale.
THEOREM StoreRewindSticks == Spec => []RewindSticks
<1>1. StoreInv => RewindSticks
  BY DEF StoreInv, RowInv, RewindSticks, Lowered
<1> QED
  BY <1>1, StoreInvInit, StoreInvStep, PTL DEF Spec

-----------------------------------------------------------------------------
(* Module state.  KvInv speaks of one key at a time.                         *)

\* What a key has in each place is a version or nothing.
LEMMA KvTypes ==
    ASSUME TypeOK, NEW k \in Keys
    PROVE  /\ kvLast[k] \in Nat /\ kvDisk[k] \in Nat /\ kvSnap[k] \in Nat
           /\ kvDirty[k] \in Int /\ kvCache[k] \in Int /\ kvTxn[k] \in Int /\ filling[k] \in Int
BY BoundsAssumption DEF TypeOK, Version, Absent

\* Steps of the sinks, the start, and the steps of a tick between its drain and
\* its end touch no module state.
LEMMA KvQuiet ==
    ASSUME TypeOK, [Next]_vars
    PROVE  \/ UNCHANGED <<kvVars, kvLast, kvSnap, kvDropped, ckpt>>
           \/ Snapshot \/ FlushFails \/ PersistBegin \/ Commit
           \/ PersistFails \/ CheckpointAborted \/ Crash \/ Shutdown
           \/ \E k \in Keys : KvSet(k) \/ KvGetMiss(k) \/ KvGetFill(k)
<1> DEFINE Quiet == UNCHANGED <<kvVars, kvLast, kvSnap, kvDropped, ckpt>>
<1>1. ASSUME NEW p \in Pairs, NEW n \in Blocks, Ack(p, n) \/ RewindMemory(p, n) PROVE Quiet
  BY <1>1 DEF Ack, RewindMemory, persistVars, historyVars
<1>2. ASSUME NEW p \in Pairs, RewindUpdate(p) \/ RewindFails(p) PROVE Quiet
  BY <1>2 DEF RewindUpdate, RewindFails, persistVars
<1>3. ASSUME NEW p \in Pairs, ReadFloor(p) \/ InsertRow(p) PROVE Quiet
  BY <1>3 DEF ReadFloor, InsertRow, historyVars
<1>4. ASSUME NEW s \in Sinks, Pause(s) PROVE Quiet
  BY <1>4 DEF Pause, persistVars, historyVars
<1>5. CASE Open
  BY <1>5 DEF Open, persistVars, historyVars
<1>6. CASE UNCHANGED vars
  BY <1>6 DEF vars, persistVars, historyVars
<1> QED
  BY <1>1, <1>2, <1>3, <1>4, <1>5, <1>6 DEF Next, SinkNext, CheckpointNext, KvNext

\* The place of the last value of one key, preserved by every action.
LEMMA KvRowStep ==
    ASSUME TypeOK, [Next]_vars, NEW k \in Keys, KvRowInv(k)
    PROVE  KvRowInv(k)'
<1> USE KvTypes
<1>1. CASE UNCHANGED <<kvVars, kvLast, kvSnap, kvDropped, ckpt>>
  BY <1>1 DEF KvRowInv, kvVars
<1>2. CASE Snapshot
  <2>1. /\ ckpt = "idle" /\ ckpt' = "flushing" /\ kvSnap' = kvLast
        /\ UNCHANGED <<kvDirty, kvTxn, kvDisk, kvLast, kvDropped>>
    BY <1>2 DEF Snapshot, kvVars
  <2> QED
    BY <2>1 DEF KvRowInv
<1>3. CASE FlushFails
  <2>1. ckpt = "flushing" /\ ckpt' = "idle" /\ UNCHANGED <<kvDirty, kvTxn, kvDisk, kvLast, kvSnap, kvDropped>>
    BY <1>3 DEF FlushFails, kvVars, historyVars
  <2> QED
    BY <2>1 DEF KvRowInv
<1>4. CASE PersistBegin
  <2>1. /\ ckpt = "flushing" /\ kvTxn' = kvDirty /\ kvDirty'[k] = Absent
        /\ UNCHANGED <<kvDisk, kvLast, kvSnap, kvDropped>>
    BY <1>4 DEF PersistBegin, NoVersions, historyVars
  <2>2. ckpt' = "rows" \/ (ckpt' = "idle" /\ kvDirty[k] = Absent)
    BY <1>4 DEF PersistBegin, NoVersions
  <2> QED
    BY <2>1, <2>2 DEF KvRowInv
<1>5. CASE Commit
  <2>1. /\ ckpt = "rows" /\ ckpt' = "idle" /\ kvTxn'[k] = Absent
        /\ kvDisk'[k] = (IF kvTxn[k] = Absent THEN kvDisk[k] ELSE kvTxn[k])
        /\ k \notin kvDropped' => (k \notin kvDropped \/ kvTxn[k] # Absent)
        /\ UNCHANGED <<kvDirty, kvLast, kvSnap>>
    BY <1>5 DEF Commit, NoVersions
  <2> QED
    BY <2>1 DEF KvRowInv
<1>6. CASE PersistFails \/ CheckpointAborted
  <2>1. /\ ckpt' = "idle" /\ kvTxn'[k] = Absent
        /\ k \notin kvDropped' => (k \notin kvDropped /\ kvTxn[k] = Absent)
        /\ UNCHANGED <<kvDirty, kvDisk, kvLast, kvSnap>>
    BY <1>6 DEF PersistFails, CheckpointAborted, RollBack, NoVersions
  <2> QED
    BY <2>1 DEF KvRowInv
<1>7. CASE Crash \/ Shutdown
  <2>1. /\ ckpt' = "idle" /\ kvTxn'[k] = Absent /\ kvDirty'[k] = Absent
        /\ kvLast' = kvDisk /\ kvDisk' = kvDisk /\ kvSnap' = kvSnap
    BY <1>7 DEF Crash, Shutdown, Halt, NoVersions
  <2> QED
    BY <2>1 DEF KvRowInv
<1>8. ASSUME NEW j \in Keys, KvSet(j) PROVE KvRowInv(k)'
  <2>1. UNCHANGED <<ckpt, kvDisk, kvTxn, kvSnap, kvDropped>>
    BY <1>8 DEF KvSet, persistVars
  <2>2. CASE j = k
    <3>1. kvLast'[k] = kvLast[k] + 1 /\ kvDirty'[k] = kvLast[k] + 1
      BY <1>8, <2>2 DEF KvSet, TypeOK
    <3> QED
      BY <2>1, <3>1 DEF KvRowInv, Absent
  <2>3. CASE j # k
    <3>1. kvLast'[k] = kvLast[k] /\ kvDirty'[k] = kvDirty[k]
      BY <1>8, <2>3 DEF KvSet, TypeOK
    <3> QED
      BY <2>1, <3>1 DEF KvRowInv
  <2> QED
    BY <2>2, <2>3
<1>9. ASSUME NEW j \in Keys, KvGetMiss(j) \/ KvGetFill(j) PROVE KvRowInv(k)'
  <2>1. UNCHANGED <<ckpt, kvDirty, kvLast, kvDisk, kvTxn, kvSnap, kvDropped>>
    BY <1>9 DEF KvGetMiss, KvGetFill, persistVars, historyVars
  <2> QED
    BY <2>1 DEF KvRowInv
<1> QED
  BY <1>1, <1>2, <1>3, <1>4, <1>5, <1>6, <1>7, <1>8, <1>9, KvQuiet

\* The cache of a key with one caller, preserved by every action.
LEMMA KvSerialStep ==
    ASSUME TypeOK, [Next]_vars, NEW k \in SerialKeys, KvSerialInv(k)
    PROVE  KvSerialInv(k)'
<1>0. k \in Keys
  BY BoundsAssumption
<1> USE KvTypes, <1>0
<1>1. CASE UNCHANGED <<kvVars, kvLast, kvSnap, kvDropped, ckpt>>
  BY <1>1 DEF KvSerialInv, kvVars
<1>2. CASE Snapshot \/ FlushFails
  <2>1. UNCHANGED <<kvDirty, kvCache, kvTxn, kvDisk, filling, kvLast>>
    BY <1>2 DEF Snapshot, FlushFails, kvVars, historyVars
  <2> QED
    BY <2>1 DEF KvSerialInv
<1>4. CASE PersistBegin
  <2>1. /\ kvTxn' = kvDirty /\ kvDirty'[k] = Absent
        /\ UNCHANGED <<kvCache, kvDisk, filling, kvLast>>
    BY <1>4 DEF PersistBegin, NoVersions, historyVars
  <2> QED
    BY <2>1 DEF KvSerialInv
<1>5. CASE Commit
  <2>1. /\ kvTxn'[k] = Absent
        /\ kvDisk'[k] = (IF kvTxn[k] = Absent THEN kvDisk[k] ELSE kvTxn[k])
        /\ UNCHANGED <<kvDirty, kvCache, filling, kvLast>>
    BY <1>5 DEF Commit, NoVersions
  <2> QED
    BY <2>1 DEF KvSerialInv
<1>6. CASE PersistFails \/ CheckpointAborted
  <2>1. kvTxn'[k] = Absent /\ UNCHANGED <<kvDirty, kvCache, kvDisk, filling, kvLast>>
    BY <1>6 DEF PersistFails, CheckpointAborted, RollBack, NoVersions
  <2> QED
    BY <2>1 DEF KvSerialInv
<1>7. CASE Crash \/ Shutdown
  <2>1. /\ kvTxn'[k] = Absent /\ kvDirty'[k] = Absent /\ kvCache'[k] = Absent /\ filling'[k] = Absent
        /\ kvLast' = kvDisk /\ kvDisk' = kvDisk
    BY <1>7 DEF Crash, Shutdown, Halt, NoVersions
  <2> QED
    BY <2>1 DEF KvSerialInv
<1>8. ASSUME NEW j \in Keys, KvSet(j) PROVE KvSerialInv(k)'
  <2>1. UNCHANGED <<kvDisk, kvTxn, filling>>
    BY <1>8 DEF KvSet
  <2>2. CASE j = k
    <3>1. /\ kvLast'[k] = kvLast[k] + 1 /\ kvDirty'[k] = kvLast[k] + 1 /\ kvCache'[k] = kvLast[k] + 1
          /\ filling[k] = Absent
      BY <1>8, <2>2 DEF KvSet, TypeOK
    <3> QED
      BY <2>1, <3>1 DEF KvSerialInv, Absent
  <2>3. CASE j # k
    <3>1. kvLast'[k] = kvLast[k] /\ kvDirty'[k] = kvDirty[k] /\ kvCache'[k] = kvCache[k]
      BY <1>8, <2>3 DEF KvSet, TypeOK
    <3> QED
      BY <2>1, <3>1 DEF KvSerialInv
  <2> QED
    BY <2>2, <2>3
<1>9. ASSUME NEW j \in Keys, KvGetMiss(j) PROVE KvSerialInv(k)'
  <2>1. UNCHANGED <<kvDirty, kvCache, kvDisk, kvTxn, kvLast>>
    BY <1>9 DEF KvGetMiss, historyVars
  <2>2. filling'[k] = (IF j = k THEN kvDisk[k] ELSE filling[k]) /\ (j = k => kvCache[k] = Absent)
    BY <1>9 DEF KvGetMiss, TypeOK
  <2> QED
    BY <2>1, <2>2 DEF KvSerialInv
<1>10. ASSUME NEW j \in Keys, KvGetFill(j) PROVE KvSerialInv(k)'
  <2>1. UNCHANGED <<kvDirty, kvDisk, kvTxn, kvLast>>
    BY <1>10 DEF KvGetFill, historyVars
  <2>2. /\ kvCache'[k] = (IF j = k THEN filling[k] ELSE kvCache[k])
        /\ filling'[k] = (IF j = k THEN Absent ELSE filling[k])
        /\ j = k => filling[k] # Absent
    BY <1>10 DEF KvGetFill, TypeOK
  <2> QED
    BY <2>1, <2>2 DEF KvSerialInv
<1> QED
  BY <1>1, <1>2, <1>4, <1>5, <1>6, <1>7, <1>8, <1>9, <1>10, KvQuiet

\* The induction hypothesis about module state holds in every behaviour.
LEMMA KvInvAlways == Spec => []KvInv
<1>1. Init => KvInv
  <2> SUFFICES ASSUME Init PROVE KvInv
    OBVIOUS
  <2>1. TypeOK
    BY TypeInit
  <2>2. ASSUME NEW k \in Keys PROVE KvRowInv(k) /\ KvSerialInv(k)
    BY DEF Init, KvRowInv, KvSerialInv, NoVersions, Absent
  <2> QED
    BY <2>1, <2>2, BoundsAssumption DEF KvInv
<1>2. KvInv /\ [Next]_vars => KvInv'
  <2> SUFFICES ASSUME KvInv, [Next]_vars PROVE KvInv'
    OBVIOUS
  <2>1. TypeOK /\ TypeOK'
    BY TypeStep DEF KvInv
  <2>2. \A k \in Keys : KvRowInv(k)'
    BY <2>1, KvRowStep DEF KvInv
  <2>3. \A k \in SerialKeys : KvSerialInv(k)'
    BY <2>1, KvSerialStep DEF KvInv
  <2> QED
    BY <2>1, <2>2, <2>3 DEF KvInv
<1> QED
  BY <1>1, <1>2, PTL DEF Spec

\* A module whose calls on a key do not overlap reads back the last value it
\* set, before and after ticks, failed ticks and restarts (KvStore for
\* CheckpointStore).
THEOREM StoreReadsYourWrites == Spec => []KvReadYourWrites
<1>1. KvInv => KvReadYourWrites
  BY DEF KvInv, KvSerialInv, KvReadYourWrites, KvGet
<1> QED
  BY <1>1, KvInvAlways, PTL

\* A tick that commits leaves no key on disk older than it was at the tick's
\* snapshot, values of an earlier failed transaction apart (persist_snapshot).
THEOREM StoreKvNotBehind == Spec => KvNotBehind
<1> DEFINE Kept == (running /\ ckpt = "rows" /\ (disk' # disk \/ kvDisk' # kvDisk) /\ ckpt' = "idle")
                      => \A k \in Keys \ kvDropped' : kvDisk'[k] >= kvSnap[k]
<1>1. KvInv /\ [Next]_vars => Kept
  <2> SUFFICES ASSUME KvInv, [Next]_vars, ckpt = "rows", disk' # disk \/ kvDisk' # kvDisk, ckpt' = "idle",
                      NEW k \in Keys, k \notin kvDropped'
               PROVE  kvDisk'[k] >= kvSnap[k]
    OBVIOUS
  <2>1. Commit
    <3>1. ASSUME NEW j \in Keys, KvSet(j) \/ KvGetMiss(j) \/ KvGetFill(j) PROVE FALSE
      BY <3>1 DEF KvSet, KvGetMiss, KvGetFill, persistVars
    <3>2. ~(PersistFails \/ CheckpointAborted)
      BY DEF PersistFails, CheckpointAborted, RollBack, cursorVars
    <3>3. ~(Crash \/ Shutdown)
      BY DEF Crash, Shutdown, Halt
    <3>4. ~(Snapshot \/ FlushFails \/ PersistBegin)
      BY DEF Snapshot, FlushFails, PersistBegin
    <3> QED
      BY <3>1, <3>2, <3>3, <3>4, KvQuiet DEF KvInv
  <2>2. kvDisk'[k] = (IF kvTxn[k] = Absent THEN kvDisk[k] ELSE kvTxn[k])
    BY <2>1 DEF Commit
  <2>3. k \notin kvDropped \/ kvTxn[k] # Absent
    BY <2>1 DEF Commit
  <2> QED
    BY <2>2, <2>3 DEF KvInv, KvRowInv
<1>2. KvInv /\ [Next]_vars => [Kept]_vars
  BY <1>1
<1> QED
  BY <1>2, KvInvAlways, PTL DEF Spec, KvNotBehind
=============================================================================

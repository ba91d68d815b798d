--------------------------- MODULE CheckpointStore ---------------------------
(***************************************************************************)
(* The durable checkpoint store (crates/engine/src/checkpoint.rs) and the   *)
(* checkpoint tick that drives it (checkpoint_once, crates/cli/src/         *)
(* pipeline.rs).                                                            *)
(*                                                                          *)
(* The store keeps a watermark per (source, sink) in memory and in SQLite,  *)
(* and module key/value state in memory (dirty, cache) and in SQLite.       *)
(* Three kinds of callers run concurrently: sink tasks (ack, rewind), the   *)
(* checkpoint task (snapshot, flush, persist) and modules (get, set).  An   *)
(* operation that releases its mutex or awaits SQLite in the middle is one  *)
(* action per part, so every interleaving of the parts is a behaviour.      *)
(***************************************************************************)
EXTENDS Integers, FiniteSets

CONSTANTS
    Sources,       \* source node names
    Sinks,         \* sink node names
    Blocks,        \* block numbers a sink can ack or be rewound to
    Keys,          \* (module, key) names of module_kv
    SerialKeys,    \* keys whose get and set calls never overlap (one caller)
    MaxVersion,    \* bound: values ever written to one key
    MaxRewinds,    \* bound: reorg rollbacks in a behaviour
    MaxCrashes,    \* bound: process crashes in a behaviour
    SqlMayFail     \* whether SQLite statements may fail (disk full, busy)

ASSUME BlocksAssumption == Blocks \subseteq Nat

ASSUME BoundsAssumption ==
    /\ MaxVersion \in Nat
    /\ MaxRewinds \in Nat
    /\ MaxCrashes \in Nat
    /\ SqlMayFail \in BOOLEAN
    /\ SerialKeys \subseteq Keys

Pairs == Sources \X Sinks

Absent == -1                    \* no row, no entry, nothing pending
Cursor == Blocks \cup {Absent}
NoRows == [p \in Pairs |-> Absent]
Version == 0..MaxVersion
NoVersions == [k \in Keys |-> Absent]

Least(a, b) == IF a <= b THEN a ELSE b
Greatest(a, b) == IF a >= b THEN a ELSE b

VARIABLES
    running,    \* the process is up
    cursors,    \* in-memory watermarks (absent: the map has no entry)
    disk,       \* SQLite table cursors
    rewinding,  \* a rewind that lowered memory and still awaits its UPDATE
    paused,     \* sinks whose task returned ("pausing branch")
    ckpt,       \* checkpoint task: idle, flushing (snapshot taken), rows
    snap,       \* the watermark snapshot taken before the flush
    todo,       \* snapshot rows the transaction has still to write
    hand,       \* the row whose floored value is read and not inserted yet
    txn         \* rows written in the open transaction, not committed

cursorVars == <<cursors, disk, rewinding, paused>>
persistVars == <<ckpt, snap, todo, hand, txn>>

VARIABLES
    kvDirty,    \* values set and not yet handed to a transaction
    kvCache,    \* read-through cache
    kvDisk,     \* SQLite table module_kv
    kvTxn,      \* values drained into the transaction under way
    filling     \* a get that read SQLite and has not filled the cache yet

kvVars == <<kvDirty, kvCache, kvDisk, kvTxn, filling>>

VARIABLES       \* history, read by properties and bounds only
    stale,      \* pairs whose row on disk may be ahead of memory
    staleTxn,   \* pairs whose row in the open transaction may be
    kvLast,     \* last value set to each key (after a restart: the one on disk)
    kvSnap,     \* kvLast when the current snapshot was taken
    kvDropped,  \* keys whose drained value went down with a failed transaction
    rewinds,    \* rollbacks so far
    crashes     \* crashes so far

historyVars == <<stale, staleTxn, kvLast, kvSnap, kvDropped, rewinds, crashes>>

vars == <<running, cursorVars, persistVars, kvVars, historyVars>>

-----------------------------------------------------------------------------
(* Sink side: ack and rewind.  A sink task handles one batch at a time, so   *)
(* it neither acks nor rewinds while a rewind of its own is in flight.       *)

SinkFree(p) ==
    /\ running
    /\ p[2] \notin paused
    /\ \A q \in Pairs : q[2] = p[2] => rewinding[q] = Absent

\* An ack that may lower the watermark: the monotonic test is dropped.
AckNotMonotonic(p, n) ==
    /\ SinkFree(p)
    /\ cursors' = [cursors EXCEPT ![p] = n]
    /\ UNCHANGED <<running, disk, rewinding, paused, persistVars, kvVars, historyVars>>

\* ack: monotonic; an absent entry starts at 0.
Ack(p, n) ==
    /\ SinkFree(p)
    /\ cursors' = [cursors EXCEPT ![p] = Greatest(@, n)]
    /\ UNCHANGED <<running, disk, rewinding, paused, persistVars, kvVars, historyVars>>

\* rewind, first half: lower the entry under the mutex (an absent entry
\* becomes n), release the mutex, go and run the UPDATE.
RewindMemory(p, n) ==
    /\ SinkFree(p)
    /\ rewinds < MaxRewinds
    /\ cursors' = [cursors EXCEPT ![p] = IF @ = Absent THEN n ELSE Least(@, n)]
    /\ rewinding' = [rewinding EXCEPT ![p] = n]
    /\ rewinds' = rewinds + 1
    /\ UNCHANGED <<running, disk, paused, persistVars, kvVars>>
    /\ UNCHANGED <<stale, staleTxn, kvLast, kvSnap, kvDropped, crashes>>

\* SQLite has one writer: from its first INSERT to its end the checkpoint
\* transaction (BEGIN DEFERRED) holds the write lock.
WriteLocked == \E q \in Pairs : txn[q] # Absent

\* p's row is in the hands of the checkpoint task: floored, maybe inserted.
InTxn(p) == txn[p] # Absent \/ hand[p] # Absent

\* rewind, second half: UPDATE ... WHERE next_block > n.
RewindUpdate(p) ==
    /\ running
    /\ rewinding[p] # Absent
    /\ ~WriteLocked
    /\ disk' = [disk EXCEPT ![p] = Least(@, rewinding[p])]
    /\ rewinding' = [rewinding EXCEPT ![p] = Absent]
    /\ staleTxn' = IF InTxn(p) THEN staleTxn \cup {p} ELSE staleTxn
    /\ UNCHANGED <<running, cursors, paused, persistVars, kvVars>>
    /\ UNCHANGED <<stale, kvLast, kvSnap, kvDropped, rewinds, crashes>>

\* The UPDATE fails: memory stays lowered and the sink task returns.
RewindFails(p) ==
    /\ running
    /\ SqlMayFail
    /\ rewinding[p] # Absent
    /\ rewinding' = [rewinding EXCEPT ![p] = Absent]
    /\ paused' = paused \cup {p[2]}
    /\ stale' = stale \cup {p}
    /\ staleTxn' = IF InTxn(p) THEN staleTxn \cup {p} ELSE staleTxn
    /\ UNCHANGED <<running, cursors, disk, persistVars, kvVars>>
    /\ UNCHANGED <<kvLast, kvSnap, kvDropped, rewinds, crashes>>

\* A sink task returns for a reason of its own: its writes keep failing.
Pause(s) ==
    /\ running
    /\ s \notin paused
    /\ \A p \in Pairs : p[2] = s => rewinding[p] = Absent
    /\ paused' = paused \cup {s}
    /\ UNCHANGED <<running, cursors, disk, rewinding, persistVars, kvVars, historyVars>>

-----------------------------------------------------------------------------
(* Checkpoint side: checkpoint_once = snapshot, flush every sink, persist.   *)

Snapshot ==
    /\ running
    /\ ckpt = "idle"
    /\ ckpt' = "flushing"
    /\ snap' = cursors
    /\ kvSnap' = kvLast
    /\ UNCHANGED <<running, cursorVars, todo, hand, txn, kvVars>>
    /\ UNCHANGED <<stale, staleTxn, kvLast, kvDropped, rewinds, crashes>>

\* A failed flush ends the tick: nothing is persisted.
FlushFails ==
    /\ running
    /\ ckpt = "flushing"
    /\ ckpt' = "idle"
    /\ snap' = NoRows
    /\ UNCHANGED <<running, cursorVars, todo, hand, txn, kvVars, historyVars>>

\* A drain that leaves out the values: they stay dirty for a later tick.
PersistWithoutKv ==
    /\ running
    /\ ckpt = "flushing"
    /\ todo' = {p \in Pairs : snap[p] # Absent}
    /\ ckpt' = IF todo' = {} /\ kvDirty = NoVersions THEN "idle" ELSE "rows"
    /\ UNCHANGED <<running, cursorVars, snap, hand, txn, kvVars, historyVars>>

\* persist_snapshot, up to begin(): the dirty values move into the local
\* vector; an empty snapshot with nothing dirty returns at once.
PersistBegin ==
    /\ running
    /\ ckpt = "flushing"
    /\ todo' = {p \in Pairs : snap[p] # Absent}
    /\ kvTxn' = kvDirty
    /\ kvDirty' = NoVersions
    /\ ckpt' = IF todo' = {} /\ kvDirty = NoVersions THEN "idle" ELSE "rows"
    /\ UNCHANGED <<running, cursorVars, snap, hand, txn>>
    /\ UNCHANGED <<kvCache, kvDisk, filling, historyVars>>

\* The row value without the floor against the live watermark.
NoFloor(p) == snap[p]

\* The value a snapshot row is written with: floored against the live
\* watermark, so that a rewind since the snapshot is not undone.
Floor(p) == IF cursors[p] = Absent THEN snap[p] ELSE Least(snap[p], cursors[p])

\* Rows are written in the map's iteration order, which is arbitrary.
ReadFloor(p) ==
    /\ running
    /\ ckpt = "rows"
    /\ p \in todo
    /\ hand = NoRows
    /\ hand' = [hand EXCEPT ![p] = Floor(p)]
    /\ UNCHANGED <<running, cursorVars, ckpt, snap, todo, txn, kvVars, historyVars>>

InsertRow(p) ==
    /\ running
    /\ hand[p] # Absent
    /\ txn' = [txn EXCEPT ![p] = hand[p]]
    /\ hand' = NoRows
    /\ todo' = todo \ {p}
    /\ UNCHANGED <<running, cursorVars, ckpt, snap, kvVars, historyVars>>

\* A commit that replaces the tables by the rows it wrote, no upsert.
CommitReplaces ==
    /\ running
    /\ ckpt = "rows"
    /\ todo = {}
    /\ ckpt' = "idle"
    /\ disk' = txn
    /\ txn' = NoRows
    /\ kvDisk' = kvTxn
    /\ kvTxn' = NoVersions
    /\ stale' = staleTxn
    /\ staleTxn' = {}
    /\ kvDropped' = {k \in kvDropped : kvTxn[k] = Absent}
    /\ snap' = NoRows
    /\ UNCHANGED <<running, cursors, rewinding, paused, todo, hand>>
    /\ UNCHANGED <<kvDirty, kvCache, filling, kvLast, kvSnap, rewinds, crashes>>

\* The module_kv rows and the commit.
Commit ==
    /\ running
    /\ ckpt = "rows"
    /\ todo = {}
    /\ ckpt' = "idle"
    /\ disk' = [p \in Pairs |-> IF txn[p] = Absent THEN disk[p] ELSE txn[p]]
    /\ txn' = NoRows
    /\ kvDisk' = [k \in Keys |-> IF kvTxn[k] = Absent THEN kvDisk[k] ELSE kvTxn[k]]
    /\ kvTxn' = NoVersions
    /\ stale' = staleTxn \cup {p \in stale : txn[p] = Absent}
    /\ staleTxn' = {}
    /\ kvDropped' = {k \in kvDropped : kvTxn[k] = Absent}
    /\ snap' = NoRows
    /\ UNCHANGED <<running, cursors, rewinding, paused, todo, hand>>
    /\ UNCHANGED <<kvDirty, kvCache, filling, kvLast, kvSnap, rewinds, crashes>>

\* The transaction rolls back and the drained values are dropped with it.
RollBack ==
    /\ running
    /\ ckpt' = "idle"
    /\ todo' = {}
    /\ hand' = NoRows
    /\ txn' = NoRows
    /\ kvTxn' = NoVersions
    /\ staleTxn' = {}
    /\ kvDropped' = kvDropped \cup {k \in Keys : kvTxn[k] # Absent}
    /\ snap' = NoRows
    /\ UNCHANGED <<running, cursorVars>>
    /\ UNCHANGED <<kvDirty, kvCache, kvDisk, filling>>
    /\ UNCHANGED <<stale, kvLast, kvSnap, rewinds, crashes>>

\* A statement or the commit fails.
PersistFails == SqlMayFail /\ ckpt = "rows" /\ RollBack

\* Shutdown aborts the checkpoint task wherever it is (ckpt.abort()).
CheckpointAborted == ckpt # "idle" /\ RollBack

-----------------------------------------------------------------------------
(* Module side: the KvStore implementation.                                  *)

\* A set that skips the cache.
KvSetDirtyOnly(k) ==
    /\ running
    /\ kvLast[k] < MaxVersion
    /\ k \in SerialKeys => filling[k] = Absent
    /\ kvLast' = [kvLast EXCEPT ![k] = @ + 1]
    /\ kvDirty' = [kvDirty EXCEPT ![k] = kvLast[k] + 1]
    /\ UNCHANGED <<running, cursorVars, persistVars, kvCache, kvDisk, kvTxn, filling>>
    /\ UNCHANGED <<stale, staleTxn, kvSnap, kvDropped, rewinds, crashes>>

\* set: a new value goes to the cache and to the dirty map.  The value is
\* the number of the write, so a larger value is a later one.
KvSet(k) ==
    /\ running
    /\ kvLast[k] < MaxVersion
    /\ k \in SerialKeys => filling[k] = Absent
    /\ kvLast' = [kvLast EXCEPT ![k] = @ + 1]
    /\ kvDirty' = [kvDirty EXCEPT ![k] = kvLast[k] + 1]
    /\ kvCache' = [kvCache EXCEPT ![k] = kvLast[k] + 1]
    /\ UNCHANGED <<running, cursorVars, persistVars, kvDisk, kvTxn, filling>>
    /\ UNCHANGED <<stale, staleTxn, kvSnap, kvDropped, rewinds, crashes>>

\* What get returns: the dirty value, the cached one, the one on disk.
KvGet(k) ==
    IF kvDirty[k] # Absent THEN kvDirty[k]
    ELSE IF kvCache[k] # Absent THEN kvCache[k]
    ELSE kvDisk[k]

\* get on a miss reads SQLite with no lock held ...
KvGetMiss(k) ==
    /\ running
    /\ filling[k] = Absent
    /\ kvDirty[k] = Absent
    /\ kvCache[k] = Absent
    /\ filling' = [filling EXCEPT ![k] = kvDisk[k]]
    /\ UNCHANGED <<running, cursorVars, persistVars, kvDirty, kvCache, kvDisk, kvTxn, historyVars>>

\* ... and then fills the cache, whatever has happened to the key meanwhile.
KvGetFill(k) ==
    /\ running
    /\ filling[k] # Absent
    /\ kvCache' = [kvCache EXCEPT ![k] = filling[k]]
    /\ filling' = [filling EXCEPT ![k] = Absent]
    /\ UNCHANGED <<running, cursorVars, persistVars, kvDirty, kvDisk, kvTxn, historyVars>>

-----------------------------------------------------------------------------
(* The process.                                                              *)

\* The process ends, however it ends: memory and the open transaction are
\* gone, SQLite stays.
Halt ==
    /\ running
    /\ running' = FALSE
    /\ cursors' = NoRows
    /\ rewinding' = NoRows
    /\ paused' = {}
    /\ ckpt' = "idle"
    /\ snap' = NoRows
    /\ todo' = {}
    /\ hand' = NoRows
    /\ txn' = NoRows
    /\ kvDirty' = NoVersions
    /\ kvCache' = NoVersions
    /\ kvTxn' = NoVersions
    /\ filling' = NoVersions
    /\ stale' = {}
    /\ staleTxn' = {}
    /\ kvLast' = kvDisk
    /\ kvDropped' = {}
    /\ UNCHANGED <<disk, kvDisk, kvSnap, rewinds>>

\* kill -9.
Crash == Halt /\ crashes < MaxCrashes /\ crashes' = crashes + 1

\* run returns after its final checkpoint, whatever the sink tasks are doing.
Shutdown == Halt /\ ckpt = "idle" /\ UNCHANGED crashes

\* open: load the cursor table.
Open ==
    /\ ~running
    /\ running' = TRUE
    /\ cursors' = disk
    /\ UNCHANGED <<disk, rewinding, paused, persistVars, kvVars, historyVars>>

\* restore: the block a source resumes from, the least cursor over the sinks
\* it reaches; Absent when a sink has none (replay from from_block).
RestoreFrom(table, src, reach) ==
    IF reach = {} \/ \E s \in reach : table[<<src, s>>] = Absent
    THEN Absent
    ELSE CHOOSE n \in {table[<<src, s>>] : s \in reach} :
             \A s \in reach : n <= table[<<src, s>>]

Restore(src, reach) == RestoreFrom(cursors, src, reach)

Init ==
    /\ running = TRUE
    /\ cursors = NoRows
    /\ disk = NoRows
    /\ rewinding = NoRows
    /\ paused = {}
    /\ ckpt = "idle"
    /\ snap = NoRows
    /\ todo = {}
    /\ hand = NoRows
    /\ txn = NoRows
    /\ kvDirty = NoVersions
    /\ kvCache = NoVersions
    /\ kvDisk = [k \in Keys |-> 0]      \* 0: a key never set reads as None
    /\ kvTxn = NoVersions
    /\ filling = NoVersions
    /\ stale = {}
    /\ staleTxn = {}
    /\ kvLast = [k \in Keys |-> 0]
    /\ kvSnap = [k \in Keys |-> 0]
    /\ kvDropped = {}
    /\ rewinds = 0
    /\ crashes = 0

SinkNext ==
    \E p \in Pairs :
        \/ \E n \in Blocks : Ack(p, n)
        \/ \E n \in Blocks : RewindMemory(p, n)
        \/ RewindUpdate(p)
        \/ RewindFails(p)

CheckpointNext ==
    \/ Snapshot
    \/ FlushFails
    \/ PersistBegin
    \/ \E p \in Pairs : ReadFloor(p)
    \/ \E p \in Pairs : InsertRow(p)
    \/ Commit
    \/ PersistFails
    \/ CheckpointAborted

KvNext == \E k \in Keys : KvSet(k) \/ KvGetMiss(k) \/ KvGetFill(k)

Next ==
    \/ SinkNext
    \/ CheckpointNext
    \/ KvNext
    \/ \E s \in Sinks : Pause(s)
    \/ Crash
    \/ Shutdown
    \/ Open

Spec == Init /\ [][Next]_vars

-----------------------------------------------------------------------------
(* Properties.                                                               *)

TypeOK ==
    /\ running \in BOOLEAN
    /\ cursors \in [Pairs -> Cursor]
    /\ disk \in [Pairs -> Cursor]
    /\ rewinding \in [Pairs -> Cursor]
    /\ paused \subseteq Sinks
    /\ ckpt \in {"idle", "flushing", "rows"}
    /\ snap \in [Pairs -> Cursor]
    /\ todo \subseteq Pairs
    /\ hand \in [Pairs -> Cursor]
    /\ txn \in [Pairs -> Cursor]
    /\ kvDirty \in [Keys -> Version \cup {Absent}]
    /\ kvCache \in [Keys -> Version \cup {Absent}]
    /\ kvDisk \in [Keys -> Version]
    /\ kvTxn \in [Keys -> Version \cup {Absent}]
    /\ filling \in [Keys -> Version \cup {Absent}]
    /\ stale \subseteq Pairs
    /\ staleTxn \subseteq Pairs
    /\ kvLast \in [Keys -> Version]
    /\ kvSnap \in [Keys -> Version]
    /\ kvDropped \subseteq Keys
    /\ rewinds \in Nat
    /\ crashes \in Nat

\* "a crash right after the rollback cannot resume from the stale, higher
\* cursor" (rewind), "stale snapshots are floored at persist so they can't
\* re-raise it": once a rewind has returned, the row on disk is not ahead of
\* the watermark, whatever tick was under way.  Excepted are the pairs in
\* stale: a rewind whose UPDATE failed, and one that ran completely between
\* the tick's reading of the floor and its first INSERT.
RewindSticks ==
    running => \A p \in Pairs :
        (rewinding[p] = Absent /\ p \notin stale) => disk[p] <= cursors[p]

\* What a value v for p's row will be once a rewind in flight has run its
\* UPDATE on it.
Lowered(p, v) == IF rewinding[p] = Absent THEN v ELSE Least(v, rewinding[p])

\* What the phases of the tick imply about
\* the values in flight.
PhaseInv ==
    /\ ~running => ckpt = "idle" /\ rewinding = NoRows /\ snap = NoRows
    /\ ckpt # "rows" => txn = NoRows /\ hand = NoRows /\ todo = {}
    /\ \A p \in Pairs :
           /\ hand[p] # Absent => p \in todo
           /\ p \in todo => snap[p] # Absent
           /\ snap[p] # Absent => cursors[p] # Absent

\* RewindSticks as an induction hypothesis: every place from which a value
\* reaches the table (the table itself, the open transaction, the value in
\* hand) is bounded by the watermark once the rewind in flight is applied.
RowInv(p) ==
    /\ p \notin stale => Lowered(p, disk[p]) <= cursors[p]
    /\ (p \notin staleTxn /\ txn[p] # Absent) => Lowered(p, txn[p]) <= cursors[p]
    /\ (p \notin staleTxn /\ hand[p] # Absent) => Lowered(p, hand[p]) <= cursors[p]

StoreInv == TypeOK /\ PhaseInv /\ (running => \A p \in Pairs : RowInv(p))

\* KvNotBehind as an induction hypothesis: the last value set to k is dirty, or
\* in the open transaction, or on disk, unless a failed transaction dropped it,
\* and from the drain on nothing the tick will leave behind is older than the
\* snapshot.
KvRowInv(k) ==
    /\ kvDirty[k] # Absent => kvDirty[k] = kvLast[k]
    /\ (kvDirty[k] = Absent /\ kvTxn[k] # Absent) => kvTxn[k] = kvLast[k]
    /\ (kvDirty[k] = Absent /\ kvTxn[k] = Absent /\ k \notin kvDropped) => kvDisk[k] = kvLast[k]
    /\ ckpt # "idle" => kvSnap[k] <= kvLast[k]
    /\ ckpt # "rows" => kvTxn[k] = Absent
    /\ kvTxn[k] # Absent => kvTxn[k] >= kvSnap[k]
    /\ (ckpt = "rows" /\ kvTxn[k] = Absent /\ k \notin kvDropped) => kvDisk[k] >= kvSnap[k]

\* KvReadYourWrites as an induction hypothesis: once a key is cached the cache
\* has its last value, and until then nothing is pending and the disk has it.
\* A get that has read the disk finds both still so when it fills the cache.
KvSerialInv(k) ==
    /\ kvCache[k] # Absent => kvCache[k] = kvLast[k]
    /\ kvDirty[k] # Absent => kvDirty[k] = kvLast[k] /\ kvCache[k] # Absent
    /\ kvTxn[k] # Absent => kvCache[k] # Absent
    /\ kvCache[k] = Absent => kvDisk[k] = kvLast[k]
    /\ filling[k] # Absent => kvCache[k] = Absent /\ filling[k] = kvLast[k]

KvInv ==
    /\ TypeOK
    /\ \A k \in Keys : KvRowInv(k)
    /\ \A k \in SerialKeys : KvSerialInv(k)

\* The same without the exceptions, for sinks that still run: what the
\* comments on rewind and on the floor claim.
RewindIsDurable ==
    running => \A p \in Pairs :
        (rewinding[p] = Absent /\ p[2] \notin paused) => disk[p] <= cursors[p]

\* "read-your-writes": a module reads back the last value it set, before and
\* after ticks, failed ticks and restarts, when its calls on the key do not
\* overlap.
KvReadYourWrites ==
    running => \A k \in SerialKeys : KvGet(k) = kvLast[k]

\* "Persist a watermark snapshot + all dirty KV in a single transaction": a
\* committed tick leaves no key on disk older than it was when the tick took
\* its snapshot, so module state is not behind the cursors persisted with it.
\* Excepted are values that went down with an earlier failed transaction.
KvNotBehind ==
    [][(running /\ ckpt = "rows" /\ (disk' # disk \/ kvDisk' # kvDisk) /\ ckpt' = "idle")
         => \A k \in Keys \ kvDropped' : kvDisk'[k] >= kvSnap[k]]_vars

=============================================================================

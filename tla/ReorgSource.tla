----------------------------- MODULE ReorgSource -----------------------------
(***************************************************************************)
(* Reorg handling, from the chain to the sinks' tables: the live source     *)
(* polls a chain that grows and reorganises, keeps a window of block hashes *)
(* (ReorgTracker), and on a conflict locates the fork, purges and saves its *)
(* window, sends a rollback and rewinds; sinks delete what the rollback     *)
(* voids and rewind their cursors; the window is module state that becomes  *)
(* durable with the next checkpoint tick.                                   *)
(*                                                                          *)
(* The store is CheckpointStore.  The path from the source to a sink is one *)
(* bounded channel: its stages, and chunks, are Delivery's.  Every step of  *)
(* a tick is here; a flush is not, since these sinks write through.         *)
(*                                                                          *)
(* A block's hash is abstracted to the reorg that made the block: two       *)
(* versions of a block have the same hash when the same reorg made them,    *)
(* and then they have the same ancestors.                                   *)
(***************************************************************************)
EXTENDS CheckpointStore, Sequences

CONSTANTS
    Src,            \* the source
    Hashes,         \* its key of module_kv (reorg_hashes)
    FromBlock,      \* first block to deliver
    StartHeight,    \* height of the chain at the start
    MaxHeight,      \* bound: greatest height
    MaxReorgs,      \* bound: reorganisations of the chain
    Logs,           \* <<block, reorg>>: versions of blocks with a matching record
    Lags,           \* confirmations the source may be configured with
    MaxPage,        \* most blocks the server scans for one query
    Window,         \* reorg.window: most hashes kept
    Capacity        \* channel from the source to a sink

Numbers == 0..MaxHeight
Epochs == 0..MaxReorgs

ASSUME ReorgAssumption ==
    /\ Sources = {Src}
    /\ Hashes \in SerialKeys
    /\ FromBlock \in Nat /\ StartHeight \in Nat /\ MaxHeight \in Nat /\ MaxReorgs \in Nat
    /\ FromBlock <= StartHeight /\ StartHeight <= MaxHeight
    /\ Blocks = 0 .. (MaxHeight + 1)
    /\ Logs \subseteq Numbers \X Epochs
    /\ Lags \subseteq Nat
    /\ MaxPage \in Nat \ {0}
    /\ Window \in Nat \ {0}
    /\ Capacity \in Nat \ {0}

Pair(s) == <<Src, s>>

VARIABLES
    height,         \* the chain: greatest block
    epoch,          \* reorgs so far
    born            \* the reorg that made the present version of each block

VARIABLES
    confirmations,  \* configured lag behind the head
    loop,           \* source loop: load, poll, emit, save, locate, rollback
    cursor,         \* its cursor
    resp,           \* in emit and save: the response, and the end of what it may emit
    fork,           \* in rollback: the last block that survived
    tracker,        \* hashes remembered
    trackerAt       \* the value behind each version of the key in the store

VARIABLES
    inbox,          \* per sink: batches sent to it, the one in hand included
    stage,          \* per sink: recv, written, rewinding
    table           \* per sink: versions of blocks whose rows it has stored

VARIABLES           \* history
    vouched,        \* no claim is made of blocks up to this one
    torn,           \* the sinks do not all stand at one point of one chain
    ahead,          \* a tick may take a cursor along without the hashes below it
    blind           \* rows that answers without a height let through, while unconfirmed

chainVars == <<height, epoch, born>>
sourceVars == <<confirmations, loop, cursor, resp, fork, tracker, trackerAt>>
sinkVars == <<inbox, stage, table>>
noteVars == <<vouched, torn, ahead, blind>>
rvars == <<vars, chainVars, sourceVars, sinkVars, noteVars>>

NoHashes == [b \in Numbers |-> Absent]
NoResp == [first |-> 0, scanned |-> 0, next |-> 0, chain |-> [b \in Numbers |-> 0]]

-----------------------------------------------------------------------------
(* The chain, as the server shows it.                                        *)

\* The block of the row has its confirmations.
HasLag(x) == x[1] + confirmations <= height

Mine ==
    /\ height < MaxHeight
    /\ height' = height + 1
    /\ blind' = {x \in blind : x[1] + confirmations > height'}
    /\ UNCHANGED <<vars, epoch, born, sourceVars, sinkVars, vouched, torn, ahead>>

\* Every block from f on is replaced, those to come included.
Reorg(f) ==
    /\ epoch < MaxReorgs
    /\ epoch' = epoch + 1
    /\ born' = [b \in Numbers |-> IF b >= f THEN epoch + 1 ELSE born[b]]
    /\ UNCHANGED <<vars, height, sourceVars, sinkVars, noteVars>>

\* The rows of blocks from .. to - 1 of a chain.
RowsOf(chain, from, to) == {x \in Logs : from <= x[1] /\ x[1] < to /\ x[2] = chain[x[1]]}

-----------------------------------------------------------------------------
(* The window of hashes (ReorgTracker).                                      *)

Known(t) == {b \in Numbers : t[b] # Absent}

\* The newest hashes, as many as the window holds.
Trim(t) == [b \in Numbers |-> IF Cardinality({c \in Known(t) : c >= b}) <= Window THEN t[b] ELSE Absent]

\* Hashes of blocks with a record only, the guard left out.
CarriesWithoutGuard(r) == {x[1] : x \in RowsOf(r.chain, r.first, r.next)}

\* The blocks a response carries hashes of: those with a record, and the last
\* one it scanned (the guard), as far as they were emitted; and the parent of
\* the first one.  The code takes a response without a guard as well, and then
\* neither remembers nor compares the last block and the parent: that the server
\* sends the guard with every response is an assumption on it.
Carries(r) ==
    {x[1] : x \in RowsOf(r.chain, r.first, r.next)}
        \cup {b \in Numbers : b = r.scanned - 1 /\ b < r.next}
        \cup {b \in Numbers : b = r.first - 1}

Record(t, r) == Trim([b \in Numbers |-> IF b \in Carries(r) THEN r.chain[b] ELSE t[b]])

\* A response contradicts the window: at the parent of its first block, or at
\* a block with a record.
Conflict(t, r) ==
    \E b \in {c \in Numbers : c = r.first - 1} \cup {x[1] : x \in RowsOf(r.chain, r.first, r.scanned)} :
        t[b] # Absent /\ t[b] # r.chain[b]

PurgeAfter(t, f) == [b \in Numbers |-> IF b <= f THEN t[b] ELSE Absent]

\* Blocks of the window whose hash the chain still has, as far as it was
\* fetched.
Matching(t, chain, upto) == {b \in Known(t) : b < upto /\ t[b] = chain[b]}

IsLast(b, blocks) == b \in blocks /\ \A c \in blocks : c <= b
IsFirst(b, blocks) == b \in blocks /\ \A c \in blocks : b <= c

\* Without a match: the block before the window, or without a window the
\* cursor less its size.
Coarse(t) ==
    IF Known(t) = {} THEN Greatest(cursor - (Window + 1), 0)
    ELSE Greatest((CHOOSE b \in Known(t) : IsFirst(b, Known(t))) - 1, 0)

-----------------------------------------------------------------------------
(* The source loop (HyperSyncSource::run, a live source without an end).     *)

\* save: the value becomes the next version of the key.
Save(t) ==
    /\ KvSet(Hashes)
    /\ trackerAt' = [trackerAt EXCEPT ![kvLast[Hashes] + 1] = t]

\* ReorgTracker::load reads the store ...
LoadMiss ==
    /\ loop = "load"
    /\ KvGetMiss(Hashes)
    /\ UNCHANGED <<chainVars, sourceVars, sinkVars, noteVars>>

\* A start that forgets the window.
LoadedFresh(saved) == NoHashes

\* The window a start resumes with, from the value saved.
Loaded(saved) == Trim(saved)

\* ... and what it read is the window.  A start below the whole window, after a
\* sink has lagged behind by more than it holds, remembers nothing of what it
\* sends again: hashes of blocks below a full window are trimmed at once.
Load ==
    /\ loop = "load"
    /\ KvGetFill(Hashes)
    /\ LET saved == trackerAt[filling[Hashes]] IN
       /\ tracker' = Loaded(saved)
       /\ vouched' = IF Known(saved) # {} /\ \A b \in Known(saved) : b >= cursor
                     THEN Greatest(vouched, CHOOSE b \in Known(saved) : IsLast(b, Known(saved)))
                     ELSE vouched
    /\ loop' = "poll"
    /\ UNCHANGED <<chainVars, confirmations, cursor, resp, fork, trackerAt, sinkVars, torn, ahead, blind>>

\* A plan that emits what was scanned, confirmed or not.
PlanStepUnconfirmed(scanned, archive) == scanned

\* plan_step: the end of what may be emitted of a response that scanned the
\* blocks before scanned; nothing may when it is not beyond the cursor.  An answer
\* that does not tell the height of the archive is trusted with all it scanned.
PlanStep(scanned, archive) ==
    IF archive = Absent THEN scanned
    ELSE Least(scanned, IF archive >= confirmations THEN archive - confirmations + 1 ELSE 0)

\* One query from the cursor, and the check for a conflict.  A query that finds
\* no new block, one that fails and one that may emit nothing yet are no step
\* (Step::Wait, back-off).
Poll ==
    /\ running
    /\ loop = "poll"
    /\ \E scanned \in (cursor + 1) .. Least(cursor + MaxPage, height + 1), archive \in {height, Absent} :
          LET r == [first |-> cursor, scanned |-> scanned, next |-> PlanStep(scanned, archive), chain |-> born] IN
          \/ /\ Conflict(tracker, r)
             /\ loop' = "locate"
             /\ UNCHANGED <<resp, blind>>
          \/ /\ ~Conflict(tracker, r)
             /\ r.next > cursor
             /\ loop' = "emit"
             /\ resp' = r
             /\ blind' = blind \cup {x \in RowsOf(r.chain, r.first, r.next) : archive = Absent /\ ~HasLag(x)}
    /\ UNCHANGED <<vars, chainVars, confirmations, cursor, fork, tracker, trackerAt, sinkVars>>
    /\ UNCHANGED <<vouched, torn, ahead>>

\* A batch is sent to every branch that is left.
Send(m) ==
    /\ running
    /\ Sinks \ paused # {}
    /\ \A s \in Sinks \ paused : Len(inbox[s]) < Capacity
    /\ inbox' = [s \in Sinks |-> IF s \in paused THEN inbox[s] ELSE Append(inbox[s], m)]

\* The rows of a response, cut to the confirmed part; no batch without rows.
EmitRows ==
    LET rows == RowsOf(resp.chain, resp.first, resp.next) IN
    /\ running
    /\ loop = "emit"
    /\ IF rows = {}
       THEN UNCHANGED inbox
       ELSE Send([rows |-> rows, ack |-> resp.next, fork |-> Absent])
    /\ loop' = "save"
    /\ UNCHANGED <<vars, chainVars, confirmations, cursor, resp, fork, tracker, trackerAt>>
    /\ UNCHANGED <<stage, table, noteVars>>

\* Only then are the hashes of what was sent remembered and saved.
Remember ==
    /\ running
    /\ loop = "save"
    /\ cursor' = resp.next
    /\ tracker' = Record(tracker, resp)
    /\ Save(tracker')
    /\ loop' = "poll"
    /\ resp' = NoResp
    /\ UNCHANGED <<chainVars, confirmations, fork, sinkVars, noteVars>>

\* locate_fork, with the canonical hashes fetched up to some block (none when
\* the fetch fails), then purge and save.
LocateFork ==
    /\ running
    /\ loop = "locate"
    /\ \E upto \in 0..cursor :
          LET matching == Matching(tracker, born, upto) IN
          /\ fork' = IF matching = {} THEN Coarse(tracker) ELSE CHOOSE b \in matching : IsLast(b, matching)
          /\ vouched' = IF matching = {} THEN Greatest(vouched, fork') ELSE vouched
    /\ tracker' = PurgeAfter(tracker, fork')
    /\ Save(tracker')
    /\ loop' = "rollback"
    /\ UNCHANGED <<chainVars, confirmations, cursor, resp, sinkVars, torn, ahead, blind>>

\* The rollback is sent and the cursor goes back to the block after the fork.
SendRollback ==
    /\ running
    /\ loop = "rollback"
    /\ Send([rows |-> {}, ack |-> fork, fork |-> fork])
    /\ cursor' = Greatest(fork + 1, FromBlock)
    /\ fork' = 0
    /\ loop' = "poll"
    /\ torn' = (torn \/ paused # {})
    /\ UNCHANGED <<vars, chainVars, confirmations, resp, tracker, trackerAt, stage, table, vouched, ahead, blind>>

-----------------------------------------------------------------------------
(* A sink that stores what it is sent and deletes what a rollback voids      *)
(* (sink_task, the postgres sink with rollback: true).                       *)

InHand(s) == Head(inbox[s])

Surviving(rows, f) == {x \in rows : x[1] <= f}

Write(s) ==
    /\ running
    /\ s \notin paused
    /\ stage[s] = "recv"
    /\ inbox[s] # <<>>
    /\ table' = [table EXCEPT ![s] = IF InHand(s).fork = Absent
                                     THEN @ \cup InHand(s).rows
                                     ELSE Surviving(@, InHand(s).fork)]
    /\ stage' = [stage EXCEPT ![s] = "written"]
    /\ UNCHANGED <<vars, chainVars, sourceVars, inbox, noteVars>>

Finish(s) ==
    /\ inbox' = [inbox EXCEPT ![s] = Tail(@)]
    /\ stage' = [stage EXCEPT ![s] = "recv"]

\* The watermark was rewound after the snapshot of the tick under way, which
\* will write it as it finds it; an ack now moves it on.
FloorMoves(p) == cursors[p] < snap[p] /\ ~InTxn(p)

AckBatch(s) ==
    /\ stage[s] = "written"
    /\ InHand(s).fork = Absent
    /\ Ack(Pair(s), InHand(s).ack)
    /\ Finish(s)
    /\ ahead' = (ahead \/ FloorMoves(Pair(s)))
    /\ UNCHANGED <<chainVars, sourceVars, table, vouched, torn, blind>>

\* An accepted rollback rewinds the cursor: the memory, then the row.
BeginRewind(s) ==
    /\ stage[s] = "written"
    /\ InHand(s).fork # Absent
    /\ RewindMemory(Pair(s), InHand(s).fork + 1)
    /\ stage' = [stage EXCEPT ![s] = "rewinding"]
    /\ UNCHANGED <<chainVars, sourceVars, inbox, table, noteVars>>

EndRewind(s) ==
    /\ stage[s] = "rewinding"
    /\ RewindUpdate(Pair(s))
    /\ Finish(s)
    /\ UNCHANGED <<chainVars, sourceVars, table, noteVars>>

\* A rollback is on its way to the sink, or in its hands.
AwaitsRollback(s) == \E i \in DOMAIN inbox[s] : inbox[s][i].fork # Absent

\* The branch pauses: a write keeps failing.
GiveUp(s) ==
    /\ stage[s] = "recv"
    /\ inbox[s] # <<>>
    /\ Pause(s)
    /\ inbox' = [inbox EXCEPT ![s] = <<>>]
    /\ torn' = (torn \/ AwaitsRollback(s))
    /\ UNCHANGED <<chainVars, sourceVars, stage, table, vouched, ahead, blind>>

-----------------------------------------------------------------------------
(* The checkpoint tick and the process.                                      *)

Tick ==
    /\ \/ Snapshot
       \/ \E p \in Pairs : ReadFloor(p) \/ InsertRow(p)
       \/ Commit
    /\ UNCHANGED <<chainVars, sourceVars, sinkVars, noteVars>>

\* The window goes with the cursors of the tick, as it was last saved: a batch
\* that is sent and acked may still wait for its hashes to be saved.
Drain ==
    /\ PersistBegin
    /\ ahead' = (ahead \/ (loop = "save" /\ \E p \in Pairs : Floor(p) > cursor))
    /\ UNCHANGED <<chainVars, sourceVars, sinkVars, vouched, torn, blind>>

Memory(b) ==
    /\ loop' = "load"
    /\ cursor' = b
    /\ resp' = NoResp
    /\ fork' = 0
    /\ tracker' = NoHashes
    /\ inbox' = [s \in Sinks |-> <<>>]
    /\ stage' = [s \in Sinks |-> "recv"]
    /\ UNCHANGED <<chainVars, confirmations, trackerAt, table, vouched, ahead, blind>>

\* The window is purged and the rollback not sent yet, or a sink has not finished
\* with it, or its rewind has been undone by a tick (stale).
RollbackUnderWay == loop = "rollback" \/ (\E s \in Sinks : AwaitsRollback(s)) \/ stale # {}

Kill ==
    /\ Crash
    /\ Memory(FromBlock)
    /\ torn' = (torn \/ RollbackUnderWay)

\* The saved cursor as it is, where none means the configured start.
RestartPointRaw(saved) == saved

\* The saved cursor, never below the configured start.
RestartPoint(saved) == IF saved = Absent THEN FromBlock ELSE Greatest(saved, FromBlock)

\* A sink whose cursor is past the restart point keeps that cursor while it is
\* sent again what lies below.
Restart ==
    /\ Open
    /\ Memory(RestartPoint(RestoreFrom(disk, Src, Sinks)))
    /\ torn' = (torn \/ \E p \in Pairs : disk[p] > cursor')

RInit ==
    /\ Init
    /\ height = StartHeight
    /\ epoch = 0
    /\ born = [b \in Numbers |-> 0]
    /\ confirmations \in Lags
    /\ loop = "load"
    /\ cursor = FromBlock
    /\ resp = NoResp
    /\ fork = 0
    /\ tracker = NoHashes
    /\ trackerAt = [v \in Version |-> NoHashes]
    /\ inbox = [s \in Sinks |-> <<>>]
    /\ stage = [s \in Sinks |-> "recv"]
    /\ table = [s \in Sinks |-> {}]
    /\ vouched = FromBlock - 1
    /\ torn = FALSE
    /\ ahead = FALSE
    /\ blind = {}

SinkStep(s) == Write(s) \/ AckBatch(s) \/ BeginRewind(s) \/ EndRewind(s) \/ GiveUp(s)

RNext ==
    \/ Mine
    \/ \E f \in 1..height : Reorg(f)
    \/ LoadMiss
    \/ Load
    \/ Poll
    \/ EmitRows
    \/ Remember
    \/ LocateFork
    \/ SendRollback
    \/ \E s \in Sinks : SinkStep(s)
    \/ Tick
    \/ Drain
    \/ Kill
    \/ Restart

RSpec == RInit /\ [][RNext]_rvars

-----------------------------------------------------------------------------
(* Properties.                                                               *)

HashWindow == [Numbers -> Epochs \cup {Absent}]
Message == [rows : SUBSET Logs, ack : Blocks, fork : Numbers \cup {Absent}]

RTypeOK ==
    /\ TypeOK
    /\ height \in Numbers
    /\ epoch \in Epochs
    /\ born \in [Numbers -> Epochs]
    /\ confirmations \in Lags
    /\ loop \in {"load", "poll", "emit", "save", "locate", "rollback"}
    /\ cursor \in Blocks
    /\ resp \in [first : Numbers, scanned : Blocks, next : Blocks, chain : [Numbers -> Epochs]]
    /\ fork \in Numbers
    /\ tracker \in HashWindow
    /\ trackerAt \in [Version -> HashWindow]
    /\ inbox \in [Sinks -> Seq(Message)]
    /\ stage \in [Sinks -> {"recv", "written", "rewinding"}]
    /\ table \in [Sinks -> SUBSET Logs]
    /\ vouched \in Int
    /\ torn \in BOOLEAN
    /\ ahead \in BOOLEAN
    /\ blind \subseteq Logs

\* The source is about to poll, and the block before its cursor is not known
\* to have changed: the next answer that scans a block brings no conflict.
NothingNoticed ==
    /\ running
    /\ loop = "poll"
    /\ (cursor > 0 /\ tracker[cursor - 1] # Absent) => tracker[cursor - 1] = born[cursor - 1]

CaughtUp(s) == s \notin paused /\ inbox[s] = <<>>

\* Rows of blocks the window vouches for: a rollback that finds no block to
\* agree on replays the whole window, "coarse", and says nothing of what is
\* below it.
Vouched(rows) == {x \in rows : x[1] > vouched}

\* The rows of the chain as it is, up to the cursor.
Canonical == Vouched(RowsOf(born, FromBlock, cursor))

TablesAreCanonical == NothingNoticed => \A s \in Sinks : CaughtUp(s) => Vouched(table[s]) = Canonical

TablesAreComplete == NothingNoticed => \A s \in Sinks : CaughtUp(s) => Canonical \subseteq table[s]

\* "On mismatch: locate the fork ..., emit a rollback control record, rewind
\* the cursor, and re-ingest" (ARCHITECTURE.md, 5.2): as long as the process is
\* not restarted and does not lag behind the head, no reorg goes unnoticed that
\* has left a sink with a row of an abandoned block or without a row of the
\* chain, however reorgs fall between a query, its batch, the rollback and the
\* rewind.
SinkMatchesChain == (confirmations = 0 /\ crashes = 0) => TablesAreCanonical

\* "a reorg that happens while the pipeline is down is caught on the first poll
\* after resume", "the window is persisted through the checkpoint KV store (same
\* durability tick as the cursors), so detection survives restarts" (reorg.rs):
\* however crashes, restarts and reorgs alternate, no row of the chain is missing
\* below the cursor.  Excepted are a tick whose cursor is that of a batch for
\* which the hashes were saved after the tick had drained the window (ahead), a
\* rollback that not every sink has carried out before it paused or the process
\* died, and a start from a point some sink is already past (torn).
ReorgSurvivesRestart == (confirmations = 0 /\ ~torn /\ ~ahead) => TablesAreComplete

\* Rows of confirmed blocks, or let through by an answer without a height.
Cleared(rows) == \A x \in rows : HasLag(x) \/ x \in blind

\* "never emit past archive_height - confirmations" (plan_step): whatever is
\* mined, replaced, rolled back, sent again or restarted between, no row is in a
\* channel or a table before its block has its confirmations.  Excepted are the
\* rows of an answer that did not tell the height of the archive, which bounds
\* nothing (missing_height_trusts_the_response).
Confirmed ==
    \A s \in Sinks : Cleared(table[s]) /\ \A i \in DOMAIN inbox[s] : Cleared(inbox[s][i].rows)

\* "Reorg deeper than `confirmations`: rollback_guard tracking -> rollback
\* control record" (ARCHITECTURE.md, 8.3): SinkMatchesChain for every lag.
DeepReorgIsNoticed == crashes = 0 => TablesAreCanonical

\* "The window is persisted through the checkpoint KV store (same durability
\* tick as the cursors), so detection survives restarts" (reorg.rs): a crash at
\* any point of the handling of a reorg leaves no row of the chain undelivered.
NoCorrectedBlockSkipped == (confirmations = 0 /\ ~ahead) => TablesAreComplete

-----------------------------------------------------------------------------
(* Why they hold: the inductive invariants of the proofs.                    *)

Holding == loop \in {"emit", "save"}

\* A sink past the start of a batch has the batch in hand, and a response being
\* handled starts at the cursor, reaches beyond it and stops at the lag, if it can.
StepInv ==
    /\ \A s \in Sinks : stage[s] # "recv" => inbox[s] # <<>>
    /\ Holding =>
          /\ resp.first = cursor
          /\ cursor < resp.next
          /\ resp.next <= resp.scanned
          /\ Cleared(RowsOf(resp.chain, resp.first, resp.next))

\* The batches of a sink it has not applied to its table yet.
Pending(s) == {i \in DOMAIN inbox[s] : stage[s] = "recv" \/ i > 1}

\* No rollback that is pending behind position i deletes the row.
Survives(s, x, i) ==
    \A j \in Pending(s) : j > i /\ inbox[s][j].fork # Absent => x[1] <= inbox[s][j].fork

\* What a sink's table will hold when it has applied all that was sent to it.
Applied(s) ==
    {x \in Logs :
        \/ x \in table[s] /\ Survives(s, x, 0)
        \/ \E i \in Pending(s) :
              inbox[s][i].fork = Absent /\ x \in inbox[s][i].rows /\ Survives(s, x, i)}

\* The end of what was sent.
Sent == IF loop = "save" THEN resp.next ELSE cursor

\* Two versions of the chain that have a block in common have all below it in
\* common: a hash stands for its ancestors.
SharePast(one, other) ==
    \A b \in Numbers : one[b] = other[b] => \A a \in Numbers : a <= b => one[a] = other[a]

\* Whatever the chain has become, what the source has delivered is one version
\* of it: the window is of that version, and so is all the sinks have been sent.
Follows(view) ==
    /\ \A b \in Numbers : view[b] <= epoch
    /\ SharePast(view, born)
    /\ \A b \in Known(tracker) : tracker[b] = view[b]
    /\ Holding => resp.chain = view
    /\ \A s \in Sinks \ paused : Vouched(Applied(s)) = Vouched(RowsOf(view, FromBlock, Sent))

\* The window ends with the block before the cursor, or there is none and
\* nothing is claimed of what is below the cursor; the same holds of the cursor
\* that a rollback is about to set.
Anchored ==
    /\ running
    /\ \A b \in Numbers : born[b] <= epoch
    /\ FromBlock <= cursor
    /\ FromBlock - 1 <= vouched
    /\ \A b \in Known(tracker) : FromBlock - 1 <= b /\ b < cursor
    /\ loop = "load" => cursor = FromBlock /\ \A v \in Version : trackerAt[v] = NoHashes
    /\ Holding => resp.next = resp.scanned
    /\ loop = "locate" => Known(tracker) # {}
    /\ IF loop = "rollback"
       THEN /\ fork < cursor
            /\ \A b \in Known(tracker) : b <= fork
            /\ fork \in Known(tracker) \/ (Known(tracker) = {} /\ fork <= vouched)
       ELSE cursor - 1 \in Known(tracker) \/ (Known(tracker) = {} /\ cursor - 1 <= vouched)

FollowInv ==
    (confirmations = 0 /\ crashes = 0) =>
        Anchored /\ \E view \in [Numbers -> Epochs] : Follows(view)

-----------------------------------------------------------------------------
(* Why a reorg survives restarts.                                            *)

\* The window as it was last saved: a start loads it, and then it is the
\* tracker's.
Latest == trackerAt[kvLast[Hashes]]

\* A start after block b with window t notices when b is replaced, or makes no
\* claim of it, or starts below the whole window and will make none.
Rooted(b, t, silent) ==
    b \in Known(t) \/ b <= silent \/ (Known(t) # {} /\ \A c \in Known(t) : b < c)

\* A version of the chain that window t is of, as far as the chain does not
\* contradict the window.
Remembers(view, t, chain, reorgs) ==
    /\ \A b \in Numbers : view[b] <= reorgs
    /\ SharePast(view, chain)
    /\ \A b \in Numbers : t[b] = chain[b] => view[b] = chain[b]

\* No rollback a sink has still to carry out, behind place i of its channel or
\* not sent yet, takes back block b.
Stays(s, b, i) ==
    /\ \A j \in DOMAIN inbox[s] : j > i /\ inbox[s][j].fork # Absent => b <= inbox[s][j].fork
    /\ loop = "rollback" => b <= fork

Forks(s) == {inbox[s][i].fork : i \in DOMAIN inbox[s]} \cup {f \in Numbers : loop = "rollback" /\ f = fork}

\* The cursors a sink has (place 0) and will have as it works off its channel.
Stop(s, i) ==
    IF i = 0 THEN cursors[Pair(s)]
    ELSE IF inbox[s][i].fork = Absent THEN inbox[s][i].ack ELSE inbox[s][i].fork + 1

\* Block b was sent, and its hash was saved unless the batch was sent just now.
Reached(b) == (b < cursor /\ Rooted(b, Latest, vouched)) \/ (loop = "save" /\ b = resp.next - 1)

\* A row is sent behind a cursor above it only when a rollback is between them.
Ordered(s, i) ==
    \A j \in DOMAIN inbox[s] : j > i /\ inbox[s][j].fork = Absent =>
        \A x \in inbox[s][j].rows :
            \/ Stop(s, i) <= x[1]
            \/ \E k \in DOMAIN inbox[s] :
                  i < k /\ k < j /\ inbox[s][k].fork # Absent /\ inbox[s][k].fork < x[1]

StreamInv(s) ==
    \A i \in {0} \cup DOMAIN inbox[s] :
        /\ \A b \in Numbers : b < Stop(s, i) /\ Stays(s, b, i) =>
              b < Sent /\ (b = Stop(s, i) - 1 => Reached(b))
        /\ Ordered(s, i)

\* Where the rows end that a sink has or is about to get.
Edge(s) == IF s \in paused THEN cursors[Pair(s)] ELSE Sent

Tracks(s, view) ==
    /\ Remembers(view, Latest, born, epoch)
    /\ Holding => resp.chain = view
    /\ \A x \in Vouched(RowsOf(view, FromBlock, Edge(s))) :
          (s \in paused => Stays(s, x[1], 0)) => x \in Applied(s)

\* What makes a row r of the cursor table and a version w of the window fit to
\* start from, once the sink has carried out the rollbacks on their way: the
\* table is complete below r, and the window notices when that changes, at r and
\* wherever a rollback may still put r.
Fits(s, r, w) ==
    /\ \E view \in [Numbers -> Epochs] :
          /\ Remembers(view, trackerAt[w], born, epoch)
          /\ \A x \in Vouched(RowsOf(view, FromBlock, r)) : Stays(s, x[1], 0) => x \in table[s]
    /\ \A b \in Numbers : b < r /\ Stays(s, b, 0) =>
          /\ (b = r - 1 \/ b \in Known(Latest) \/ b \in Forks(s)) => Rooted(b, trackerAt[w], vouched)
          /\ running => b < cursor

\* The version and the row that the tick under way will leave on disk.
TickVersion == IF kvTxn[Hashes] = Absent THEN kvDisk[Hashes] ELSE kvTxn[Hashes]
TickRow(p) ==
    IF txn[p] # Absent THEN txn[p]
    ELSE IF hand[p] # Absent THEN hand[p]
    ELSE IF p \in todo THEN Floor(p) ELSE Absent

\* A row and a version are on disk together, or will be.
Durable(s, r, w) ==
    \/ Pair(s) \notin stale /\ r = disk[Pair(s)] /\ w = kvDisk[Hashes]
    \/ ckpt = "rows" /\ Pair(s) \notin staleTxn /\ r = TickRow(Pair(s)) /\ w = TickVersion

DurableInv(s) == \A r \in Cursor, w \in Version : Durable(s, r, w) => Fits(s, r, w)

TickInv(s) ==
    LET p == Pair(s) IN
    /\ (ckpt = "flushing" /\ snap[p] <= cursors[p]) =>
          \A b \in Numbers : b = snap[p] - 1 /\ Stays(s, b, 0) => Reached(b)
    /\ (running /\ cursors[p] = Absent) => disk[p] = Absent
    /\ (ckpt # "idle" /\ snap[p] = Absent) => disk[p] = Absent
    /\ ckpt = "rows" => (txn[p] = Absent <=> p \in todo \/ snap[p] = Absent)
    /\ hand[p] # Absent => \A q \in Pairs : hand[q] # Absent => q = p
    /\ stage[s] = "rewinding" =>
          InHand(s).fork # Absent /\ rewinding[p] = InHand(s).fork + 1 /\ cursors[p] <= InHand(s).fork + 1

\* Hashes from block n on leave room for one before it.
RoomAt(n) == Cardinality({b \in Known(tracker) : b >= n}) < Window

\* The versions of the window are in order, of blocks that have been, and within
\* the window's size.
VersionInv ==
    /\ kvDisk[Hashes] <= kvLast[Hashes] /\ kvTxn[Hashes] <= kvLast[Hashes] /\ kvDropped = {}
    /\ \A b \in Numbers : born[b] <= epoch /\ \A v \in Version : trackerAt[v][b] <= epoch
    /\ Holding => \A b \in Numbers : resp.chain[b] <= epoch
    /\ \A v \in Version : Cardinality(Known(trackerAt[v])) <= Window

\* While the process is down.
DownInv ==
    ~running => /\ loop = "load" /\ cursor = FromBlock
                /\ kvLast = kvDisk /\ stale = {} /\ cursors = NoRows /\ paused = {}

\* The source notices when the block before its cursor is replaced, or makes no
\* claim of it.
LoopInv ==
    /\ FromBlock <= cursor /\ FromBlock - 1 <= vouched
    /\ Holding => resp.next = resp.scanned
    /\ IF loop = "load" THEN Rooted(cursor - 1, Latest, vouched) /\ \A s \in Sinks : inbox[s] = <<>>
       ELSE tracker = Latest
    /\ loop = "rollback" =>
          /\ \A b \in Known(tracker) : b <= fork
          /\ fork <= vouched \/ (fork \in Known(tracker) /\ fork < cursor)
    /\ loop \notin {"load", "rollback"} =>
          /\ RoomAt(cursor) \/ \A b \in Known(tracker) : b <= vouched
          /\ cursor - 1 \in Known(tracker) \/ cursor - 1 <= vouched

WindowInv == VersionInv /\ DownInv /\ LoopInv

RestartInv ==
    (confirmations = 0 /\ ~torn /\ ~ahead) =>
        /\ WindowInv
        /\ \A s \in Sinks :
              /\ StreamInv(s)
              /\ DurableInv(s)
              /\ TickInv(s)
              /\ \E view \in [Numbers -> Epochs] : Tracks(s, view)

=============================================================================

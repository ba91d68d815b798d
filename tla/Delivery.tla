------------------------------ MODULE Delivery ------------------------------
(***************************************************************************)
(* The delivery path of a pipeline with one backfill source and its sinks:  *)
(* the source loop pages through the block range and cuts pages into chunk  *)
(* batches; the source task fans every batch out to the live branches over  *)
(* bounded channels; each sink task writes through a pool of module         *)
(* instances, retries, pauses or acks; the checkpoint task snapshots the    *)
(* watermarks, flushes the sinks and persists; the process may crash at any *)
(* step, be asked to stop, or finish, and be started again.                 *)
(*                                                                          *)
(* The store is CheckpointStore: every step that touches it is one of its   *)
(* actions, conjoined with what the pipeline does in the same step.  The    *)
(* chain does not reorganise here.                                          *)
(*                                                                          *)
(* A row stands for the records of one block that match the query.  A batch *)
(* is the rows it carries and the block its ack advances the cursor to      *)
(* (Batch::ack_block).                                                      *)
(***************************************************************************)
EXTENDS CheckpointStore, Sequences

CONSTANTS
    Src,           \* the source
    FromBlock,     \* first block of the backfill
    ToBlock,       \* end of the backfill (exclusive)
    Rows,          \* blocks that have a matching record
    MaxPage,       \* most blocks the server scans for one query
    FeedCapacity,  \* channel between the source loop and the fan-out
    Capacity,      \* channel into a sink
    Instances,     \* module instances a sink is loaded with
    MaxAttempts,   \* SINK_MAX_ATTEMPTS
    Buffering,     \* sinks that ack a batch before it is stored (s3)
    PutMayFail,    \* whether an upload of a buffering sink may fail
    MayTrap,       \* whether a module call may trap or its task panic
    MaySignal,     \* whether the process may be asked to stop
    Ticks          \* whether the periodic checkpoint is taken at all

ASSUME DeliveryAssumption ==
    /\ Sources = {Src}
    /\ FromBlock \in Nat
    /\ ToBlock \in Nat
    /\ FromBlock <= ToBlock
    /\ Rows \subseteq FromBlock .. (ToBlock - 1)
    /\ Blocks = FromBlock .. ToBlock
    /\ MaxPage \in Nat \ {0}
    /\ FeedCapacity \in Nat \ {0}
    /\ Capacity \in Nat \ {0}
    /\ Instances \in Nat \ {0}
    /\ MaxAttempts \in Nat \ {0}
    /\ Buffering \subseteq Sinks
    /\ PutMayFail \in BOOLEAN
    /\ MayTrap \in BOOLEAN
    /\ MaySignal \in BOOLEAN
    /\ Ticks \in BOOLEAN

Pair(s) == <<Src, s>>
Batch == [rows : SUBSET Rows, ack : Blocks]
Slot == [rows : SUBSET Rows, poisoned : BOOLEAN]
FreshSlot == [rows |-> {}, poisoned |-> FALSE]
FreshPool == [i \in 1..Instances |-> FreshSlot]

VARIABLES
    phase,     \* run: run, ending (stop requested or finished), final
    ended,     \* why the last run ended: no, eof, signal
    stop,      \* the shared stop flag
    ticker     \* the periodic checkpoint task still loops

VARIABLES
    loop,      \* source loop: poll, page, eof, done
    cursor,    \* its cursor
    pageEnd,   \* in page: the cursor after this page (effective_next)
    pos,       \* in page: first block not yet in a chunk
    feed,      \* batches sent to the fan-out, the one in hand included
    fan,       \* fan-out: recv, send, done
    fanTodo,   \* in send: branches the batch in hand has still to reach
    live       \* branches the fan-out still feeds

VARIABLES
    inbox,     \* per sink: batches sent to it, the one in hand included
    task,      \* per sink: recv, writing, retry, written, done
    attempt,   \* per sink: failed writes of the batch in hand
    pool,      \* per sink: instances not in use
    out,       \* per sink, in writing: the instance in use
    durable,   \* per sink: rows the outside system has stored
    toFlush    \* sinks the checkpoint under way has still to flush

VARIABLE exposed  \* history: acked rows that left or escaped the flush unstored

runVars == <<phase, ended, stop, ticker>>
sourceVars == <<loop, cursor, pageEnd, pos, feed>>
fanVars == <<fan, fanTodo, live>>
sinkVars == <<inbox, task, attempt, pool, out, durable, exposed>>
deliveryVars == <<runVars, sourceVars, fanVars, sinkVars, toFlush>>
dvars == <<vars, deliveryVars>>

-----------------------------------------------------------------------------
(* The source loop (HyperSyncSource::run, mode backfill).                    *)

FeedRoom == Len(feed) < FeedCapacity + (IF fan = "send" THEN 1 ELSE 0)

\* Send a batch to the fan-out.  The receiving end belongs to source_task,
\* which waits for this loop before it drops it: a send never fails, and one
\* into a full channel that nobody reads any more never returns.
Send(m, next) ==
    /\ FeedRoom
    /\ feed' = Append(feed, m)
    /\ loop' = next

\* One query: the server scanned up to some block beyond the cursor, or the
\* cursor is at the end of the range.  A failed query and a server that has
\* not got further are the absence of this step (back-off, Step::Wait).
Query ==
    /\ running
    /\ loop = "poll"
    /\ ~stop
    /\ \/ /\ \E next \in (cursor + 1) .. Least(cursor + MaxPage, ToBlock) : pageEnd' = next
          /\ loop' = "page"
          /\ pos' = cursor
       \/ /\ cursor >= ToBlock
          /\ loop' = "eof"
          /\ UNCHANGED <<pageEnd, pos>>
    /\ UNCHANGED <<vars, runVars, cursor, feed, fanVars, sinkVars, toFlush>>

\* Where the loop goes with the cursor at block b.
After(b) == IF b >= ToBlock THEN "eof" ELSE "poll"

PageRows(from, to) == {r \in Rows : from <= r /\ r < to}

\* Every chunk acks the end of the range.
AckRangeEnd(last) == pageEnd

\* Only the final chunk of a range may advance the cursor; earlier chunks pin
\* it to the range start.
ChunkAck(last) == IF last THEN pageEnd ELSE cursor

\* The next chunk of the page, cut after some row (max_records is arbitrary);
\* after the last one the loop takes the page end as its cursor.
SendChunk ==
    /\ running
    /\ loop = "page"
    /\ \E r \in PageRows(pos, pageEnd) :
          LET last == PageRows(r + 1, pageEnd) = {} IN
          /\ Send([rows |-> PageRows(pos, r + 1), ack |-> ChunkAck(last)],
                  IF last THEN After(pageEnd) ELSE "page")
          /\ pos' = IF last THEN pageEnd ELSE r + 1
          /\ cursor' = IF last THEN pageEnd ELSE cursor
    /\ UNCHANGED <<vars, runVars, pageEnd, fanVars, sinkVars, toFlush>>

\* A page without a matching record sends nothing.
EmptyPage ==
    /\ running
    /\ loop = "page"
    /\ PageRows(cursor, pageEnd) = {}
    /\ loop' = After(pageEnd)
    /\ cursor' = pageEnd
    /\ pos' = pageEnd
    /\ UNCHANGED <<vars, runVars, pageEnd, feed, fanVars, sinkVars, toFlush>>

\* The range is complete: send the EOF control batch and return.
SendEof ==
    /\ running
    /\ loop = "eof"
    /\ Send([rows |-> {}, ack |-> cursor], "done")
    /\ UNCHANGED <<vars, runVars, cursor, pageEnd, pos, fanVars, sinkVars, toFlush>>

SourceStops ==
    /\ running
    /\ loop = "poll"
    /\ stop
    /\ loop' = "done"
    /\ UNCHANGED <<vars, runVars, cursor, pageEnd, pos, feed, fanVars, sinkVars, toFlush>>

-----------------------------------------------------------------------------
(* The fan-out (source_task, fan_out).                                       *)

FanRecv ==
    /\ running
    /\ fan = "recv"
    /\ feed # <<>>
    /\ fan' = "send"
    /\ fanTodo' = live
    /\ UNCHANGED <<vars, runVars, sourceVars, live, sinkVars, toFlush>>

InboxRoom(s) == Len(inbox[s]) < Capacity + (IF task[s] = "recv" THEN 0 ELSE 1)

FanSend(s) ==
    /\ running
    /\ fan = "send"
    /\ s \in fanTodo
    /\ s \notin paused
    /\ InboxRoom(s)
    /\ inbox' = [inbox EXCEPT ![s] = Append(@, Head(feed))]
    /\ fanTodo' = fanTodo \ {s}
    /\ UNCHANGED <<vars, runVars, sourceVars, fan, live>>
    /\ UNCHANGED <<task, attempt, pool, out, durable, exposed, toFlush>>

\* A fan-out that gives up at the first branch that is gone.
FanDropGivesUp(s) ==
    /\ running
    /\ fan = "send"
    /\ s \in fanTodo
    /\ s \in paused
    /\ fanTodo' = {}
    /\ live' = {}
    /\ UNCHANGED <<vars, runVars, sourceVars, fan, sinkVars, toFlush>>

\* A branch whose receiver is gone is dropped; its siblings go on.
FanDrop(s) ==
    /\ running
    /\ fan = "send"
    /\ s \in fanTodo
    /\ s \in paused
    /\ fanTodo' = fanTodo \ {s}
    /\ live' = live \ {s}
    /\ UNCHANGED <<vars, runVars, sourceVars, fan, sinkVars, toFlush>>

\* The batch has reached every branch; with none left the loop is told to stop
\* and is waited for (what is left in feed is never read).
FanSent ==
    /\ running
    /\ fan = "send"
    /\ fanTodo = {}
    /\ feed' = Tail(feed)
    /\ fan' = IF live = {} THEN "done" ELSE "recv"
    /\ stop' = (stop \/ live = {})
    /\ UNCHANGED <<vars, phase, ended, ticker, loop, cursor, pageEnd, pos>>
    /\ UNCHANGED <<fanTodo, live, sinkVars, toFlush>>

FanEnds ==
    /\ running
    /\ fan = "recv"
    /\ feed = <<>>
    /\ loop = "done"
    /\ fan' = "done"
    /\ UNCHANGED <<vars, runVars, sourceVars, fanTodo, live, sinkVars, toFlush>>

-----------------------------------------------------------------------------
(* A sink task (sink_task) and the instance pool it writes through           *)
(* (WasmSink::write).                                                        *)

TaskRuns(s, where) == running /\ s \notin paused /\ task[s] = where

\* The last instance of the pool is taken out for a call to write; an empty
\* pool makes a fresh one.
Checkout(s) ==
    /\ task' = [task EXCEPT ![s] = "writing"]
    /\ IF pool[s] = <<>>
       THEN out' = [out EXCEPT ![s] = FreshSlot] /\ UNCHANGED pool
       ELSE /\ out' = [out EXCEPT ![s] = pool[s][Len(pool[s])]]
            /\ pool' = [pool EXCEPT ![s] = SubSeq(@, 1, Len(@) - 1)]
    /\ UNCHANGED <<vars, runVars, sourceVars, fanVars, inbox, attempt, durable, exposed, toFlush>>

Recv(s) ==
    /\ TaskRuns(s, "recv")
    /\ inbox[s] # <<>>
    /\ Checkout(s)

\* The next attempt, after the back-off.
Retry(s) == TaskRuns(s, "retry") /\ Checkout(s)

InHand(s) == Head(inbox[s]).rows

\* The instance goes back to the pool holding the rows kept, and stored rows
\* have reached the outside system.
PutBack(s, kept, stored) ==
    /\ pool' = [pool EXCEPT ![s] = Append(@, [rows |-> kept, poisoned |-> FALSE])]
    /\ out' = [out EXCEPT ![s] = FreshSlot]
    /\ durable' = [durable EXCEPT ![s] = @ \cup stored]

\* write returns Ok.  A buffering sink may keep the rows, or upload all it
\* holds when enough rows have gathered.
WriteOk(s) ==
    /\ TaskRuns(s, "writing")
    /\ ~out[s].poisoned
    /\ IF s \in Buffering
       THEN \/ PutBack(s, out[s].rows \cup InHand(s), {})
            \/ InHand(s) # {} /\ PutBack(s, {}, out[s].rows \cup InHand(s))
       ELSE PutBack(s, {}, InHand(s))
    /\ task' = [task EXCEPT ![s] = "written"]
    /\ UNCHANGED <<vars, runVars, sourceVars, fanVars, inbox, attempt, exposed, toFlush>>

\* The task returns: its end of the channel goes, with what is in it.
TaskReturns(s) ==
    /\ Pause(s)
    /\ inbox' = [inbox EXCEPT ![s] = <<>>]

\* One more failed attempt: retry, or pause the branch.
Failed(s) ==
    /\ attempt' = [attempt EXCEPT ![s] = @ + 1]
    /\ task' = [task EXCEPT ![s] = "retry"]
    /\ IF attempt[s] + 1 >= MaxAttempts THEN TaskReturns(s) ELSE UNCHANGED <<vars, inbox>>

\* write returns Err and keeps the instance.  A write-through sink may have
\* stored the batch all the same.  A buffering sink has taken the rows out of
\* its buffer before the upload that failed, or keeps them (encoding failed).
WriteErr(s) ==
    /\ TaskRuns(s, "writing")
    /\ ~out[s].poisoned
    /\ IF s \in Buffering
       THEN /\ PutMayFail
            /\ InHand(s) # {}
            /\ \/ /\ PutBack(s, {}, {})
                  /\ exposed' = [exposed EXCEPT ![s] = @ \cup out[s].rows]
               \/ /\ PutBack(s, out[s].rows \cup InHand(s), {})
                  /\ UNCHANGED exposed
       ELSE /\ \E stored \in {{}, InHand(s)} : PutBack(s, {}, stored)
            /\ UNCHANGED exposed
    /\ Failed(s)
    /\ UNCHANGED <<runVars, sourceVars, fanVars, toFlush>>

\* The call traps: the instance is dropped, with whatever it held.
WriteTrap(s) ==
    /\ TaskRuns(s, "writing")
    /\ MayTrap \/ out[s].poisoned
    /\ out' = [out EXCEPT ![s] = FreshSlot]
    /\ \E stored \in (IF s \in Buffering \/ out[s].poisoned THEN {{}} ELSE {{}, InHand(s)}) :
          durable' = [durable EXCEPT ![s] = @ \cup stored]
    /\ exposed' = [exposed EXCEPT ![s] = @ \cup out[s].rows]
    /\ Failed(s)
    /\ UNCHANGED <<runVars, sourceVars, fanVars, pool, toFlush>>

\* The blocking task panics: the branch pauses at once.
WritePanic(s) ==
    /\ TaskRuns(s, "writing")
    /\ MayTrap
    /\ out' = [out EXCEPT ![s] = FreshSlot]
    /\ exposed' = [exposed EXCEPT ![s] = @ \cup out[s].rows]
    /\ TaskReturns(s)
    /\ UNCHANGED <<runVars, sourceVars, fanVars, task, attempt, pool, durable, toFlush>>

\* The accepted batch is acked.
AckBatch(s) ==
    /\ TaskRuns(s, "written")
    /\ Ack(Pair(s), Head(inbox[s]).ack)
    /\ inbox' = [inbox EXCEPT ![s] = Tail(@)]
    /\ task' = [task EXCEPT ![s] = "recv"]
    /\ attempt' = [attempt EXCEPT ![s] = 0]
    /\ UNCHANGED <<runVars, sourceVars, fanVars, pool, out, durable, exposed, toFlush>>

\* The wiring map keeps a sender to every sink: no channel ever closes.
WiringKept == FALSE

\* Every sender to the sinks is dropped: the wiring map's before the run
\* starts to wait, the fan-out's when the source task returns.
SendersGone == fan = "done"

SinkEnds(s) ==
    /\ TaskRuns(s, "recv")
    /\ inbox[s] = <<>>
    /\ SendersGone
    /\ task' = [task EXCEPT ![s] = "done"]
    /\ UNCHANGED <<vars, runVars, sourceVars, fanVars, inbox, attempt, pool, out, durable, exposed, toFlush>>

-----------------------------------------------------------------------------
(* The checkpoint task (checkpoint_once) and WasmSink::flush.                *)

\* A checkpoint that persists the snapshot without flushing the sinks.
TickWithoutFlush ==
    /\ phase = "run"
    /\ ticker
    /\ Snapshot
    /\ toFlush' = {}
    /\ UNCHANGED <<runVars, sourceVars, fanVars, sinkVars>>

\* The periodic checkpoint: snapshot first, then every sink is to be flushed.
Tick ==
    /\ phase = "run"
    /\ ticker
    /\ Snapshot
    /\ toFlush' = Sinks
    /\ UNCHANGED <<runVars, sourceVars, fanVars, sinkVars>>

\* At the end of a tick the task looks at the stop flag.
TickerGoesOn == ticker' = (ticker /\ ~(ckpt' = "idle" /\ stop))

Held(slots) == UNION {slots[i].rows : i \in DOMAIN slots}

Emptied(slots) == [i \in DOMAIN slots |-> [slots[i] EXCEPT !.rows = {}]]

\* flush holds the pool's lock and flushes every instance in it; the one a
\* write has out is not in it.
FlushOk(s) ==
    /\ running
    /\ ckpt = "flushing"
    /\ s \in toFlush
    /\ \A i \in DOMAIN pool[s] : ~pool[s][i].poisoned
    /\ durable' = [durable EXCEPT ![s] = @ \cup Held(pool[s])]
    /\ pool' = [pool EXCEPT ![s] = Emptied(@)]
    /\ exposed' = [exposed EXCEPT ![s] = @ \cup out[s].rows]
    /\ toFlush' = toFlush \ {s}
    /\ UNCHANGED <<vars, runVars, sourceVars, fanVars, inbox, task, attempt, out>>

\* Instance i fails to flush and ends the checkpoint: it traps (and stays in
\* the pool, poisoned), or its upload fails with the rows taken from its
\* buffer, or encoding fails with the rows kept.
FlushErr(s) ==
    /\ s \in toFlush
    /\ FlushFails
    /\ \E i \in DOMAIN pool[s] :
          LET slots == pool[s]
              Leave(slot, lost) ==
                  /\ pool' = [pool EXCEPT ![s] = [j \in DOMAIN slots |->
                         CASE j < i -> [slots[j] EXCEPT !.rows = {}]
                           [] j = i -> slot
                           [] j > i -> slots[j]]]
                  /\ exposed' = [exposed EXCEPT ![s] = @ \cup lost]
          IN
          /\ \A j \in 1..(i - 1) : ~slots[j].poisoned
          /\ durable' = [durable EXCEPT ![s] = @ \cup UNION {slots[j].rows : j \in 1..(i - 1)}]
          /\ \/ (MayTrap \/ slots[i].poisoned) /\ Leave([slots[i] EXCEPT !.poisoned = TRUE], {})
             \/ /\ s \in Buffering /\ PutMayFail /\ slots[i].rows # {} /\ ~slots[i].poisoned
                /\ \/ Leave(FreshSlot, slots[i].rows)
                   \/ Leave(slots[i], {})
    /\ toFlush' = {}
    /\ TickerGoesOn
    /\ UNCHANGED <<phase, ended, stop, sourceVars, fanVars, inbox, task, attempt, out>>

Persist ==
    \/ /\ toFlush = {}
       /\ PersistBegin
    \/ \E p \in Pairs : ReadFloor(p) \/ InsertRow(p)
    \/ Commit
    \/ PersistFails

PersistStep ==
    /\ Persist
    /\ TickerGoesOn
    /\ UNCHANGED <<phase, ended, stop, sourceVars, fanVars, sinkVars, toFlush>>

-----------------------------------------------------------------------------
(* The process (run).                                                        *)

\* The end of the run: the periodic checkpoint is aborted where it is.
Ending(why) ==
    /\ running
    /\ phase = "run"
    /\ phase' = "ending"
    /\ ended' = why
    /\ ticker' = FALSE
    /\ toFlush' = {}
    /\ IF ckpt = "idle" THEN UNCHANGED vars ELSE CheckpointAborted
    /\ UNCHANGED <<sourceVars, fanVars, sinkVars>>

\* SIGINT or SIGTERM.
Signal == MaySignal /\ Ending("signal") /\ stop' = TRUE

\* Every task has returned.
AllDone ==
    /\ loop = "done"
    /\ fan = "done"
    /\ \A s \in Sinks : s \in paused \/ task[s] = "done"
    /\ Ending("eof")
    /\ UNCHANGED stop

\* The final checkpoint, whatever the tasks are still doing.
FinalTick ==
    /\ phase = "ending"
    /\ Snapshot
    /\ phase' = "final"
    /\ toFlush' = Sinks
    /\ UNCHANGED <<ended, stop, ticker, sourceVars, fanVars, sinkVars>>

\* The memory of a process that starts at block b; of one that has ended,
\* nothing is left, which is written as the memory of a start.
Memory(b) ==
    /\ phase' = "run"
    /\ ended' = "no"
    /\ stop' = FALSE
    /\ ticker' = Ticks
    /\ loop' = "poll"
    /\ cursor' = b
    /\ pageEnd' = b
    /\ pos' = b
    /\ feed' = <<>>
    /\ fan' = "recv"
    /\ fanTodo' = {}
    /\ live' = Sinks
    /\ inbox' = [s \in Sinks |-> <<>>]
    /\ task' = [s \in Sinks |-> "recv"]
    /\ attempt' = [s \in Sinks |-> 0]
    /\ pool' = [s \in Sinks |-> FreshPool]
    /\ out' = [s \in Sinks |-> FreshSlot]
    /\ toFlush' = {}
    /\ UNCHANGED <<durable, exposed>>

\* run returns: the process exits and its tasks with it.
Exit == phase = "final" /\ Shutdown /\ Memory(FromBlock)

\* kill -9, at any point.
Kill == Crash /\ Memory(FromBlock)

\* The saved cursor as it is, where none means the configured start.
RestartPointRaw(table) == RestoreFrom(table, Src, Sinks)

\* The restart point: a start above a slow sink's cursor.
RestartPointOfFastest(table) ==
    IF \A s \in Sinks : table[Pair(s)] = Absent THEN FromBlock
    ELSE CHOOSE n \in {table[Pair(s)] : s \in Sinks} : \A s \in Sinks : n >= table[Pair(s)]

\* The least cursor over the sinks, never below the configured start; with a
\* sink that has none, the configured start.
RestartPoint(table) ==
    LET saved == RestoreFrom(table, Src, Sinks)
    IN  IF saved = Absent THEN FromBlock ELSE Greatest(saved, FromBlock)

Restart == Open /\ Memory(RestartPoint(disk))

DInit ==
    /\ Init
    /\ phase = "run"
    /\ ended = "no"
    /\ stop = FALSE
    /\ ticker = Ticks
    /\ loop = "poll"
    /\ cursor = FromBlock
    /\ pageEnd = FromBlock
    /\ pos = FromBlock
    /\ feed = <<>>
    /\ fan = "recv"
    /\ fanTodo = {}
    /\ live = Sinks
    /\ inbox = [s \in Sinks |-> <<>>]
    /\ task = [s \in Sinks |-> "recv"]
    /\ attempt = [s \in Sinks |-> 0]
    /\ pool = [s \in Sinks |-> FreshPool]
    /\ out = [s \in Sinks |-> FreshSlot]
    /\ durable = [s \in Sinks |-> {}]
    /\ toFlush = {}
    /\ exposed = [s \in Sinks |-> {}]

SourceStep == Query \/ SendChunk \/ EmptyPage \/ SendEof \/ SourceStops

FanStep == FanRecv \/ FanSent \/ FanEnds \/ \E s \in Sinks : FanSend(s) \/ FanDrop(s)

WriteReturns(s) == WriteOk(s) \/ WriteErr(s) \/ WriteTrap(s) \/ WritePanic(s)

SinkStep(s) == Recv(s) \/ Retry(s) \/ WriteReturns(s) \/ AckBatch(s) \/ SinkEnds(s)

CheckpointStep == PersistStep \/ \E s \in Sinks : FlushOk(s) \/ FlushErr(s)

DNext ==
    \/ SourceStep
    \/ FanStep
    \/ \E s \in Sinks : SinkStep(s)
    \/ Tick
    \/ CheckpointStep
    \/ Signal
    \/ AllDone
    \/ FinalTick
    \/ Exit
    \/ Kill
    \/ Restart

DSpec == DInit /\ [][DNext]_dvars

\* Every task of the runtime is scheduled, every query and every module call
\* returns in the end (HTTP and epoch time-outs); nobody has to send a signal,
\* kill the process or start it again.
Fairness ==
    /\ WF_dvars(SourceStep)
    /\ WF_dvars(FanStep)
    /\ \A s \in Sinks : WF_dvars(SinkStep(s))
    /\ WF_dvars(CheckpointStep)
    /\ WF_dvars(AllDone)
    /\ WF_dvars(FinalTick)
    /\ WF_dvars(Exit)

FairDSpec == DSpec /\ Fairness

-----------------------------------------------------------------------------
(* Properties.                                                               *)

DTypeOK ==
    /\ TypeOK
    /\ phase \in {"run", "ending", "final"}
    /\ ended \in {"no", "eof", "signal"}
    /\ stop \in BOOLEAN
    /\ ticker \in BOOLEAN
    /\ loop \in {"poll", "page", "eof", "done"}
    /\ cursor \in Blocks
    /\ pageEnd \in Blocks
    /\ pos \in Blocks
    /\ feed \in Seq(Batch)
    /\ fan \in {"recv", "send", "done"}
    /\ fanTodo \subseteq live
    /\ live \subseteq Sinks
    /\ inbox \in [Sinks -> Seq(Batch)]
    /\ task \in [Sinks -> {"recv", "writing", "retry", "written", "done"}]
    /\ attempt \in [Sinks -> 0..MaxAttempts]
    /\ pool \in [Sinks -> Seq(Slot)]
    /\ out \in [Sinks -> Slot]
    /\ durable \in [Sinks -> SUBSET Rows]
    /\ exposed \in [Sinks -> SUBSET Rows]
    /\ toFlush \subseteq Sinks

\* "Never lost, possibly repeated": at any instant, every row below a sink's
\* persisted cursor is stored by that sink's system, so that a crash now loses
\* nothing.  Excepted are rows of a buffering sink that were in an instance a
\* write had out while a flush passed, in a buffer whose upload failed, or in
\* an instance that trapped (exposed).
NoLoss ==
    \A s \in Sinks : \A r \in Rows :
        (r < disk[Pair(s)] /\ r \notin exposed[s]) => r \in durable[s]

\* The same as an implementation of AtLeastOnce, rows of the exception counted
\* as stored: in addition no tick, failed tick, crash or restart ever moves a
\* persisted cursor back, and nothing stored is ever withdrawn.
Promise == INSTANCE AtLeastOnce WITH
    stored    <- [s \in Sinks |-> durable[s] \cup exposed[s]],
    committed <- [s \in Sinks |-> disk[Pair(s)]],
    Cursors   <- Cursor

DeliversAtLeastOnce == Promise!Spec

\* "a producer that gave up here would silently truncate every sibling branch
\* and still let the pipeline report a clean EOF" (fan_out): when the run
\* reports that it finished, every branch that is not paused has acked the
\* whole range and holds or has stored every row of it.
EofIsComplete ==
    (running /\ ended = "eof") => \A s \in Sinks \ paused :
        /\ cursors[Pair(s)] = ToBlock
        /\ Rows \subseteq durable[s] \cup Held(pool[s]) \cup exposed[s]

\* As long as one branch consumes, the backfill comes to its end and the
\* process exits, whatever writes, flushes and transactions fail on the way and
\* however the bounded channels fill.
BackfillEnds == <>(~running \/ Sinks \subseteq paused)

\* "stopping the source is what unblocks its loop and lets the process wind
\* down" (source_task): when the last branch is paused the process exits.
WindsDown == (running /\ Sinks \subseteq paused) ~> ~running

\* NoLoss without the exception: "duplicates possible, loss impossible".
NothingEverLost ==
    \A s \in Sinks : \A r \in Rows : r < disk[Pair(s)] => r \in durable[s]

-----------------------------------------------------------------------------
(* NoLoss as an induction hypothesis: where a row is, from the query that     *)
(* found it to the system that stores it.                                     *)

\* r is stored, or accounted for as an exception.
Stored(s, r) == r \in durable[s] \/ r \in exposed[s]

\* r is stored or an instance of the sink holds it.
Safe(s, r) ==
    \/ Stored(s, r)
    \/ r \in out[s].rows
    \/ \E i \in DOMAIN pool[s] : r \in pool[s][i].rows

\* r is in one of the first n batches of a channel.
Carried(channel, n, r) == \E i \in 1..n : r \in channel[i].rows

\* A write-through sink keeps nothing in its instances.
HoldsNothing(s) ==
    /\ out[s].rows = {}
    /\ \A i \in DOMAIN pool[s] : pool[s][i].rows = {}

\* What each task has in hand, and the source's place in its page.
HandInv ==
    /\ fan = "send" => feed # <<>>
    /\ \A s \in Sinks : (s \notin paused /\ task[s] \in {"writing", "retry", "written"}) => inbox[s] # <<>>
    /\ \A s \in Sinks : s \in paused \/ (s \in live /\ attempt[s] < MaxAttempts)
    /\ \A s \in Sinks : task[s] # "writing" => out[s] = FreshSlot
    /\ FromBlock <= cursor /\ cursor <= pos
    /\ loop # "page" => pos = cursor
    /\ loop = "page" => pos <= pageEnd
    /\ \A s \in Sinks \ Buffering : HoldsNothing(s)

\* The values a tick carries from the snapshot to a sink's row of the table.
TickRow(s) ==
    LET p == Pair(s) IN
    /\ running => disk[p] <= cursors[p]
    /\ ckpt # "idle" => disk[p] <= snap[p] /\ snap[p] <= cursors[p]
    /\ hand[p] # Absent => disk[p] <= hand[p] /\ hand[p] <= snap[p]
    /\ txn[p] # Absent => disk[p] <= txn[p] /\ txn[p] <= snap[p]

TickInv ==
    /\ ckpt = "idle" => snap = NoRows
    /\ ckpt = "rows" => toFlush = {}
    /\ \A s \in Sinks : TickRow(s)

\* Rows below a cursor: the persisted one, the snapshot once the sink is
\* flushed, the watermark.
CursorInv ==
    \A s \in Sinks : \A r \in Rows :
        /\ r < disk[Pair(s)] => Stored(s, r)
        /\ (ckpt # "idle" /\ s \notin toFlush /\ r < snap[Pair(s)]) => Stored(s, r)
        /\ (running /\ r < cursors[Pair(s)]) => Safe(s, r)

\* r has got as far as the sink's channel.
Arrived(s, r) == Safe(s, r) \/ Carried(inbox[s], Len(inbox[s]), r)

\* A row on its way to a sink: below the block a batch acks, it is safe or
\* travels in that batch or before it.
StreamAt(s, r) ==
    /\ \A i \in DOMAIN inbox[s] : r < inbox[s][i].ack => (Safe(s, r) \/ Carried(inbox[s], i, r))
    /\ \A i \in DOMAIN feed : r < feed[i].ack => (Arrived(s, r) \/ Carried(feed, i, r))
    /\ (fan = "send" /\ s \notin fanTodo /\ r \in feed[1].rows) => Arrived(s, r)
    /\ (task[s] = "written" /\ r \in inbox[s][1].rows) => Safe(s, r)
    /\ r < pos => (Arrived(s, r) \/ Carried(feed, Len(feed), r))

StreamInv == running => \A s \in Sinks \ paused : \A r \in Rows : StreamAt(s, r)

DeliveryInv == DTypeOK /\ PhaseInv /\ HandInv /\ TickInv /\ CursorInv /\ StreamInv

-----------------------------------------------------------------------------
(* EofIsComplete as an induction hypothesis: where the batch that ends the    *)
(* range is, on its way to a branch that is not paused.                       *)

\* The sink has acked the end of the range, or the batch that acks it is in its
\* channel or still to be fanned out to it.
EndReaches(s) ==
    \/ cursors[Pair(s)] = ToBlock
    \/ \E i \in DOMAIN inbox[s] : inbox[s][i].ack = ToBlock
    \/ \E i \in DOMAIN feed : feed[i].ack = ToBlock /\ ~(i = 1 /\ fan = "send" /\ s \notin fanTodo)

\* Until the run ends the stop flag is raised only when no branch is left; a
\* fan-out with a branch left returns only with the loop done and nothing to
\* send.
StopInv ==
    /\ loop = "eof" => cursor = ToBlock
    /\ phase = "run" => ended = "no"
    /\ (stop /\ phase = "run") => live = {}
    /\ fan = "done" => (live = {} \/ (feed = <<>> /\ loop = "done"))

BranchEnds(s) ==
    /\ task[s] = "done" => (fan = "done" /\ inbox[s] = <<>>)
    /\ (phase = "run" /\ loop = "done") => EndReaches(s)
    /\ ended = "eof" => (task[s] = "done" /\ cursors[Pair(s)] = ToBlock)

EndInv == running => (StopInv /\ \A s \in Sinks \ paused : BranchEnds(s))

=============================================================================

# Hyperpipe: specifications, model checking and proofs

Hyperpipe reads logs of a blockchain from a HyperSync server and delivers them
through WebAssembly processors to WebAssembly sinks (Postgres, S3, webhook),
at least once per sink, with resumable cursors and handling of chain reorgs.
This directory holds TLA+ modules of the parts of it in which the order of
steps matters, a module that puts a whole process together from the document
to what the sinks hold, TLC configurations that check them on small instances,
and proofs, checked by TLAPS, that what matters most holds for every value of
the constants.  Paths below are relative to `src/`; `pipeline.rs` is
`crates/cli/src/pipeline.rs`, `checkpoint.rs` is `crates/engine/src/checkpoint.rs`.

## 1. The system

| Component | State | Operations | Hard because |
|---|---|---|---|
| **Checkpoint store** `checkpoint.rs` | watermark per (source, sink) in memory and in SQLite; module key/value pairs: dirty map, cache, SQLite | `open`, `ack`, `rewind`, `snapshot`, `persist_snapshot`, `restore`, KV `get`, `set` | mutexes are released before SQLite is awaited; a rewind races a tick; a transaction may fail after values were drained for it |
| **Checkpoint task** `pipeline.rs` `run`, `checkpoint_once` | where the tick is | snapshot, flush every sink, persist; final checkpoint | runs against sinks that keep writing; is aborted at shutdown wherever it is |
| **Supervisor** `run`, `shutdown_signal`, `futures_join_all` | tasks, wiring of channels, the stop flag | start with restored cursors, wait for a signal or for all tasks, final checkpoint, exit | decides which senders are alive, hence whether channels ever close |
| **Source task, fan-out** `source_task`, `fan_out` | internal channel, live branches | forward each batch to each branch, drop dead branches | bounded channels block; the wait for the source loop while its channel is full |
| **Processor task** `processor_task` | live branches | process a batch, forward the output | an error drops the batch; an output without records still has to move the cursor |
| **Sink task** `sink_task` | batch in hand, attempts | write, retry, pause the branch, ack, rewind on a rollback | acks what a sink may hold only in memory |
| **Sink instance pool** `crates/wasm-host` `WasmSink` | free instances, each with the state of its module | take one out, put it back, drop it on a trap, flush those that are in | a flush misses the instance that a write has out |
| **HyperSync source** `crates/source-hypersync/src/lib.rs` | cursor, response in hand, tracker | query, plan, chunk, send, EOF; locate fork, roll back | several awaits between reading the chain and remembering what it said |
| **Reorg tracker** `reorg.rs` | window of block hashes | `record`, `conflict`, `last_matching`, `purge_after`, `trim`, `save`, `load` | what it does not remember it cannot contradict |
| **HyperSync client** `client.rs` | none | `query`, `block_hashes`, `archive_height` | partial answers |
| **S3 sink** `modules/s3-sink` | rows buffered per chain | `write`, `flush`, `on_control` | acks before it stores; empties the buffer before the upload |
| **Postgres sink** `modules/postgres-sink` | whether the table was created | upsert, DELETE on rollback | at-least-once writes, rollback deletes |
| **Webhook sink** `modules/webhook-sink` | none | POST of chunks, forwards rollbacks | at-least-once |
| **Component cache** `crates/wasm-host` `compile`, `write_cache_entry` | files of one directory | look up, compile, write a temporary file, rename | shared by processes whose ids repeat; a process may die between any two steps |
| **Host calls** `host_impl.rs` | grants, pools of connections | SQL batch, HTTP, blobs, KV, metrics | checks of grants; a call may take effect and be reported as failed |
| **Configuration** `crates/engine/src/config` | none | shape, secrets, defaults, endpoints, the rules on the graph and the grants | graph algorithms; the order of substitution and parsing decides what errors quote |
| **Batch model** `crates/encoding` | none | envelope, derive, control batches | every stage has to keep the ack pin |
| **Health server** `crates/cli/src/health.rs` | one state byte | answer probes | - |
| **Pure processors** `modules/filter`, `modules/evm-abi-decoder` | none | filter a record, decode a log | integers as text in several encodings; one broken log fails its batch |
| **Module SDK, small modules** `modules/sdk`, stdout, blackhole, chaos | the module's own | init, process, write, flush, on_control | which calls reach on_control |

Interactions: the source loop sends batches into an internal channel; the
source task passes each to the channel of every consumer, through processors
to sinks.  A sink task acks to the store, or rewinds it on a rollback batch.
The checkpoint task reads the watermarks, flushes sinks through their pools and
writes cursors and module state in one transaction.  Modules and the source
read and write the KV part of the store.  The stop flag is shared by all.

What makes each correct, in a sentence:

- store: what SQLite says is never ahead of what memory has vouched for, and
  module state is not behind the cursors it is committed with;
- delivery: no row below a persisted cursor is missing in the sink's system,
  whatever fails, and a run that reports its end has served every live branch;
- progress: one branch that is stuck or gone does not stop the others, and the
  process ends;
- reorgs: a sink's table holds what the chain holds, up to the cursor;
- configuration: what is accepted can be run, and an error shows no secret but one
  that stands where the rule it is about quotes a string;
- the cache: what `compile` returns is whole, whoever else writes the files;
- the whole: a sink that has reached the end of its ranges holds exactly what
  the chain, the filters and the ABI say it should.

`PROJECT.json` lists every component with what is and what is not modelled, and
the hazards, each at its line with the properties that cover it.

## 2. Modules

| Module | Models | Lines of code it stands for |
|---|---|---|
| `CheckpointStore` | the store and the tick that drives it | `checkpoint.rs` 22-237, `pipeline.rs` 328-351, 479-528 |
| `CheckpointStoreProofs` | proofs about it | |
| `AtLeastOnce` | the promise of delivery, with nothing of how | ARCHITECTURE.md 8.1 |
| `Delivery` | one backfill source, fan-out, sink tasks, instance pools, checkpoints, the process; extends `CheckpointStore` | `pipeline.rs` 98-334, 389-588, `wasm-host/src/lib.rs` 505-580, the source loop |
| `DeliveryProofs` | proofs about it, that it implements `AtLeastOnce`, and that a reported end is complete | |
| `ReorgSource` | a live source with its window of hashes, a chain that reorganises, sinks that delete; extends `CheckpointStore` | `source-hypersync/src/lib.rs` 84-324, `reorg.rs`, Postgres `on_control` |
| `ReorgSourceProofs` | proofs about it | |
| `ReorgWindowProofs` | the window of hashes across saves, ticks, crashes and restarts | |
| `ReorgRestartProofs` | proof that a reorg survives restarts | |
| `Values` | JSON scalars as the code reads them | `client.rs` 292-305, `filter.rs` 118-125 |
| `ConfigLoad` | `Config::load_str` and the graph | `config/mod.rs` 47-497, 519-736, 749-851, `secret.rs` 22-124 |
| `Records` | client parsing, the plan of a source step, the envelope, the filter and the decoder | `client.rs` 83-276, `source-hypersync/src/lib.rs` 167-324, `encoding/src/lib.rs`, `filter.rs`, `decode.rs` |
| `Modules` | the sinks and other modules, the SDK's glue, the host calls | `modules/*-sink`, `modules/sdk`, `modules/test-chaos`, `host_impl.rs` 141-378 |
| `ComponentCache` | the cache of compiled components | `wasm-host/src/lib.rs` 146-294 |
| `Pipeline` | whole processes; extends the five above | `main.rs`, `pipeline.rs` 26-675, `wasm-host/src/lib.rs` 22-580 |
| `PipelineProofs` | proofs about the cache and the loader inside whole processes | |
| `PipelineTypeProofs` | proofs about the types of whole processes, about the cursors in memory and on disk, about the graphs the loader accepts, and about batches and numbers | |
| `PipelineFlowProofs` | proofs that in whole processes what is sent arrives | |
| `MC_...` | instances for TLC | |

**How they compose.**  `Delivery` and `ReorgSource` extend `CheckpointStore`:
every step of theirs that touches the store *is* one of the store's actions,
conjoined with what else happens in that step.  That every step of `Delivery`
is a step of the store or none is a lemma (`StoreStep`), so the theorems about
the store hold in the pipeline.  `Delivery` implements `AtLeastOnce` under a
refinement mapping (`Promise`): stored is what the outside systems have,
committed is SQLite's cursor table.

`Pipeline` composes the other way: the pure modules say what a document, a
record or a module call becomes, and its actions say when.  It takes a
checkpoint, a page of a source and a call on a pool as one step each, because
`CheckpointStore`, `Delivery` and `ReorgSource` take these apart; what it adds is
everything around them: several sources and chains, processors, arbitrary
graphs, real modules, loading, and a sequence of commands over one checkpoint
file.

**State and code.**  One action per operation, or per part of an operation
between two points at which other tasks can run (an await, a mutex released, a
blocking call):

- `rewind` = `RewindMemory` (under the mutex), then `RewindUpdate` (SQL);
  `persist_snapshot` = `PersistBegin`, then `ReadFloor`, `InsertRow` per row,
  then `Commit`; `get` on a miss = `KvGetMiss`, then `KvGetFill`.
- `inbox[s]` and `feed` are the bounded channels with, at their head, the batch
  the receiver has in hand; `InboxRoom`, `FeedRoom` account for it.
- `pool[s]` is the Mutex<Vec<..>> of instances, `out[s]` the one a write has;
  a write is `Recv` or `Retry` (checkout), then one of `WriteOk`, `WriteErr`,
  `WriteTrap`, `WritePanic`, then `AckBatch`.
- `Halt` is what the end of a process, by crash or by exit, does to memory.
- In `ReorgSource`, `Poll` is a query with the conflict check (no await lies
  between them), `EmitRows` the send, `Remember` what follows the send;
  `LocateFork` ends with purge and save, `SendRollback` follows.
- In `Pipeline`, `run` is the process (phase, command, configuration, stop
  flag, what is still to load), `src[s]` the loop of a source, `node[n]` a task
  with its queue in, what it still has to fan out, its live branches and its
  pool, `mark` and `disk` the watermarks in memory and in SQLite, and `world`
  what has reached tables, objects, endpoints and standard output.  `Start` is
  `main` with the loader, `Open`, `Compile`, `Instantiate`, `LoadFails` and
  `Wire` are `run` up to its tasks, `SourcePage`, `SourceStops`, `ReorgNoticed`,
  `FanSend`, `Process`, `SinkStep` and `Tick` the tasks, `Finish`, `Signal` and
  `Final` the rest of `run`.
- An external call of a module is refused, or takes effect and is reported as
  failed, according to a fault chosen with the step (`Faults`); a call may trap
  or panic; the UPDATE of a rewind may fail.

**Abstractions.**  A row stands for the matching records of one block.  A hash
is the number of the reorg that made the block: equal numbers mean equal hashes
and equal ancestors.  The value of a module key is the number of the write.  In
`ReorgSource` the window's value behind each version is kept in `trackerAt`,
and the path from source to sink is one channel, since its stages are
`Delivery`'s subject.  SQLite is its write lock, transactions and statements
that may fail.  In the modules of `Pipeline` an integer is its sign and decimal
digits, because the code compares text; a reference to a secret is a model value
that may stand for any string of a node (`Walk`), a url or a dsn is a sequence of
strings and references; an ABI is a set of events with one integer parameter; a
message of the loader is the strings of the document it quotes; a compiled file
is which module, which engine and whether all of it is there.  History variables (`stale`, `exposed`,
`vouched`, `torn`, `ahead`, `blind`, ...) are read by properties only and say so where
they are declared.

## 3. Runs

| Run | Instance | Checks | Shows |
|---|---|---|---|
| `store` | 2 sinks, 2 blocks, 1 key, 1 rewind, 1 crash, failing SQL | `TypeOK`, `RewindSticks`, `KvReadYourWrites`, `KvNotBehind` | rewinds stick on disk but for the recorded exceptions; a module reads its own writes; a tick never commits module state older than its snapshot |
| `store_race` | 1 sink, nothing fails | `RewindIsDurable` - **violated** | a rewind between floor and first INSERT is undone on disk |
| `delivery` | 2 write-through sinks, 2 rows, capacity 1, 1 crash | `DTypeOK`, `NoLoss`, `EofIsComplete`, `DeliversAtLeastOnce` | nothing below a persisted cursor is missing; a reported end is complete for every live branch |
| `delivery_buffering` | 1 buffering sink, 2 instances, 2 attempts; uploads, SQL and modules fail, traps, panics, a signal, 1 crash | `NoLoss`, `DeliversAtLeastOnce` | rows are lost only by the three routes of `exposed` |
| `delivery_live` | 2 sinks, 4 blocks, capacity 1 | `BackfillEnds` | the backfill ends while one branch consumes |
| `delivery_winddown` | 1 sink, 3 blocks | `WindsDown` - **violated** | with every branch gone the process may hang |
| `delivery_loss` | 1 buffering sink, 1 instance, 1 crash | `NothingEverLost` - **violated** | a flush misses the instance a write has out |
| `reorg` | 1 sink, blocks 2-3, 1 reorg, 2 crashes without a lag and 1 with lag 1, window 3 | `RTypeOK`, `SinkMatchesChain`, `Confirmed`, `ReorgSurvivesRestart` | without a lag every reorg while the process is up is noticed and repaired; across restarts no row of the chain goes missing but by the routes of `torn` and `ahead`; nothing is sent before it is confirmed, unless an answer left out the height of the archive (`blind`) |
| `reorg_lag` | lag 1, no crash | `DeepReorgIsNoticed` - **violated** | with a lag, a reorg deeper than it may never be noticed |
| `reorg_crash` | lag 0, 1 crash | `NoCorrectedBlockSkipped` - **violated** | a purged window persisted with the old cursor loses a reorg |
| `pipeline` | fifteen families of scenarios, below | `PTypeOK`, `OnlyNamedSecretsAreShown`, `AcceptedIsRunnable`, `CacheServesWhole`, `DiskNotAhead`, `PNoLoss`, `CompleteIsExact`, `FinishedIsComplete`, `DrainedIsCaughtUp`, `NoStaleRows`, `RowsLeaveByRollback` | from the document to the sinks' contents |
| `pipeline_diamond` | two filters between one source and one sink | `AckedMeansAllUpToBlock` - **violated** | the faster route moves the watermark past the slower one |

The families of `pipeline` (`MC_Pipeline`; a scenario is a document with its
surroundings, see the head of `Pipeline`):

| Family | Scenarios | Meant for |
|---|---|---|
| topologies | every wiring of two processors and two sinks from seven lists of inputs, with and without a duplicate name | `AcceptedIsRunnable` |
| sourcing | every combination of endpoint, range, mode and reorg settings, secrets present, missing, misplaced and unclosed | what the parse errors quote |
| references | references as name, type, chain, input, module, grant and target, beside a url and a password that hold one; all right, each of them wrong, each missing | `OnlyNamedSecretsAreShown` |
| loadings | connections, grants, databases, module and ABI files that are there or not; plain and debug runs | the error paths of loading |
| flows | each operator against signed, short and long values in three encodings | `CompleteIsExact` |
| failures | each sink; calls refused, answered late, trapped, panicking; one crash, then a second run | `PNoLoss` |
| lakes | two sources of one chain or of two into one object store | object keys |
| heads | `live` and `both` near the head with a confirmation, a signal, a crash | start and restart points |
| skips | processors that fail on a batch, always, or return what nobody decodes, also on batches a filter has emptied | skipped batches, `DrainedIsCaughtUp` |
| fanin, reorgs | two chains into one table, one of which reorganises; each sink with a quiet branch beside it; a reorg before a restarted source has sent anything | `NoStaleRows`, `RowsLeaveByRollback`, `DrainedIsCaughtUp` |
| pauses | a branch that panics or lacks its grant, beside another of the same source and beside another source | `FinishedIsComplete` |
| debugs | a debug run, then a real one | what a debug run leaves on disk |
| caches | two processes with equal or different ids, two crashes, one directory | `CacheServesWhole` |
| diamonds | two routes from a source to a sink | several routes |

`PNoLoss`, `CompleteIsExact` and `NoStaleRows` compare the sinks with the meaning of
the document, which is stated apart from the code's operators (`Wanted`): which
logs a filter lets pass as a comparison of integers, which form a log has on
each route, without batches, encodings, pages or instances.  Their exceptions
are history: logs of a batch a processor failed on (`skipped`), rows the s3 sink
dropped in a call that failed (`lost`) or wrote over (`overwritten`), rows only
printed by a debug run (`tapped`), a delete that was refused and reported as done
(`swallowed`), a cursor whose rewind failed (`unwound`).  What they show is that
there is no other way to lose or to keep a row.

**Bounds.**  Two blocks with rows give two batches, of which one can be acked,
flushed, in an instance or in a channel while the other is elsewhere; one crash
suffices, because a restart depends on nothing but what is persisted (in `reorg`
there are two without a lag, because what a restart resumes with is persisted
again; with one, where `ReorgSurvivesRestart` claims nothing, no step is taken
after the second: `SecondCrashWithoutLag`).  Channels
of capacity 1 block soonest.  Two instances are needed for a flush that meets
one of them poisoned; two attempts for a retry that finds another instance.
In `delivery_live` and `delivery_winddown` there are more batches than both
channels hold.  In the reorg runs two pages, one reorg and three saves of the
window are what a detection and a replay take; block 1 loses its record in the
reorg, 2 keeps one, 3 gains one.  Named bounds: `MaxVersion`, `MaxRewinds`,
`MaxCrashes`, `MaxHeight`, `MaxReorgs`.  Sinks of one kind are symmetric.  In
`pipeline` each scenario names its own: `budget` (faults, crashes, reorgs),
`height`, `page`, `cmds`; three logs in two blocks and at most two records per
batch give a range of two chunks and a second range, two runs a restart.
`MaxAttempts` is the code's 3, channels have the capacity of their profile, and
`FeedCapacity` the code's 8.

**Deadlock** is checked where the system always has a step (it can crash or be
started again until the bound, and a pipeline that ends starts anew); it is not
in the liveness and the reorg runs, in which bounds end the behaviour.

**Fairness** (`Delivery!Fairness`) is weak fairness of each task of the runtime:
tokio schedules every task that can run; every query returns, because the HTTP
client has time-outs; every module call returns, because of the epoch limit of
the host; a checkpoint under way goes on.  Nobody has to send a signal, crash
the process or restart it.  A tick need not be taken (the ticker is off in
`delivery_live`, where it could only delay).  A server that has not got further
is assumed to get further in the end: otherwise no backfill ends.  `Pipeline`
states no fairness: its progress property, `DrainedIsCaughtUp`, is an invariant
of the states in which nothing is under way.

## 4. Disagreements found

1. `store_race`: `persist_snapshot` reads the floor under the mutex and takes
   SQLite's write lock only with its first INSERT; a whole rewind fits between.
2. `delivery_loss`: `flush` visits the instances in the pool only; rows of
   acked batches in the instance a write has out are persisted over.
3. `delivery_winddown`: `source_task` waits for its runner with the receiver of
   the full channel still alive; the runner never gets to see the stop flag.
4. `reorg_lag`: with confirmations the hash of the block before the cursor is
   usually not remembered, so the next answer contradicts nothing.
5. `reorg_crash`: the window is purged and saved before the rollback has been
   delivered, and the next tick persists it with the sink's old cursor.

6. `pipeline_diamond`: the watermark of a (source, sink) is the maximum of what
   the sink has acked, whichever route it came by; with two routes it passes
   over batches the slower one still carries.

Each is quoted against the document or comment it contradicts in
`PROJECT.json`.  The passing properties state these routes as their exceptions,
so that they say that there are no others.

Met while modelling, without a run of their own:

- `main.rs:20` says `validate` includes a "module dry-run"; it loads the
  document only.
- A reference may stand for any string of the document and is resolved before the
  rules are checked, whose messages quote names, types, chains, inputs, modules
  and grants without `redact`: `chain: ${secret:TOKEN}` is answered by "unknown
  chain", with the value.  ARCHITECTURE.md 9 has "never appear in logs (redaction
  filter on the logging layer matches resolved values)", and no such filter exists.
  `OnlyNamedSecretsAreShown` has these places as its exception and says that there
  are no others.
- A source that has lost all its branches sets the stop flag of every source,
  while ARCHITECTURE.md 5.1 calls sources independent tasks.
- The comment at `buffer.rs:89` has "Stable range -> idempotent overwrite", but
  two sets of rows with the same range and count share a key (`overwritten`),
  and a replay cut at other places leaves objects under other keys.
- The grant of an s3 sink's connection is checked at the call, not, as for
  Postgres, when the document is validated.
- A Postgres sink in `insert` mode with a `unique_key` fails for good on a
  replay, since the primary key refuses the rows.
- A rewind that fails leaves the cursor on disk above rows already deleted until
  the next checkpoint (`unwound`); the flush of the final checkpoint may fail and
  the process still exits with success.
- A process that restarts below its whole window, because a sink had lagged
  behind by more than the window holds, remembers nothing of what it sends again:
  `trim` keeps the newest hashes, so those of blocks below a full window are
  dropped as they are recorded, and a reorg among them is not noticed.  When such
  a process meets a conflict, `locate_fork` falls back to the block before the
  window, "coarse but safe" (`source-hypersync/src/lib.rs`), and moves the cursor
  *forward*, past blocks that were not delivered.  `Load` raises `vouched` over
  the window in this case, so no claim is made of these blocks.
- The window is one for all sinks and goes with the least cursor.  A sink whose
  cursor is already past the restart point keeps it while the blocks below are
  sent again, so a reorg found in them and a second crash can leave it without
  rows (`torn`).
- A tick that has drained the window writes the watermark as it is at the floor.
  When it was rewound after the snapshot and then acked further, the cursor on
  disk is of blocks whose hashes the tick does not have (`ahead`); so it is when
  a batch is acked before the loop has saved its hashes.
- The probe's port is opened after the modules are loaded, right before the
  state becomes running, so "503 while starting" can hardly be observed.

## 5. Proofs

Every theorem is for any value of the constants: any set of sinks, blocks and
rows, any capacities, windows, page sizes, lags, pool sizes and numbers of
attempts, any processes, scenarios and modules.  They rest on named assumptions
about types and ranges only: `BlocksAssumption` and `BoundsAssumption` of the
store, `DeliveryAssumption` (one source, rows inside the range),
`ReorgAssumption` (one source, whose calls on its key do not overlap; a first
block not above the head), `CacheAssumption` (`None` is no file and no
component), `NoneAssumption` (`None` is no number), `AttemptsAssumption` (a sink
may try at least once) and `ScenarioAssumption` (a scenario names processes and
modules that exist, its lists are sequences and its heights naturals, no value of
a secret stands in clear where a message quotes the document or is itself a
reference, and what the loader makes of a document it accepts is not `None`).
`ReorgSource` takes an answer of the server with or without the height of the
archive, as the code does, but assumes that every answer carries the rollback
guard: the code takes one without it and then neither remembers nor compares the
last block scanned and the parent of the first (`client.rs` 79, 281-290), so that
on such a server `SinkMatchesChain` and `ReorgSurvivesRestart` do not hold.  Of what the document says
nothing is assumed: that its numbers are naturals, its sinks feed nobody and no
node feeds itself is proved from the loader's rules.

| Theorem | Module | States |
|---|---|---|
| `StoreTyped` | `CheckpointStoreProofs` | `Spec => []TypeOK` |
| `StoreRewindSticks` | | `Spec => []RewindSticks` |
| `StoreReadsYourWrites` | | `Spec => []KvReadYourWrites` |
| `StoreKvNotBehind` | | `Spec => KvNotBehind`, an action property |
| `DeliveryTyped` | `DeliveryProofs` | `DSpec => []DTypeOK` |
| `DeliveryNoLoss` | | `DSpec => []NoLoss` |
| `DeliveryRefines` | | `DSpec => DeliversAtLeastOnce`, the refinement of `AtLeastOnce` |
| `DeliveryEofIsComplete` | | `DSpec => []EofIsComplete` |
| `ReorgTyped` | `ReorgSourceProofs` | `RSpec => []RTypeOK` |
| `ReorgConfirmed` | | `RSpec => []Confirmed` |
| `ReorgSinkMatchesChain` | | `RSpec => []SinkMatchesChain` |
| `ReorgSurvives` | `ReorgRestartProofs` | `RSpec => []ReorgSurvivesRestart` |
| `PipelineCacheServesWhole` | `PipelineProofs` | `Spec => []CacheServesWhole` |
| `PipelineShowsOnlyNamed` | | `Spec => []OnlyNamedSecretsAreShown` |
| `PipelineTyped` | `PipelineTypeProofs` | `Spec => []PTypeOK` |
| `PipelineDiskNotAhead` | | `Spec => []DiskNotAhead` |
| `PipelineAcceptedIsRunnable` | | `Spec => []AcceptedIsRunnable` |
| `RangeBatchesAreWhole` | | the batches of a range hold its records once and in order; only the last acks its end |
| `FilterOrderIsNumeric` | | `LessDecimal` and the filter's equality are those of integers |
| `PipelineDrainedIsCaughtUp` | `PipelineFlowProofs` | `Spec => []DrainedIsCaughtUp` |
| `PipelineFinishedIsComplete` | | `Spec => []FinishedIsComplete` |

**Store.**  `RewindSticks` is not inductive: a value on its way to disk (read
from the floor, or inserted and not committed) may be above the watermark until
the UPDATE of the rewind in flight has lowered the row.  `StoreInv` bounds every
place a value can be in by the watermark *as it will be once that UPDATE has
run* (`Lowered`), with `stale` and `staleTxn` carrying the exception from the
transaction to the table.

`KvReadYourWrites` and `KvNotBehind` compare versions of a value that may be in
four places: the dirty map, the cache, the transaction and the table.  `KvInv`
says of every key that the first of dirty map, transaction and table that has it
has its last version, unless a failed transaction took that one down, and that
from the drain on the tick leaves nothing older than its snapshot; of a key whose
calls do not overlap, that the cache has the last version once it has any, and
that until then nothing is pending, so that a get that has read the table still
reads right when it fills the cache.

**Delivery.**  `NoLoss` speaks of SQLite's cursor, which is fed by a snapshot of
a watermark that is raised by acks of batches that went through two channels.
`DeliveryInv` follows a row all that way:

- `HandInv`: what each task has in hand, and where the source is in its page;
- `TickInv`: persisted cursor <= value in hand or in the transaction <=
  snapshot <= watermark, so that persisting never moves a cursor back;
- `CursorInv`: below the persisted cursor, and below the snapshot of a sink that
  has been flushed, rows are stored; below the watermark they are stored or
  held by an instance.  The flush is the step from the third to the second, the
  commit from the second to the first;
- `StreamInv`: below the block a batch acks, a row is safe or travels in that
  batch or before it, in the sink's channel or in the internal one; below the
  source's position it is at least on its way.  It rests on FIFO channels and on
  the rule that only the last chunk of a page acks the end of the page.

The proof has one lemma per conjunct and task (`SourceStream`, `FanStream`,
`SinkStream`, ...); after a crash only the conjunct on the persisted cursor is
left, and `RestartPointFacts` (the start is not above any persisted cursor) is
what re-establishes the rest.  `TickStep` and `CursorInv` give the refinement:
a step that changes the cursor table is `Advance`, any other is `Deliver` or a
stutter.

`EofIsComplete` needs the end of the stream followed the same way.  `EndInv` says
that while nobody has stopped the process (`StopInv`) a branch that is left ends
only after the fan-out with its channel empty, and that once the source loop is
done the last ack, of the end of the range, is in the sink's watermark or in a
channel before it (`EndReaches`); with `DeliveryInv` no row of it is missing.

**Reorgs.**  `StepInv` (a response in hand starts at the cursor, and its rows have
their confirmations or are in `blind`) gives `Confirmed`.  Without the archive's
height `plan_step` has nothing to hold a row back by, and a test
(`missing_height_trusts_the_response`) wants it so; `blind` keeps the rows that
came that way until the chain has grown over them.  `SinkMatchesChain` speaks of one moment, at which the
block before the cursor still has the hash that is remembered; between two such
moments the chain may have changed several times under responses, batches and
rollbacks on their way.  `FollowInv` therefore speaks of *some* version of the
chain, the one the source has seen last (`Follows(view)`): the window is of that
version, and what each sink's table will be when it has applied all that is in
its channel (`Applied`) is what that version holds up to the end of what was
sent.  A hash stands for its ancestors (`SharePast`), so a version that agrees
with the chain at one block agrees with it below; and the window ends with the
block before the cursor (`Anchored`: this is what the guard hash of each
response is for), so agreement there is agreement on all rows.  A reorg changes
no version seen, `Poll` without a conflict moves to the present one, `LocateFork`
finds a block on which both agree, and a rollback cuts `Applied` to it.
`AppliedWrite`, `AppliedFinish` and `AppliedSend` show that a sink's own steps
leave `Applied` as it is.

`ReorgSurvivesRestart` has to say the same of what a crash leaves: rows of the
cursor table, a version of the window and tables, of which the tick under way may
replace the first two at its commit.  `RestartInv` says, while nothing is `torn`
or `ahead`:

- `WindowInv`: the window in memory is the version saved last, it is within its
  size, and it knows the block before the cursor or nothing is claimed of that
  block (`LoopInv`); a process that starts finds this with the version on disk;
- `StreamInv`: a sink's channel is a sequence of cursors to come.  Below each of
  them, blocks that no rollback behind it takes back (`Stays`) were sent, and a
  start after the last of them would notice its replacement (`Rooted`), or its
  hash is about to be saved; no row travels behind a cursor above it without a
  rollback between them (`Ordered`), so what is below a sink's cursor is in its
  table (`TableBelow`);
- `DurableInv`: every row and version that are on disk together, or that the tick
  will commit together, fit (`Fits`): there is a version of the chain that the
  window does not tell from the present one, of which the table has all rows
  below the row of the cursor table; and at that row, and wherever a rollback on
  its way may still put it, the window is rooted;
- `TickInv`: which rows the tick has written, and that the block below its
  snapshot is still rooted when the window is drained;
- `Tracks`: there is a version of the chain, not told from the present one by the
  window, of which the sink has been sent all rows up to the source's position.

Unlike `Follows`, `Remembers` asks agreement of window and version only where the
chain agrees with the window: after a restart the source may have delivered a
later version than the window on disk is of.  The exceptions are what the proof
needs of them: the drain is where the rows of a tick and its window come together
(`FitsFloor`), which fails exactly when the floor is above what was saved
(`ahead`); a crash drops the channels, which is harmless exactly when they hold
no rollback (`torn`).  The proof has one lemma per conjunct and kind of step; for
the source's steps `Keeps` says once what all conjuncts need: blocks stay sent
and rooted unless a rollback takes them back, and no saved version changes.  TLC
has checked `RestartInv` on the instance of `reorg` and variations of it.

**Cache and loader.**  What `compile` returns comes from a compilation or from a
file that any process may have written, killed at any point, with process ids
that repeat.  `CacheInv`: what has the final name is whole (`FilesInv`); a
temporary file is written by at most one live process, since `create_new`
refuses one that exists, and what that process renames it has written to the
end (`WritersInv`).  `LoadInv` carries it through every action of `Pipeline`
with the facts about scenarios it needs.

`OnlyNamedSecretsAreShown` is about every document and every environment.  The
parser sees the document before secrets are put into it, and the list of missing
ones has names only.  A rule sees the resolved document with its defaults: what its
message quotes is a field of `NamedLeaves` of that (`SourceNamed`, `NodeNamed`,
`GrantNamed`, put together in `ShownIsNamed`), and such a field holds a secret's
value only if its reference stood there (`ResolvedNamed`).  So a wrong name or
grant never shows the dsn, url or password beside it (`LoadShowsNamed`).

**Whole processes.**  `PTypeOK` says that every number of a running process is
in its range, for any document and any modules; to be inductive it needs most
of the process.  `PipeInv`:

- `RunInv`: from the start of a run on there is a configuration, and it is the
  one the document loads to at every start (`Wired`), so that cursors that an
  earlier run wrote are of pairs that still exist (`CursorsInv`).  `LoadedOk`
  derives what an accepted configuration is like (`CfgOk`) from the rules of the
  loader, by induction over its lists where names must differ
  (`AllDifferent`, `SinksApart`);
- `NodesInv`: every batch in every queue names a source of the graph and acks
  or rolls back to a block (`BatchOk`), a property that each stage hands on: what
  a source emits has it (`EmittedTyped`, through the client's parsing and the
  chunks of a range), what any module answers has it once it decodes
  (`CallProduces`, `ForwardedOk`); a task is at one of the branches it has left
  (`BranchesOk`), and, when it has none, has returned with nothing in hand;
- `TasksInv`: the tasks of every node of the graph are there once it is wired.

`DiskNotAhead` is a conjunct of it.  An ack raises the watermark alone, a
rewind lowers both cursors, or the watermark alone and then the pair waits in
`unwound`; a checkpoint writes the watermarks, or, when a flush failed, leaves
the file as it was and the pairs in `unwound` (`Moved`, `WrittenTables`,
`SnapshotTables`).  It rests on the ack being monotonic, which a sink that is
sent the blocks of a slower one again depends on.  In `CheckpointStore`, where
the tick has its steps, the same is `RewindSticks`.

**The loader's graph.**  `AcceptedIsRunnable` rests on `detect_cycle` finding every
cycle of any graph, not only of those TLC wires.  `DetectCycle` is a recursive
function over lists still to visit and the two sets of coloured nodes.

- *It ends.*  A function that TLA+ defines by recursion is only known to satisfy its
  equation if a function that does exists.  `RecursionExists` shows that one does
  whenever a round asks only for arguments of a smaller measure; in `SearchRecurs`
  that is the number of nodes that are not grey, times more than the longest list
  of consumers, plus the nodes left to visit (`RoundsFall`): a white node turns grey on the
  way down, and on the same level the list gets shorter.
- *It is right.*  `Answers`, by induction on the same measure (`RoundAnswers`): from
  a sound colouring (`Sound`: no node is grey and black, what is black is closed
  and has no cycle) a search without an error ends in a sound one, with everything
  it was to visit black; and an error, if each grey node leads to what is to be
  visited (`Leads`), means that some node lies below itself.  A node may turn black once its consumers are (`NodeAdded`).
- *It is what a run needs.*  `CycleFound`: without an error the graph is `Acyclic`, in
  the form a proof without routes can use: in every set of nodes there is one that
  feeds none of them, and one that none of them feeds.  So no node is below
  itself (`NotBelowItself`), the lowest node below a source is a sink
  (`SourceReachesSink`, since a producer has consumers), and the highest node below
  no source cannot have inputs (`ConsumerHasSource`).

The error means a cycle, so the loader also refuses no graph for nothing.

**Batches and numbers.**  Two results are about operators alone.
`RangeBatchesAreWhole`, for any list of records and any limit above zero: the
chunks of a range, put behind one another, are its records; none is empty or above
the limit; their ids differ; all but the last ack the start of the range.  This is
the fact about the source that `Delivery` has in its actions.  `FilterOrderIsNumeric`,
for numbers of any length: dropping leading zeros and comparing by sign, length and
text (`cmp_decimal`) is comparing integers, and equality of what `split_sign` leaves
is equality; a number with a fraction has no such reading and is left out.  `Stands` says which number digits stand for, read from the left;
who is ahead at some digit stays ahead (`AheadStaysAhead`), and a longer
number is ahead before the shorter one has begun.

**What is sent arrives.**  `DrainedIsCaughtUp` and `FinishedIsComplete` speak of a
graph of any shape, in which a batch goes through fan-outs that drop branches,
processors that may skip it, and queues in which rollbacks travel as well.  The
promise behind both is `Promised`: let a batch be *good* for a source `s` and a
block `a` when it is of `s` and raises a watermark to `a` at least.  Whatever set
of nodes is closed under "feeds" and holds the nodes that are down, those with a
good batch in their queue and those a fan-out has one for (`Cover`), then

- every sink below `s` outside the set has its watermark at `a` (`SinksServed`);
- every rollback in a queue or a fan-out that would take a watermark below `a`
  has a good batch behind it in the same place, or another good batch will still
  come from a node of the set (`LowsFollowed`), so that a sink which applies the
  rollback is raised again.

With nothing on its way the smallest such set is empty but for nodes that are
down, and what is left says that every sink that is up is served.  Quantifying
over all covering sets, instead of following routes, is what makes the invariant
inductive without a definition of a route: a step that consumes or hands on a
batch only changes which sets are covers, and each lemma takes a cover of the
state after the step and shows that it, or it and the node that moved, was one
before.  It holds in two strengths: `a` is what the source sent last, for any
good batch while no processor has skipped one, and, after the source's end, for
control batches alone, which the SDK passes through every processor (EOF is one): this is
why `FinishedIsComplete` needs no proviso on failing processors.

`FlowInv` adds what the promise rests on.  `WiredNodes`: a node that is up is
among the branches of every node that feeds it, so dropping a branch is always
due to a task that has ended; a batch only travels below its source (`Below`).
`QueuedNodes`: who is down holds nothing.  `StoppedBy`: while a process is
running, the stop flag means that a source has lost its branches.  Then a run
that reports its end, in which each source has a sink left, was not stopped
(`FinishedAtEnd`), and `CursorsAtEnd` carries the watermarks through the final
checkpoint to the disk.  `ReachableWithin`, by induction over the rounds of the
search, ties the loader's `Reachable` to closed sets.  TLC has checked `FlowInv`
on all families of `pipeline`.

What the proofs made the model say: a query with `max_records: 0` is cut into
chunks of one record (`.max(1)` in `source-hypersync/src/lib.rs`), a source that
feeds no sink restores no cursor, and a number in the document that is not
unsigned is refused by the typed parse.  `FlowInv` was not inductive at first for
reasons in the model: a source that has sent nothing since its restart owes
nothing for a rollback it sends, and one that has sent beyond the fork owes only
up to the fork; a processor that fails on a batch without records swallows its
ack as well, which the exception `skipped` has to record; and every error of a
write counts as a failed attempt.  The scenarios that tell the old model from the
new one are in the families `skips` and `reorgs`.

**Only model-checked.**

- `BackfillEnds`: liveness, beyond the prover.
- `CompleteIsExact`, `PNoLoss`, `NoStaleRows`, `RowsLeaveByRollback`: they relate
  what a module, a filter or a flush computes by folds (`FoldLeft` in `Flushed`,
  `FlushPool`, `SinkWrite`, the digits of a number) to the contents of the sinks.
  Folds are recursive functions over an operator parameter, which the library's
  theorems on recursion take as a parameter too, so that no installed prover can
  instantiate them.

Induction itself is at hand where the induction hypothesis can be a set
(`UpTo`, from `WFMin`): so `FlattenSeq`, whose recursive function is written
without an operator parameter, has its lemmas (`FlattenTyped`, `FlattenHolds`), and
a recursive function exists when what it says of each argument is given as a
function too (`RecursionExists`).  The model
therefore filters sequences with `Passed` and merges functions with `LaidOver`
and `Put`, which are comprehensions, and keeps `SelectSeq` and `@@`, which the
provers cannot look into, where no proof has to.  An `@` of one
EXCEPT is not used inside another EXCEPT, where TLC and the prover would read
it differently.

The modules declare no RECURSIVE operator.

## 6. Not modelled, and the plan

Not modelled, because it is I/O, formatting or somebody else's code: SQL text,
HTTP transport, the bytes of JSON, Parquet and NDJSON, WIT glue, log lines,
metrics and the status line, the answers of the health probe, argument parsing,
ABI types other than an integer, references to secrets in a query or deeper than
a node's own lists and objects, `kafka_produce` (the host refuses it), a module
file that does not compile.  Memory and epoch limits appear as traps.

Left out of `Pipeline`, and in another module: the steps of a checkpoint and of
an instance pool (`CheckpointStore`, `Delivery`), the hang of a source in a full
channel (`Delivery`), how a fork is found and which reorgs go unnoticed
(`ReorgSource`; in `Pipeline` a reorg is noticed when it happens).  A panic of
the host inside `process` is treated by the code like an error and has no step
of its own.  A sink that is paused when a rollback passes keeps the abandoned
rows after a restart: reachable in `pipeline`, and `NoStaleRows` is stated for
sinks that have applied the rollback.

Done: `CheckpointStore`, `Delivery` with the refinement of `AtLeastOnce` and
liveness, `ReorgSource`, and, as `Pipeline` with the modules it extends, what was
planned as Dataflow, S3Buffer, ConfigGraph and HostGrants; proofs of every safety
property of the first three, and of the cache, the loader and its graphs, the
types, the cursors, the chunks of a range, the order of the filter and the flow of
batches in `Pipeline`.  Left, in this order:

1. `PNoLoss` for modules that do not buffer, on graphs with one route: below the
   watermark rows are in the sink, as `DeliveryInv` says of one fan-out; the
   order of batches on a route (`StreamInv` there) is what `FlowInv` leaves out.
2. Rewriting the folds of the flush as recursive functions without an operator
   parameter, as was done for `Reachable` and `DetectCycle`, so that the contents
   of sinks come within reach.

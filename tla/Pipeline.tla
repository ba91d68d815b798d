------------------------------ MODULE Pipeline ------------------------------
(***************************************************************************)
(* A whole process of hyperpipe: it loads a document, opens connections,    *)
(* loads modules through the component cache, wires the graph, runs it with *)
(* the real modules until the sources end, a signal or a crash, and is      *)
(* started again.                                                           *)
(*                                                                          *)
(* A scenario is the surroundings of one pipeline: the document, the        *)
(* secrets, the commands given one after the other, the module and ABI      *)
(* files, the databases that answer, the cache directory, the chain and the *)
(* faults that may strike.  The steps of a checkpoint and of a module pool, *)
(* which Delivery and CheckpointStore take apart, are each one step here;   *)
(* how a source finds a fork is in ReorgSource.                             *)
(***************************************************************************)
EXTENDS ConfigLoad, Modules, ComponentCache

CONSTANTS
    Scenarios,      \* by family, the scenarios to consider
    FeedCapacity,   \* channel between a source's loop and its fan-out
    MaxAttempts     \* SINK_MAX_ATTEMPTS

VARIABLES
    sc,      \* the scenario
    run,     \* the process: phase, command, configuration, stop flag, ...
    src,     \* source -> its loop: cursor, state, last ack sent
    node,    \* node -> its task, queues and module instances
    mark,    \* <<source, sink>> -> watermark in memory
    disk,    \* <<source, sink>> -> cursor in the checkpoint file
    world,   \* what has reached the outside
    past,    \* history: batches skipped, rows lost, ...
    budget   \* faults, crashes and reorgs that may still happen

\* Scenarios as they can be: documents as their authors wrote them, with no
\* secret in the clear where a message quotes it; secrets are no references; None
\* is no configuration; every process has an id; files hold modules there are.
ASSUME ScenarioAssumption ==
    /\ {"main", "rival"} \subseteq Processes
    /\ \A f \in DOMAIN Scenarios : \A s \in Scenarios[f] :
          /\ Readable(s.doc) /\ NamedLeaves(s.doc) \cap Range(s.env) = {} /\ Refs \cap Range(s.env) = {}
          /\ Load(s.doc, s.env).error = "" => Load(s.doc, s.env).cfg # None
          /\ IsSeq(s.logs) /\ s.height \in Nat /\ s.page \in Nat /\ s.fork \in Nat
          /\ s.pids \in [Processes -> Nat]
          /\ s.rival \cup s.built \cup Range(s.files) \subseteq Wasms

ASSUME AttemptsAssumption == MaxAttempts \in Nat \ {0}

pipeVars == <<sc, run, src, node, mark, disk, world, past, budget>>
pvars == <<pipeVars, cacheVars>>

Down == {"off", "ended", "failed", "crashed"}
Active == run.phase \in {"running", "stopping"}
Debug == sc.cmds[run.nth] = "debug"

Cfg == run.cfg
SourceNames == IF Cfg = None THEN {} ELSE NamesOf(Cfg.sources)
ProcessorNames == IF Cfg = None THEN {} ELSE NamesOf(Cfg.processors)
SinkNames == IF Cfg = None THEN {} ELSE NamesOf(Cfg.sinks)
SourceCfg(s) == CHOOSE c \in Range(Cfg.sources) : c.name = s
ChainOf(s) == SourceCfg(s).resolved.chain_id
Knobs == Profile(Cfg.resource_size)

-----------------------------------------------------------------------------
(* Modules: resolve, preprocess, compile, instantiate.                       *)

ConsumerCfg(n) == CHOOSE c \in Range(Consumers(Cfg)) : c.name = n

BuiltinWasmFile ==
    {"evm-abi-decoder", "filter", "stdout", "blackhole", "postgres", "webhook", "s3"}

\* resolve_module: which module the bytes are; None: unknown or unreadable.
ResolveModule(n) ==
    LET m == ConsumerCfg(n).module IN
    IF IsFile(m) THEN Get(sc.files, m.file)
    ELSE IF BuiltinName(m) \in BuiltinWasmFile \cap sc.built THEN BuiltinName(m) ELSE None

\* preprocess_config: the decoder gets its ABI files inlined; None: unreadable.
PreprocessConfig(n) ==
    LET c == ConsumerCfg(n).config
        abis == Or(Get(c, "abis"), <<>>)
        files == {abis[i].file : i \in {j \in DOMAIN abis : "file" \in DOMAIN abis[j]}}
        inlined(e) == IF "file" \in DOMAIN e THEN ("abi" :> sc.abis[e.file]) @@ e ELSE e
    IN  IF n \in SinkNames \/ BuiltinName(ConsumerCfg(n).module) # "evm-abi-decoder" THEN c
        ELSE IF ~(files \subseteq DOMAIN sc.abis) THEN None
        ELSE ("abis" :> [i \in DOMAIN abis |-> inlined(abis[i])]) @@ c

\* A sink of a debug run has no module: it prints.
IsTap(n) == node[n].ctx = None

\* NodeCtx, with the connections the services hold open.
Ctx(n) ==
    LET open(type) == {k \in DOMAIN Cfg.connections : ~Debug /\ Cfg.connections[k].type = type} IN
    [name |-> n, kind |-> ResolveModule(n), config |-> PreprocessConfig(n), http |-> ConsumerCfg(n).http,
     conns |-> IF n \in SinkNames THEN Range(ConsumerCfg(n).connections) ELSE {},
     sql |-> open("postgres"), blob |-> [k \in open("s3") |-> Cfg.connections[k].prefix]]

ProcessorKinds == {"filter", "evm-abi-decoder", "chaos", "enrich", "foreign"}

\* The world a component exports is the one the node's role needs.
Exports(kind, n) == (kind \in ProcessorKinds) <=> n \in ProcessorNames

Fresh(n, ctx, pool) ==
    [ctx |-> ctx, out |-> <<>>, pos |-> 1, live |-> ConsumersOf(Cfg, n), inbox |-> <<>>,
     up |-> TRUE, pool |-> pool, attempt |-> 0]

-----------------------------------------------------------------------------
(* The command, the configuration and the connections.                       *)

\* main: validate ends with the loader's verdict, run goes on.
Start ==
    /\ run.phase \in Down /\ run.nth < Len(sc.cmds)
    /\ \E r \in {Load(sc.doc, sc.env)} :
       run' = [phase |-> IF r.error # "" THEN "failed" ELSE IF sc.cmds[run.nth + 1] = "validate" THEN "ended" ELSE "open",
               nth |-> run.nth + 1, cfg |-> r.cfg,
               said |-> [error |-> r.error, quotes |-> r.quotes, missing |-> r.missing],
               health |-> "starting", stop |-> FALSE, ticking |-> TRUE, todo |-> <<>>,
               eof |-> FALSE, saved |-> FALSE, paused |-> {}]
    /\ src' = <<>> /\ node' = <<>> /\ mark' = <<>>
    /\ UNCHANGED <<sc, disk, world, past, budget, cacheVars>>

\* build_blob: an object store needs a place.
BuildBlob(conn) == conn.local_path # None \/ conn.bucket # None

\* build_services: every database answers and every object store is built.
ConnectionOk(c) ==
    LET conn == Cfg.connections[c] IN
    CASE conn.type = "postgres" -> c \in sc.up
      [] conn.type = "s3" -> BuildBlob(conn)
      [] OTHER -> TRUE

Fail == run' = [run EXCEPT !.phase = "failed"]

\* The store, the services (none in a debug run) and the runtime.
Open ==
    /\ run.phase = "open"
    /\ mark' = disk
    /\ IF Debug \/ \A c \in DOMAIN Cfg.connections : ConnectionOk(c)
       THEN /\ run' = [run EXCEPT !.phase = "load",
                          !.todo = [i \in DOMAIN Cfg.processors |-> Cfg.processors[i].name]
                                   \o (IF Debug THEN <<>> ELSE [i \in DOMAIN Cfg.sinks |-> Cfg.sinks[i].name])]
            /\ usable' = [usable EXCEPT !["main"] = PrepareCacheDir(sc.dir)]
       ELSE Fail /\ UNCHANGED usable
    /\ UNCHANGED <<sc, src, node, disk, world, past, budget, pid, entry, tmp, compiling, component>>

Loading == run.phase = "load" /\ run.todo # <<>>
Next1 == Head(run.todo)
Resolved == ResolveModule(Next1) # None /\ PreprocessConfig(Next1) # None

LoadFails ==
    /\ Loading /\ ~Resolved /\ Fail
    /\ UNCHANGED <<sc, src, node, mark, disk, world, past, budget, cacheVars>>

Compile ==
    /\ Loading /\ Resolved /\ component["main"] = None
    /\ CompileHit("main", ResolveModule(Next1)) \/ CompileMiss("main", ResolveModule(Next1))
    /\ UNCHANGED pipeVars

\* load_processor, load_sink: the pool is made at once; an init error ends the run.
Instantiate ==
    /\ Loading /\ component["main"] # None
    /\ \E ctx \in {Ctx(Next1)} :
       IF Exports(ctx.kind, Next1) /\ InitOk(ctx.kind, ctx.config)
       THEN /\ node' = Put(node, Next1, Fresh(Next1, ctx, [i \in 1 .. Knobs.instances_per_stage |-> FreshInstance]))
            /\ run' = [run EXCEPT !.todo = Tail(@)]
       ELSE Fail /\ UNCHANGED node
    /\ component' = [component EXCEPT !["main"] = None]
    /\ UNCHANGED <<sc, src, mark, disk, world, past, budget, pid, usable, entry, tmp, compiling>>

\* CheckpointStore::restore: the least cursor of the sinks the source feeds.
Restore(s) ==
    LET sinks == Reachable(Cfg, s) IN
    IF sinks # {} /\ \A n \in sinks : <<s, n>> \in DOMAIN mark THEN Min({mark[<<s, n>>] : n \in sinks}) ELSE None

DefaultStart(s) == Or(SourceCfg(s).from_block, 0)

\* Where a source starts; a live one at block 0 asks for the head.
StartCursor(s, restored, answered) ==
    LET c == Max({Or(restored, 0), DefaultStart(s)}) IN
    IF c = 0 /\ SourceCfg(s).mode = "live" /\ answered THEN Max({0, sc.height - SourceCfg(s).confirmations}) ELSE c

\* The graph is wired, the tasks are spawned and the probe answers ready.
Wire ==
    /\ run.phase = "load" /\ run.todo = <<>>
    /\ \E answered \in BOOLEAN, restored \in {[s \in SourceNames |-> Restore(s)]} :
          /\ src' = [s \in SourceNames |->
                        [cur |-> StartCursor(s, restored[s], answered), loop |-> "poll", sent |-> None]]
          /\ past' = [past EXCEPT !.began = [s \in SourceNames |->
                         IF restored[s] = None \/ s \notin DOMAIN @ THEN src'[s].cur ELSE @[s]]]
    /\ node' = LaidOver(node, [n \in SourceNames \cup SinkNames |-> Fresh(n, None, <<>>)])
    /\ run' = [run EXCEPT !.phase = "running", !.health = "running"]
    /\ UNCHANGED <<sc, mark, disk, world, budget, cacheVars>>

-----------------------------------------------------------------------------
(* Sources.  The server's side is external: it scans sc.page blocks at most  *)
(* for one query and answers with what the chain holds there.                *)

Version(s) == IF s \in past.flipped THEN "new" ELSE "old"
OnChain(s, l) == l.src = s /\ l.ver \in {"both", Version(s)}

Encoded(how, n) == CASE how = "num" -> Num(n) [] how = "str" -> Str(n) [] how = "hex" -> [k |-> "hex", v |-> n]

\* A log as the server sends it; its transaction hash names it.
WireLog(l) ==
    ("block_number" :> Encoded(l.enc, l.block)) @@ ("log_index" :> Num(l.index))
    @@ ("topic0" :> Text(l.event)) @@ ("transaction_hash" :> Text(l.id))
    @@ ("data" :> IF l.broken THEN Text("0xbad") ELSE Str(l.value))

Answer(s, from) ==
    LET next == LeastOf({from + sc.page, Max({from, sc.height + 1}), SourceCfg(s).to_block})
        logs == Passed(sc.logs, LAMBDA l : OnChain(s, l) /\ l.block >= from /\ l.block < next)
        block(n) == [number |-> Num(n), timestamp |-> [k |-> "hex", v |-> 100 + n], hash |-> Text(Version(s))]
    IN  [archive_height |-> sc.height, next_block |-> next,
         data |-> <<[blocks |-> [i \in DOMAIN logs |-> block(logs[i].block)],
                     logs |-> [i \in DOMAIN logs |-> WireLog(logs[i])]]>>]

Polling(s) == Active /\ src[s].loop = "poll" /\ ~run.stop

Asked(c, cur) == ParseResponse(Answer(c.name, cur), cur, Selection(c.query, c.reorg.enabled))
Planned(c, cur, resp) ==
    PlanStep(c.mode, cur, c.to_block, c.confirmations, resp.next_block, resp.archive_height)
Ends(c, plan) ==
    plan.step = "eof" \/ (c.mode = "backfill" /\ c.to_block # None /\ plan.next >= Or(c.to_block, 0))

\* The batches of a step: those of the range, and the end of the source.
Emitted(c, cur, resp, plan) ==
    (IF plan.step = "emit"
     THEN RangeBatches(c.name, c.resolved.chain_id, cur, plan.next, Confirmed(resp, plan.next),
                       Max({1, Or(c.max_records, Knobs.default_max_records)}))
     ELSE <<>>)
    \o IF Ends(c, plan) THEN <<ControlBatch(c.name, c.resolved.chain_id, Eof(plan.next))>> ELSE <<>>

\* One round of HyperSyncSource::run that emits or ends; a failed query and
\* Step::Wait are the absence of this step.
SourcePage(s) ==
    /\ Polling(s)
    /\ \E c \in {SourceCfg(s)} : \E resp \in {Asked(c, src[s].cur)} : \E plan \in {Planned(c, src[s].cur, resp)} :
       \E bs \in {Emitted(c, src[s].cur, resp, plan)} :
          /\ plan.step # "wait" /\ Len(node[s].out) + Len(bs) <= FeedCapacity
          /\ node' = [node EXCEPT ![s].out = @ \o bs]
          /\ src' = [src EXCEPT ![s] = [cur |-> plan.next, loop |-> IF Ends(c, plan) THEN "done" ELSE "poll",
                                        sent |-> IF bs = <<>> THEN @.sent ELSE AckBlock(Last(bs))]]
    /\ UNCHANGED <<sc, run, mark, disk, world, past, budget, cacheVars>>

SourceStops(s) ==
    /\ Active /\ src[s].loop = "poll" /\ run.stop
    /\ src' = [src EXCEPT ![s].loop = "done"]
    /\ UNCHANGED <<sc, run, node, mark, disk, world, past, budget, cacheVars>>

\* The chain drops the blocks past the fork and the source notices.
ReorgNoticed(s) ==
    /\ Polling(s) /\ budget.reorgs > 0 /\ s \notin past.flipped
    /\ SourceCfg(s).reorg.enabled /\ src[s].cur > sc.fork + 1
    /\ Len(node[s].out) < FeedCapacity
    /\ node' = [node EXCEPT ![s].out = Append(@, ControlBatch(s, ChainOf(s), Rollback(ChainOf(s), sc.fork)))]
    /\ src' = [src EXCEPT ![s].cur = Max({sc.fork + 1, DefaultStart(s)}),
                          ![s].sent = IF @ = None THEN None ELSE Min({@, sc.fork + 1})]
    /\ past' = [past EXCEPT !.flipped = @ \cup {s}]
    /\ budget' = [budget EXCEPT !.reorgs = @ - 1]
    /\ UNCHANGED <<sc, run, mark, disk, world, cacheVars>>

-----------------------------------------------------------------------------
(* Fan-out and processors.                                                   *)

\* A fan-out that gives up at the first branch that is gone.
NoBranches(live, pos) == <<>>

\* The branches that are left.
Without(live, pos) == SubSeq(live, 1, pos - 1) \o SubSeq(live, pos + 1, Len(live))

\* fan_out, one send: a branch whose receiver is gone is dropped.  After the
\* last send of a batch the task goes on to the next, or finds that nobody
\* listens: a source then stops every source, a processor returns.
FanSend(n) ==
    LET me == node[n]
        to == me.live[me.pos]
        gone == ~node[to].up
        live == IF gone THEN Without(me.live, me.pos) ELSE me.live
        pos == IF gone THEN me.pos ELSE me.pos + 1
        last == pos > Len(live)
        mine == [me EXCEPT !.live = live, !.pos = IF last THEN 1 ELSE pos,
                           !.out = IF live = <<>> THEN <<>> ELSE IF last THEN Tail(@) ELSE @,
                           !.inbox = IF live = <<>> THEN <<>> ELSE @,
                           !.up = live # <<>>]
    IN  /\ Active /\ me.up /\ me.out # <<>>
        /\ gone \/ Len(node[to].inbox) < Knobs.channel_capacity
        /\ node' = [node EXCEPT ![n] = mine, ![to].inbox = IF gone THEN @ ELSE Append(@, Head(me.out))]
        /\ run' = [run EXCEPT !.stop = @ \/ (live = <<>> /\ n \in SourceNames)]
        /\ UNCHANGED <<sc, src, mark, disk, world, past, budget, cacheVars>>

IdOf(rec) == rec["transaction_hash"].s
IdsOf(records) == {IdOf(r) : r \in Range(records)}

\* A processor that lets an empty result end the batch.
ForwardNothing(b, produced) == produced

\* An empty result still goes downstream, so that the cursor moves.
Forward(b, produced) ==
    IF produced = <<>> /\ ~IsControl(b) THEN <<Derive(b, b.kind, <<>>)>> ELSE produced

\* The pool gives out its last instance, or makes one.
Instance(pool) == IF pool = <<>> THEN FreshInstance ELSE Last(pool)
Others(pool) == IF pool = <<>> THEN <<>> ELSE Front(pool)

\* One batch through a processor: a trap costs the instance; an error, a trap
\* and an output that does not decode skip the batch, and with it its ack,
\* whether or not it has records.
Process(p) ==
    LET me == node[p]
        b == Head(me.inbox)
        ok(r) == r.res = "ok" /\ \A i \in DOMAIN r.out : Decodes(r.out[i])
        sent(r) == IF ok(r) THEN Forward(b, [i \in DOMAIN r.out |-> r.out[i].batch]) ELSE <<>>
    IN  /\ Active /\ me.up /\ me.inbox # <<>> /\ me.out = <<>>
        /\ \E r \in {CallProcess(me.ctx, Instance(me.pool), b)} :
           /\ node' = [node EXCEPT ![p].inbox = Tail(@), ![p].out = sent(r),
                                   ![p].pool = IF r.res = "trap" THEN Others(@) ELSE Append(Others(@), r.inst)]
           /\ past' = IF ok(r) THEN past ELSE [past EXCEPT !.skipped = @ \cup ({p} \X (IdsOf(b.records) \cup {None}))]
        /\ UNCHANGED <<sc, run, src, mark, disk, world, budget, cacheVars>>

-----------------------------------------------------------------------------
(* Sinks.                                                                    *)

NoFault == [fault |-> "none", at |-> 0]
Faults == {NoFault} \cup IF budget.faults > 0 THEN sc.faults ELSE {}
Spend(f) == budget' = [budget EXCEPT !.faults = IF f = NoFault THEN @ ELSE @ - 1]

\* A pool whose lock was poisoned by a panic.
Poisoned(pool) == pool = None

Buffered(pool) ==
    IF Poisoned(pool) THEN {}
    ELSE UNION {UNION {IdsOf(pool[i].buffers[c].records) : c \in DOMAIN pool[i].buffers} : i \in DOMAIN pool}

\* What a sink's place in the world holds.
Place(w, n, kind, c) ==
    CASE kind = "postgres" ->
            LET t == Get(w.tables, <<c.connection, c.table>>) IN IF t = None THEN {} ELSE t.rows
      [] kind = "s3" ->
            UNION {Range(w.objects[k]) : k \in {j \in DOMAIN w.objects : j[1] = c.connection}}
      [] kind = "webhook" ->
            LET p == Or(Get(w.posts, n), <<>>) IN UNION {Range(p[i].records) : i \in DOMAIN p}
      [] kind = "stdout" -> Or(Get(w.lines, n), {})
      [] OTHER -> {}
RecordsAt(w, n) == Place(w, n, ResolveModule(n), ConsumerCfg(n).config)
HeldIds(w, n) == {IdOf(r) : r \in RecordsAt(w, n)}

\* WasmSink::write on the last instance of the pool, a fresh one if there is
\* none.  [res, pool, world].
WriteSink(n, b, f) ==
    LET pool == node[n].pool
        returned(done) == [res |-> done.res, pool |-> Append(Others(pool), done.inst), world |-> done.world]
    IN  IF IsTap(n) THEN [res |-> "ok", pool |-> pool, world |-> IF IsControl(b) THEN world ELSE PrintLines(world, n, b)]
        ELSE IF Poisoned(pool) THEN [res |-> "panic", pool |-> pool, world |-> world]
        ELSE IF Instance(pool).dead THEN [res |-> "trap", pool |-> Others(pool), world |-> world]
        ELSE IF f.fault \in {"trap", "panic"} THEN [res |-> f.fault, pool |-> Others(pool), world |-> world]
        ELSE returned(SinkWrite(node[n].ctx, Instance(pool), world, b, f))

\* Rows that left a sink's buffers without being stored in a call that failed,
\* and rows of objects that others of the same chain were written over.
Dropped(n, pool, failed, after) ==
    IF failed THEN {n} \X (Buffered(pool) \ (Buffered(after.pool) \cup HeldIds(after.world, n))) ELSE {}
ChainsIn(records) == {ChainOf(l.src) : l \in {k \in Range(sc.logs) : k.id \in IdsOf(records)}}
Overwritten(n, w, after) ==
    LET replaced == {k \in DOMAIN w.objects : /\ w.objects[k] # after.world.objects[k]
                                              /\ ChainsIn(w.objects[k]) = ChainsIn(after.world.objects[k])}
    IN  IF ResolveModule(n) # "s3" THEN {}
        ELSE {n} \X (UNION {IdsOf(w.objects[k]) : k \in replaced} \ HeldIds(after.world, n))

IsRollback(b) == IsControl(b) /\ b.control.control = "rollback"

\* What the history keeps of a write.  A rollback is swallowed when its delete
\* was refused and the sink reported success.
Recorded(n, b, f, after) ==
    LET applied == IsRollback(b) /\ after.res = "ok" IN
    [past EXCEPT
        !.lost = @ \cup Dropped(n, node[n].pool, after.res # "ok", after),
        !.overwritten = @ \cup Overwritten(n, world, after),
        !.tapped = @ \cup IF IsTap(n) THEN {n} \X IdsOf(b.records) ELSE {},
        !.rolled = @ \cup IF applied THEN {<<b.source, n>>} ELSE {},
        !.swallowed = @ \cup IF applied /\ f = [fault |-> "refused", at |-> 1] THEN {n} ELSE {}]

\* An ack that takes the pin of a batch that has none.
AckedAsPinned(pair, b) == Put(mark, pair, b.ack_block)

\* An ack that takes the block of the last batch, higher or not.
AckedBare(pair, b) == Put(mark, pair, AckBlock(b))

\* CheckpointStore::ack and rewind.
Acked(pair, b) == Put(mark, pair, Max({AckBlock(b), Or(Get(mark, pair), 0)}))
Lowered(table, pair, to) == IF pair \in DOMAIN table THEN [table EXCEPT ![pair] = Min({@, to})] ELSE table
Rewound(pair, to) == Put(mark, pair, Min({Or(Get(mark, pair), to), to}))

\* What sink_task does with the outcome of a write: the third failure, a panic
\* and a failed rewind pause the branch.
Written(n, b, f, w) ==
    LET pair == <<b.source, n>>
        unwound == w.res = "ok" /\ IsRollback(b) /\ f.fault = "rewind"
        failed == w.res \notin {"ok", "panic"}
        pauses == w.res = "panic" \/ (failed /\ node[n].attempt + 1 >= MaxAttempts) \/ unwound
    IN  /\ node' = [node EXCEPT ![n] =
                       [node[n] EXCEPT !.pool = w.pool, !.up = ~pauses, !.attempt = IF failed THEN @ + 1 ELSE 0,
                                 !.inbox = IF pauses THEN <<>> ELSE IF failed THEN @ ELSE Tail(@)]]
        /\ run' = [run EXCEPT !.paused = @ \cup IF pauses THEN {n} ELSE {}]
        /\ world' = w.world
        /\ past' = [Recorded(n, b, f, w) EXCEPT !.unwound = @ \cup IF unwound THEN {pair} ELSE {}]
        /\ IF w.res # "ok" THEN UNCHANGED <<mark, disk>>
           ELSE IF IsRollback(b)
           THEN /\ mark' = Rewound(pair, b.control.at + 1)
                /\ disk' = IF unwound THEN disk ELSE Lowered(disk, pair, b.control.at + 1)
           ELSE mark' = Acked(pair, b) /\ UNCHANGED disk

\* One attempt of a sink on the batch in hand.
SinkStep(n, f) ==
    /\ Active /\ node[n].up /\ node[n].inbox # <<>>
    /\ LET b == Head(node[n].inbox) IN \E w \in {WriteSink(n, b, f)} : Written(n, b, f, w)
    /\ Spend(f)
    /\ UNCHANGED <<sc, src, cacheVars>>

-----------------------------------------------------------------------------
(* Checkpoints and the end of a run.                                         *)

\* WasmSink::flush, every pooled instance in turn up to the first failure; an
\* instance that traps stays in the pool.  [ok, pool, world].
FlushPool(n, pool, w, f) ==
    LET after(a, i, d) == [ok |-> d.res = "ok", pool |-> [a.pool EXCEPT ![i] = d.inst], world |-> d.world]
        one(a, i) ==
            IF ~a.ok THEN a
            ELSE IF a.pool[i].dead \/ f.fault = "trap" THEN [a EXCEPT !.ok = FALSE, !.pool[i].dead = TRUE]
            ELSE after(a, i, SinkFlush(node[n].ctx, a.pool[i], a.world, f))
    IN  IF IsTap(n) \/ Poisoned(pool) THEN [ok |-> TRUE, pool |-> pool, world |-> w]
        ELSE IF f.fault = "panic" THEN [ok |-> TRUE, pool |-> None, world |-> w]
        ELSE FoldLeft(one, [ok |-> TRUE, pool |-> pool, world |-> w], [i \in DOMAIN pool |-> i])

\* A checkpoint that persists whatever the flushes said.
SnapshotAnyway(flushed) == mark

\* The snapshot is persisted only when every flush went well.
PersistSnapshot(flushed) == IF flushed.ok THEN mark ELSE disk

\* checkpoint_once: flush the sinks in some order up to the first failure; a
\* panic in a flush is taken for success.  The fault strikes at sink t.
Flushed(order, t, f) ==
    LET after(a, n, d) ==
            [ok |-> d.ok, pools |-> [a.pools EXCEPT ![n] = d.pool], world |-> d.world,
             lost |-> a.lost \cup Dropped(n, a.pools[n], ~d.ok \/ Poisoned(d.pool), d),
             overwritten |-> a.overwritten \cup Overwritten(n, a.world, d)]
        flush(a, n) ==
            IF ~a.ok THEN a
            ELSE after(a, n, FlushPool(n, a.pools[n], a.world, IF n = t THEN f ELSE NoFault))
    IN  FoldLeft(flush, [ok |-> TRUE, pools |-> [n \in SinkNames |-> node[n].pool], world |-> world,
                         lost |-> past.lost, overwritten |-> past.overwritten], order)

Checkpoint(after(_)) ==
    \E order \in SetToSeqs(SinkNames), f \in Faults : \E t \in IF f = NoFault THEN {None} ELSE SinkNames :
       \E done \in {Flushed(order, t, f)} :
       /\ world' = done.world /\ disk' = PersistSnapshot(done)
       /\ past' = [past EXCEPT !.lost = done.lost, !.overwritten = done.overwritten,
                              !.unwound = IF done.ok THEN {} ELSE @]
       /\ node' = after(done) /\ Spend(f)

\* The periodic checkpoint; the first one after the stop flag is the last.
Tick ==
    /\ run.phase = "running" /\ run.ticking
    /\ Checkpoint(LAMBDA done : [n \in DOMAIN node |->
                     IF n \in SinkNames THEN [node[n] EXCEPT !.pool = done.pools[n]] ELSE node[n]])
    /\ run' = [run EXCEPT !.ticking = ~run.stop]
    /\ UNCHANGED <<sc, src, mark, cacheVars>>

Idle(n) == node[n].inbox = <<>> /\ node[n].out = <<>>

\* Every task has returned: the sources are done and nothing is left to do.
Finish ==
    /\ run.phase = "running"
    /\ \A s \in SourceNames : src[s].loop = "done"
    /\ \A n \in DOMAIN node : Idle(n)
    /\ run' = [run EXCEPT !.phase = "stopping", !.health = "stopping", !.eof = TRUE]
    /\ UNCHANGED <<sc, src, node, mark, disk, world, past, budget, cacheVars>>

\* SIGINT or SIGTERM.  The tasks run on until the process ends.
Signal ==
    /\ run.phase = "running" /\ sc.signal
    /\ run' = [run EXCEPT !.phase = "stopping", !.health = "stopping", !.stop = TRUE]
    /\ UNCHANGED <<sc, src, node, mark, disk, world, past, budget, cacheVars>>

\* The last checkpoint, and the process ends.
Final ==
    /\ run.phase = "stopping"
    /\ Checkpoint(LAMBDA done : <<>>)
    /\ run' = [run EXCEPT !.phase = "ended", !.saved = (disk' = mark)]
    /\ src' = <<>> /\ mark' = <<>>
    /\ UNCHANGED <<sc, cacheVars>>

Crash ==
    /\ run.phase \notin Down /\ budget.crashes > 0
    /\ run' = [run EXCEPT !.phase = "crashed"]
    /\ src' = <<>> /\ node' = <<>> /\ mark' = <<>>
    /\ budget' = [budget EXCEPT !.crashes = @ - 1]
    /\ CacheCrash("main", pid["main"])
    /\ UNCHANGED <<sc, disk, world, past>>

-----------------------------------------------------------------------------
(* The cache, and another process that uses it.                              *)

MainWrites == Loading /\ CacheWriting("main") /\ UNCHANGED pipeVars
RivalCompiles ==
    /\ component["rival"] = None
    /\ \E w \in sc.rival : CompileHit("rival", w) \/ CompileMiss("rival", w)
    /\ UNCHANGED pipeVars
RivalWrites == CacheWriting("rival") /\ UNCHANGED pipeVars
RivalCrashes ==
    /\ compiling["rival"] # None /\ budget.crashes > 0
    /\ CacheCrash("rival", pid["rival"])
    /\ budget' = [budget EXCEPT !.crashes = @ - 1]
    /\ UNCHANGED <<sc, run, src, node, mark, disk, world, past>>

-----------------------------------------------------------------------------
NoPast == [skipped |-> {}, lost |-> {}, overwritten |-> {}, tapped |-> {}, swallowed |-> {},
           rolled |-> {}, unwound |-> {}, flipped |-> {}, began |-> <<>>]
Off == [phase |-> "off", nth |-> 0, cfg |-> None, said |-> [error |-> "", quotes |-> {}, missing |-> {}],
        health |-> "starting", stop |-> FALSE, ticking |-> TRUE, todo |-> <<>>, eof |-> FALSE, saved |-> FALSE, paused |-> {}]

Init ==
    /\ \E f \in DOMAIN Scenarios : sc \in Scenarios[f]
    /\ run = Off /\ src = <<>> /\ node = <<>> /\ mark = <<>> /\ disk = <<>>
    /\ world = EmptyWorld /\ past = NoPast /\ budget = sc.budget
    /\ pid = sc.pids
    /\ usable = [p \in Processes |-> PrepareCacheDir(sc.dir)]
    /\ entry = [w \in Wasms |-> None] /\ tmp = [x \in Wasms \X Range(sc.pids) |-> None]
    /\ compiling = [p \in Processes |-> None] /\ component = [p \in Processes |-> None]

\* Every command has been given and has ended.
Over == run.phase \in Down /\ run.nth = Len(sc.cmds) /\ UNCHANGED pvars

Next ==
    \/ Start \/ Open \/ LoadFails \/ Compile \/ Instantiate \/ Wire
    \/ \E s \in SourceNames : SourcePage(s) \/ SourceStops(s) \/ ReorgNoticed(s)
    \/ \E n \in SourceNames \cup ProcessorNames : FanSend(n)
    \/ \E p \in ProcessorNames : Process(p)
    \/ \E n \in SinkNames, f \in Faults : SinkStep(n, f)
    \/ Tick \/ Finish \/ Signal \/ Final \/ Crash
    \/ MainWrites \/ RivalCompiles \/ RivalWrites \/ RivalCrashes
    \/ Over

Spec == Init /\ [][Next]_pvars

-----------------------------------------------------------------------------
(* What a pipeline promises, in terms of the logs on the chain and of        *)
(* integers, without batches, encodings or instances.                        *)

\* The integer a path of a log in some form (raw or decoded) stands for.
Meaning(l, form, path) ==
    CASE path = "block_number" -> l.block [] path = "log_index" -> l.index
      [] path = "params.value" /\ form = "decoded" -> l.value [] OTHER -> None

Means(p, l, form) ==
    LET items == IF p.op = "in" THEN Range(p.value.items) ELSE {p.value}
        holds(v, ints) ==
            CASE p.op \in {"eq", "in"} -> v \in ints [] p.op = "ne" -> v \notin ints
              [] p.op = "gt" -> \E x \in ints : v > x [] p.op = "gte" -> \E x \in ints : v >= x
              [] p.op = "lt" -> \E x \in ints : v < x [] p.op = "lte" -> \E x \in ints : v <= x
        against(v) == holds(v, IF v = None THEN {} ELSE {IntOf(x) : x \in {y \in items : y.k # "text"}})
    IN  against(Meaning(l, form, p.field))

\* The form in which a processor is meant to let a log pass; None: not at all.
Passing(kind, c, l, form) ==
    LET all == Range(Or(Get(c, "all"), <<>>)) any == Range(Or(Get(c, "any"), <<>>))
    IN  CASE kind = "filter" ->
                IF (\A q \in all : Means(q, l, form)) /\ (any = {} \/ \E q \in any : Means(q, l, form))
                THEN form ELSE None
          [] kind = "evm-abi-decoder" ->
                IF form = "raw" /\ l.event \in DOMAIN EventTable(c) THEN "decoded"
                ELSE IF Get(c, "on_undecodable") = "passthrough" THEN form ELSE None
          [] OTHER -> form
PassesAs(p, l, form) == Passing(ResolveModule(p), PreprocessConfig(p), l, form)

\* The nodes that hand a log on, and in which forms.
Carried(l) ==
    LET step(S) == S \cup UNION {{<<p.name, PassesAs(p.name, l, x[2])>> :
                                     x \in {y \in S : y[1] \in Range(p.inputs)}} : p \in Range(Cfg.processors)}
        all == FoldLeft(LAMBDA S, i : step(S), {<<l.src, "raw">>}, Cfg.processors)
    IN  {x \in all : x[2] # None}

\* What a sink is meant to hold of a log: its id and, decoded, its value.
Wanted(n, l) ==
    {[id |-> l.id, value |-> IF x[2] = "decoded" THEN l.value ELSE None] :
        x \in {y \in Carried(l) : y[1] \in Range(ConsumerCfg(n).inputs)}}

ValueOf(rec) ==
    LET v == {rec[f] : f \in {"params.value", "value"} \cap DOMAIN rec} IN
    IF v = {} THEN None ELSE IntOf(CHOOSE x \in v : TRUE)
Holds(n) == {[id |-> IdOf(r), value |-> ValueOf(r)] : r \in RecordsAt(world, n)}

LogsOf(s) == {l \in Range(sc.logs) : l.src = s}

\* Nodes on the way from a source to a sink; one route if each has one input
\* on the way.
On(s, n) ==
    LET below(m) == FoldLeft(LAMBDA S, i : S \cup UNION {Range(ConsumersOf(Cfg, x)) : x \in S}, {m}, Consumers(Cfg))
    IN  {m \in below(s) : n \in below(m)}
OneRoute(s, n) ==
    \A m \in On(s, n) \ {s} : Len(SelectSeq(ConsumerCfg(m).inputs, LAMBDA i : i \in On(s, n))) = 1

\* Logs this code is known to withhold from a sink: of a batch a processor
\* failed on, dropped by or written over in the s3 sink, or only printed.
Excused(s, n) ==
    {x[2] : x \in {y \in past.skipped : y[1] \in On(s, n)}
            \cup {y \in past.lost \cup past.overwritten \cup past.tapped : y[1] = n}} \ {None}

Stores(n) == ResolveModule(n) \in {"postgres", "s3", "webhook", "stdout"}

-----------------------------------------------------------------------------
(* Properties.                                                               *)

PTypeOK ==
    /\ run.phase \in Down \cup {"open", "load", "running", "stopping"}
    /\ \A x \in DOMAIN mark : x \in SourceNames \X SinkNames /\ mark[x] \in Nat
    /\ \A x \in DOMAIN disk : disk[x] \in Nat
    /\ \A n \in DOMAIN node : /\ node[n].attempt \in 0 .. MaxAttempts
                              /\ node[n].pos \in 1 .. Len(node[n].live) + 1
                              /\ Len(node[n].inbox) <= Knobs.channel_capacity
                              /\ ~node[n].up => Idle(n)

\* What Config::load_str reports shows no value of a secret unless the document
\* has the reference where validate quotes a string (a name, a type, a chain, an
\* input, a module, a grant): the dsn, url or password beside it stays hidden when
\* such a rule is broken, and neither a parse error, even when a secret lands where
\* a number or a mode is expected, nor a list of missing secrets shows any.
OnlyNamedSecretsAreShown ==
    LET named == NamedLeaves(sc.doc) \cap DOMAIN sc.env IN
    run.said.quotes \cap Range(sc.env)
        \subseteq (IF run.said.error \in {"", "parse", "secrets"} THEN {} ELSE {sc.env[r] : r \in named})

\* What validation accepts can be run: every source has an endpoint and feeds
\* some sink, every sink and processor is fed by some source, and no node feeds
\* itself through others (its task would wait for its own channel to close).
AcceptedIsRunnable ==
    Cfg # None /\ run.phase \in {"open", "ended"} =>
        LET nodes == SourceNames \cup ProcessorNames \cup SinkNames
            below(n) == Range(ConsumersOf(Cfg, n))
            closed == {S \in SUBSET nodes : \A m \in S : below(m) \subseteq S}
            after(n) == {m \in nodes : \A S \in closed : below(n) \subseteq S => m \in S}
        IN  /\ \A s \in SourceNames : SourceCfg(s).resolved # None /\ after(s) \cap SinkNames # {}
            /\ \A n \in SinkNames \cup ProcessorNames : n \notin after(n) /\ \E s \in SourceNames : n \in after(s)

\* compile never hands out a component that is half written, from another
\* user, from another engine or of another module, although processes with
\* the same id write the same files and may die at any point.
CacheServesWhole ==
    \A p \in Processes : component[p] # None => component[p] = Component(component[p].for)

\* The checkpoint file is never ahead of the watermarks in memory, over replays
\* of blocks a sink has acked already, rewinds, failed flushes and restarts,
\* except for a cursor whose rewind failed, until the next checkpoint: a process
\* that dies now loses no more than it would lose by its next checkpoint.
DiskNotAhead ==
    run.phase \in {"load", "running", "stopping"} =>
        \A x \in DOMAIN disk \ past.unwound : x \in DOMAIN mark /\ disk[x] <= mark[x]

\* A cursor in the checkpoint file covers only logs the sink holds: for every
\* sink with one route from the source, over retries, pauses, failed flushes,
\* crashes, restarts and reorgs, except for the logs the history shows to be
\* withheld, and until the next checkpoint for a cursor whose rewind failed.
PNoLoss ==
    Cfg # None =>
        \A x \in DOMAIN disk \ past.unwound :
            LET s == x[1] n == x[2]
                covered(l) == /\ OnChain(s, l) /\ l.block >= past.began[s] /\ l.block < disk[x]
                              /\ l.ver = "new" => x \in past.rolled
            IN  \A l \in {k \in Range(sc.logs) : covered(k) /\ k.id \notin HeldIds(world, n)} :
                    OneRoute(s, n) /\ Stores(n) /\ Wanted(n, l) # {} => l.id \in Excused(s, n)

\* A sink whose cursors have reached the end of their ranges holds exactly what
\* the chain, the filters (as comparisons of integers) and the ABI say it
\* should, and nothing else, however values were encoded, pages cut, batches
\* chunked, calls retried and runs interrupted, unless something was withheld
\* from it.  For a sink with several routes this is so at the end of a run that
\* was neither paused nor interrupted.
CompleteIsExact ==
    Cfg # None /\ past.flipped = {} =>
        \A n \in SinkNames :
            LET feeding == {s \in SourceNames : n \in Reachable(Cfg, s)}
                due(s) == {l \in Range(sc.logs) : /\ OnChain(s, l) /\ l.block >= past.began[s]
                                                  /\ l.block < SourceCfg(s).to_block}
            IN  /\ \A s \in feeding : /\ <<s, n>> \in DOMAIN disk
                                      /\ disk[<<s, n>>] >= Or(SourceCfg(s).to_block, disk[<<s, n>>] + 1)
                                      /\ OneRoute(s, n) \/ (run.nth = 1 /\ run.phase = "ended" /\ run.eof /\ n \notin run.paused)
                                      /\ Excused(s, n) = {}
                /\ Stores(n)
                => Holds(n) = UNION {UNION {Wanted(n, l) : l \in due(s)} : s \in feeding}

\* When a run has ended by itself, its last checkpoint went through and every
\* source has a sink that is not paused, each of those has its cursors at the
\* end of the range: a branch that pauses never truncates the ones beside it.
\* (A source that has lost all its branches stops the other sources too.)
FinishedIsComplete ==
    /\ run.phase = "ended" /\ run.eof /\ run.saved
    /\ (\A s \in SourceNames : Reachable(Cfg, s) \ run.paused # {})
    => \A s \in SourceNames : \A n \in Reachable(Cfg, s) \ run.paused :
          <<s, n>> \in DOMAIN disk /\ disk[<<s, n>>] >= SourceCfg(s).to_block

\* Once everything sent has been worked off, the watermark of every sink that
\* is not paused has reached the last ack its source sent, on branches whose
\* filter lets nothing pass too, unless a processor failed on a batch.
DrainedIsCaughtUp ==
    run.phase = "running" /\ (\A n \in DOMAIN node : Idle(n)) /\ past.skipped = {} =>
        \A s \in SourceNames : \A n \in Reachable(Cfg, s) :
            node[n].up /\ src[s].sent # None => <<s, n>> \in DOMAIN mark /\ mark[<<s, n>>] >= src[s].sent

\* Once a sink has applied a reorg's rollback and no other copy of it is on the
\* way, its table holds no row of the abandoned blocks, unless a delete failed
\* unnoticed.
NoStaleRows ==
    run.phase = "running" =>
        \A s \in past.flipped : \A n \in SinkNames :
            /\ ResolveModule(n) = "postgres" /\ RollbackColumns(ConsumerCfg(n).config).block # None
            /\ <<s, n>> \in past.rolled /\ n \notin past.swallowed /\ node[n].up
            /\ \A m \in DOMAIN node : \A b \in Range(node[m].inbox \o node[m].out) : ~(IsRollback(b) /\ b.source = s)
            => \A l \in LogsOf(s) : l.ver = "old" => l.id \notin HeldIds(world, n)

\* A row leaves a sink only when the sink works on a rollback of the row's own
\* chain to below its block, when a batch brings the same log position again,
\* or when an object is written over under the same key.
RowsLeaveByRollback ==
    [][world' # world =>
        \A n \in SinkNames : \A id \in HeldIds(world, n) \ HeldIds(world', n) :
            LET l == CHOOSE k \in Range(sc.logs) : k.id = id
                b == Head(node[n].inbox)
            IN  \/ <<n, id>> \in past'.overwritten
                \/ IsRollback(b) /\ b.chain_id = ChainOf(l.src) /\ b.control.at < l.block
                \/ /\ ~IsControl(b) /\ b.chain_id = ChainOf(l.src)
                   /\ \E r \in Range(b.records) : BlockNumberOf(r) = l.block /\ U64Field(r, "log_index") = l.index]_pvars

\* ARCHITECTURE.md, section 8.2, rule 1: a cursor advances only after the sink
\* has acked every batch up to that block, fan-out reordering included.
AckedMeansAllUpToBlock ==
    run.phase = "running" =>
        \A x \in DOMAIN mark : Stores(x[2]) =>
            \A l \in {k \in Range(sc.logs) : OnChain(x[1], k)} :
                l.block >= past.began[x[1]] /\ l.block < mark[x] /\ Wanted(x[2], l) # {}
                => l.id \in HeldIds(world, x[2]) \cup Buffered(node[x[2]].pool)
=============================================================================

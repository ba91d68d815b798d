------------------------------- MODULE Modules -------------------------------
(***************************************************************************)
(* The modules that come with the program, the glue between them and the    *)
(* host, and the calls by which they reach the world.                       *)
(*                                                                          *)
(* The world is [tables, objects, posts, lines]: tables by connection and   *)
(* name, objects by connection and key, what webhooks and standard output   *)
(* received, by node.  A node's context is [name, kind, config, http,       *)
(* conns, sql, blob]: its grants, and the connections the host has open.    *)
(* A call returns [res, inst, world], res in ok, err, trap.  How the world  *)
(* answers is [fault, at]: the at-th external call of this module call is   *)
(* refused, or takes effect and is reported as failed ("late").             *)
(***************************************************************************)
EXTENDS Records

Fault(f, k) == IF f.at = k THEN f.fault ELSE "none"
Outcome(res, inst, w) == [res |-> res, inst |-> inst, world |-> w]
EmptyWorld == [tables |-> <<>>, objects |-> <<>>, posts |-> <<>>, lines |-> <<>>]

\* The state of an instance as init leaves it; each module uses its own part.
\* After a trap an instance is dead: every later call traps.
FreshInstance == [created |-> FALSE, buffers |-> <<>>, calls |-> 0, dead |-> FALSE]

-----------------------------------------------------------------------------
(* Host calls (wasm-host/src/host_impl.rs).                                  *)

\* url_host: a url's first piece holds its scheme and, lower case, its host.
UrlHost(url) ==
    IF {"scheme", "host"} \subseteq DOMAIN url[1] /\ url[1].scheme \in {"http", "https"}
    THEN url[1].host ELSE None

HostAllowedBy(allow, url) == UrlHost(url) # None /\ UrlHost(url) \in allow

\* http: what was posted reaches the log of the node's endpoint unless the
\* request is denied or refused.  "late" is an answer outside 200..299.
HttpPost(ctx, w, item, answer) ==
    LET sent == [w EXCEPT !.posts = (ctx.name :> Append(Or(Get(@, ctx.name), <<>>), item)) @@ @] IN
    IF ~HostAllowedBy(ctx.http, ctx.config.url) \/ answer = "refused"
    THEN Outcome("err", None, w)
    ELSE Outcome(IF answer = "late" THEN "err" ELSE "ok", None, sent)

\* What PostgreSQL accepts for a column: a cast placeholder takes anything
\* that reads as a number, the others what fits the column's type.
Binds(type, v, cast) ==
    \/ v.k = "null"
    \/ IF cast THEN v.k \in {"num", "str"}
       ELSE type = "text" \/ (type \in {"bigint", "numeric"} /\ v.k = "num")

KeyOf(row, cols) == [c \in cols |-> row[c]]

\* One statement on a table; None: it fails.
Execute(t, s) ==
    CASE s.q = "ddl" ->
            IF t # None THEN t
            ELSE IF s.key \subseteq DOMAIN s.cols THEN [cols |-> s.cols, key |-> s.key, rows |-> {}]
            ELSE None
      [] s.q = "insert" ->
            IF \/ t = None \/ ~(DOMAIN s.row \subseteq DOMAIN t.cols) \/ ~(t.key \subseteq DOMAIN s.row)
               \/ s.upsert /\ s.key # t.key
               \/ \E c \in DOMAIN s.row : ~Binds(t.cols[c], s.row[c], c \in s.casts)
            THEN None
            ELSE LET same == {r \in t.rows : t.key # {} /\ KeyOf(r, t.key) = KeyOf(s.row, t.key)} IN
                 IF same = {} THEN [t EXCEPT !.rows = @ \cup {s.row}]
                 ELSE IF ~s.upsert THEN None
                 ELSE [t EXCEPT !.rows = (@ \ same) \cup {s.row @@ r : r \in same}]
      [] s.q = "delete" ->
            IF t = None \/ ~({s.block} \cup (IF s.chain_col = None THEN {} ELSE {s.chain_col}) \subseteq DOMAIN t.cols)
            THEN None
            ELSE [t EXCEPT !.rows = {r \in @ : ~(/\ s.block \in DOMAIN r
                                                 /\ FlexU64(r[s.block]) # None
                                                 /\ FlexU64(r[s.block]) > s.after
                                                 /\ \/ s.chain_col = None
                                                    \/ /\ s.chain_col \in DOMAIN r
                                                       /\ FlexU64(r[s.chain_col]) = s.chain)}]

\* run_sql_batch: the statements in one transaction, all or nothing, on a
\* granted connection with an open pool.
RunSqlBatch(ctx, w, conn, table, statements, answer) ==
    LET step(a, s) == IF a.ok THEN [a EXCEPT !.t = Execute(a.t, s)] ELSE a
        checked(a) == [a EXCEPT !.ok = @ /\ a.t # None]
        after(a) ==
            IF conn \notin ctx.conns \/ conn \notin ctx.sql \/ answer = "refused" \/ ~a.ok
            THEN Outcome("err", None, w)
            ELSE Outcome(IF answer = "late" THEN "err" ELSE "ok", None,
                         [w EXCEPT !.tables = (<<conn, table>> :> a.t) @@ @])
    IN  after(FoldLeft(LAMBDA a, s : checked(step(a, s)),
                       [ok |-> TRUE, t |-> Get(w.tables, <<conn, table>>)], statements))

BlobPut(ctx, w, conn, key, data, answer) ==
    IF conn \notin ctx.conns \/ conn \notin DOMAIN ctx.blob \/ answer = "refused"
    THEN Outcome("err", None, w)
    ELSE Outcome(IF answer = "late" THEN "err" ELSE "ok", None,
                 [w EXCEPT !.objects = (<<conn, ctx.blob[conn], key>> :> data) @@ @])

-----------------------------------------------------------------------------
(* The postgres sink.                                                        *)

\* PgConfig::from_json: rollback is absent or [on] (a boolean), and an object
\* may name other columns, or None for no chain filter.
RollbackColumns(config) ==
    LET r == Or(Get(config, "rollback"), [on |-> FALSE]) IN
    IF "on" \in DOMAIN r /\ ~r.on THEN [block |-> None, chain |-> None]
    ELSE [block |-> Or(Get(r, "block_number_column"), "block_number"),
          chain |-> IF "chain_id_column" \in DOMAIN r THEN r.chain_id_column ELSE "chain_id"]

PgDefaults == [mode |-> "insert", unique_key |-> {}, create_table |-> FALSE, column_map |-> <<>>]
PgConfigOk(config) ==
    LET c == config @@ PgDefaults IN
    {"connection", "table"} \subseteq DOMAIN config /\ (c.mode = "upsert" => c.unique_key # {})

\* The row of a record: its top-level scalars, then the mapped paths.
ResolveColumns(rec, column_map) ==
    LET paths == {p \in DOMAIN column_map : Get(rec, p) # None} IN
    [c \in {column_map[p] : p \in paths} |-> rec[CHOOSE p \in paths : column_map[p] = c]]
    @@ [f \in DOMAIN rec \ Nested |-> rec[f]]

ColType(v) ==
    CASE v.k = "num" -> IF IsInteger(v) THEN "bigint" ELSE "double precision"
      [] v.k = "str" -> "numeric" [] v.k \in {"text", "hex"} -> "text" [] OTHER -> "jsonb"

\* The first value seen for each column of any row is the sample for the DDL.
UnionColumns(rows) == FoldLeft(LAMBDA sample, row : sample @@ row, <<>>, rows)

\* One statement per column signature, its casts from the group's first row.
UpsertStatements(cfg, rows) ==
    LET sigs == SetToSeq({DOMAIN rows[i] : i \in DOMAIN rows})
        group(sig) == SelectSeq(rows, LAMBDA r : DOMAIN r = sig)
        casts(sig) == {c \in sig : group(sig)[1][c].k = "str"}
        insert(sig, r) == [q |-> "insert", row |-> r, casts |-> casts(sig),
                           upsert |-> cfg.mode = "upsert", key |-> cfg.unique_key]
    IN  FlattenSeq([i \in DOMAIN sigs |->
            [j \in DOMAIN group(sigs[i]) |-> insert(sigs[i], group(sigs[i])[j])]])

CreateTable(cfg, sample) ==
    <<[q |-> "ddl", cols |-> [c \in DOMAIN sample |-> ColType(sample[c])], key |-> cfg.unique_key]>>

\* One transaction: the DDL, unless this instance has done it, and the rows.
PgRows(ctx, cfg, inst, w, rows, f) ==
    LET statements == (IF cfg.create_table /\ ~inst.created THEN CreateTable(cfg, UnionColumns(rows)) ELSE <<>>)
                      \o UpsertStatements(cfg, rows)
        after(done) == Outcome(done.res, [inst EXCEPT !.created = @ \/ done.res = "ok"], done.world)
    IN  IF rows = <<>> THEN Outcome("ok", inst, w)
        ELSE after(RunSqlBatch(ctx, w, cfg.connection, cfg.table, statements, Fault(f, 1)))

PgWrite(ctx, inst, w, b, f) ==
    LET cfg == ctx.config @@ PgDefaults
        rows == [i \in DOMAIN b.records |-> ResolveColumns(b.records[i], cfg.column_map)]
    IN  PgRows(ctx, cfg, inst, w, SelectSeq(rows, LAMBDA r : DOMAIN r # {}), f)

\* A delete past the fork that forgets the chain.
DeleteAllChains(ctx, w, ctrl, f) ==
    RunSqlBatch(ctx, w, ctx.config.connection, ctx.config.table,
        <<[q |-> "delete", block |-> "block_number", chain_col |-> None, after |-> ctrl.at, chain |-> 0]>>, Fault(f, 1))

\* A delete that spares the first abandoned block.
DeletePastNext(ctx, w, ctrl, f) ==
    RunSqlBatch(ctx, w, ctx.config.connection, ctx.config.table,
        <<[q |-> "delete", block |-> "block_number", chain_col |-> "chain_id",
           after |-> ctrl.at + 1, chain |-> ctrl.chain_id]>>, Fault(f, 1))

\* The delete past the fork, on the rollback's chain when a chain column is set.
RollbackDelete(ctx, w, ctrl, f) ==
    LET delete(col) == [q |-> "delete", block |-> col.block, chain_col |-> col.chain,
                        after |-> ctrl.at, chain |-> ctrl.chain_id]
    IN  RunSqlBatch(ctx, w, ctx.config.connection, ctx.config.table,
                    <<delete(RollbackColumns(ctx.config))>>, Fault(f, 1))

\* on_control: a failed delete is ignored while this instance has not created
\* its table.
PgRollback(ctx, inst, w, ctrl, f) ==
    LET maybe_absent == (ctx.config @@ PgDefaults).create_table /\ ~inst.created
        after(done) == Outcome(IF maybe_absent THEN "ok" ELSE done.res, inst, done.world)
    IN  IF ctrl.control # "rollback" \/ RollbackColumns(ctx.config).block = None THEN Outcome("ok", inst, w)
        ELSE after(RollbackDelete(ctx, w, ctrl, f))

-----------------------------------------------------------------------------
(* The s3 sink.                                                              *)

S3Defaults == [format |-> "parquet", flush_rows |-> 100000]
S3ConfigOk(config) ==
    "connection" \in DOMAIN config /\ (config @@ S3Defaults).format \in {"parquet", "ndjson"}

EmptyBuffer == [records |-> <<>>, first |-> 0, last |-> 0, seen |-> FALSE]
BufferOf(bufs, chain) == IF chain \in DOMAIN bufs THEN bufs[chain] ELSE EmptyBuffer

Push(buf, lo, hi, records) ==
    IF records = <<>> THEN buf
    ELSE [records |-> buf.records \o records, first |-> IF buf.seen THEN buf.first ELSE lo,
          last |-> Max({buf.last, hi}), seen |-> TRUE]

\* Chain, block range and number of rows name the object.
ObjectKey(buf, chain, format) == <<chain, buf.first, buf.last, Len(buf.records), format>>
Taken(buf) == [buf EXCEPT !.records = <<>>, !.seen = FALSE, !.last = 0]

RecordBlockNumber(rec) == FlexU64(Get(rec, "block_number"))

BufferRollback(buf, after) ==
    LET kept == SelectSeq(buf.records,
                    LAMBDA r : \A n \in {RecordBlockNumber(r)} \ {None} : n <= after)
    IN  IF kept = <<>> THEN EmptyBuffer
        ELSE [buf EXCEPT !.records = kept, !.last = Min({@, after})]

\* Take every buffer with at least `least` rows, then upload one after the
\* other; the first failure leaves the rest neither buffered nor stored.
TakeAndPut(ctx, inst, w, bufs, least, f) ==
    LET cfg == ctx.config @@ S3Defaults
        ready == {c \in DOMAIN bufs : bufs[c].records # <<>> /\ Len(bufs[c].records) >= least}
        put(a, c) == IF a.res # "ok" THEN a
                     ELSE BlobPut(ctx, a.world, cfg.connection, ObjectKey(bufs[c], c, cfg.format), bufs[c].records,
                                  Fault(f, Cardinality({d \in ready : d <= c})))
        after(done) == Outcome(done.res,
                [inst EXCEPT !.buffers = [c \in DOMAIN bufs |-> IF c \in ready THEN Taken(bufs[c]) ELSE bufs[c]]],
                done.world)
    IN  after(FoldLeft(put, Outcome("ok", None, w), SetToSortSeq(ready, <)))

S3Write(ctx, inst, w, b, f) ==
    TakeAndPut(ctx, inst, w,
               (b.chain_id :> Push(BufferOf(inst.buffers, b.chain_id), b.from, b.to, b.records)) @@ inst.buffers,
               Max({1, (ctx.config @@ S3Defaults).flush_rows}), f)

S3Flush(ctx, inst, w, f) == TakeAndPut(ctx, inst, w, inst.buffers, 1, f)

S3Rollback(inst, w, ctrl) ==
    IF ctrl.control = "rollback" /\ ctrl.chain_id \in DOMAIN inst.buffers
    THEN Outcome("ok", [inst EXCEPT !.buffers[ctrl.chain_id] = BufferRollback(@, ctrl.at)], w)
    ELSE Outcome("ok", inst, w)

-----------------------------------------------------------------------------
(* The webhook, stdout and blackhole sinks.                                  *)

WebhookDefaults == [max_batch |-> 500, forward_rollbacks |-> TRUE]

\* Chunks are posted in order; the first that fails ends the call, and a
\* retry of the batch posts from the first chunk again.
WebhookWrite(ctx, inst, w, b, f) ==
    LET cs == Chunks(b.records, Max({1, (ctx.config @@ WebhookDefaults).max_batch}))
        post(a, k) == IF a.res # "ok" THEN a ELSE HttpPost(ctx, a.world, [records |-> cs[k], control |-> None], Fault(f, k))
    IN  [FoldLeft(post, Outcome("ok", None, w), [k \in DOMAIN cs |-> k]) EXCEPT !.inst = inst]

WebhookRollback(ctx, inst, w, ctrl, f) ==
    IF ctrl.control # "rollback" \/ ~(ctx.config @@ WebhookDefaults).forward_rollbacks
    THEN Outcome("ok", inst, w)
    ELSE [HttpPost(ctx, w, [records |-> <<>>, control |-> ctrl], Fault(f, 1)) EXCEPT !.inst = inst]

PrintLines(w, name, b) ==
    [w EXCEPT !.lines = (name :> Or(Get(@, name), {}) \cup Range(b.records)) @@ @]

StdoutWrite(ctx, inst, w, b) == Outcome("ok", inst, PrintLines(w, ctx.name, b))

-----------------------------------------------------------------------------
(* The module interface (modules/sdk): control batches go to on_control,     *)
(* which only some sinks have; data to write.                                *)

InitOk(kind, config) ==
    CASE kind = "postgres" -> PgConfigOk(config)
      [] kind = "s3" -> S3ConfigOk(config)
      [] kind = "webhook" -> "url" \in DOMAIN config
      [] kind = "filter" -> FilterConfigOk(config)
      [] kind = "evm-abi-decoder" -> EventTable(config) # None
      [] kind = "chaos" -> "init_error" \notin DOMAIN config
      [] OTHER -> TRUE

OnControl(ctx, inst, w, ctrl, f) ==
    CASE ctx.kind = "postgres" -> PgRollback(ctx, inst, w, ctrl, f)
      [] ctx.kind = "s3" -> S3Rollback(inst, w, ctrl)
      [] ctx.kind = "webhook" -> WebhookRollback(ctx, inst, w, ctrl, f)
      [] OTHER -> Outcome("ok", inst, w)

SinkWrite(ctx, inst, w, b, f) ==
    CASE IsControl(b) -> OnControl(ctx, inst, w, AsControl(b), f)
      [] ~IsControl(b) /\ ctx.kind = "postgres" -> PgWrite(ctx, inst, w, b, f)
      [] ~IsControl(b) /\ ctx.kind = "s3" -> S3Write(ctx, inst, w, b, f)
      [] ~IsControl(b) /\ ctx.kind = "webhook" -> WebhookWrite(ctx, inst, w, b, f)
      [] ~IsControl(b) /\ ctx.kind = "stdout" -> StdoutWrite(ctx, inst, w, b)
      [] OTHER -> Outcome("ok", inst, w)

SinkFlush(ctx, inst, w, f) ==
    IF ctx.kind = "s3" THEN S3Flush(ctx, inst, w, f) ELSE Outcome("ok", inst, w)

-----------------------------------------------------------------------------
(* The processors.  The result of a call is [res, inst, out].                *)

Result(res, inst, out) == [res |-> res, inst |-> inst, out |-> out]

\* The chaos module fails on purpose on its n-th call: an error leaves the
\* instance usable, a panic, an endless loop or a memory hog trap.
ChaosProcess(config, inst, b) ==
    LET n == inst.calls + 1
        on(what) == Get(config, what) = n
        counted == [i \in DOMAIN b.records |-> Put(b.records[i], "chaos_calls", Num(n))]
        res == IF "error_always" \in DOMAIN config \/ on("error_on_batch") THEN "err"
               ELSE IF on("trap_on_batch") \/ on("loop_on_batch") \/ on("alloc_on_batch") THEN "trap"
               ELSE "ok"
    IN  Result(res, [inst EXCEPT !.calls = n],
               IF res = "ok" THEN <<Encode(Derive(b, b.kind, counted))>> ELSE <<>>)

EnrichRecord(config, rec) ==
    LET v == Get(rec, "params.value") IN
    IF v = None \/ v.k # "str" THEN rec
    ELSE Put(Put(rec, "usd_estimate", Text("usd")), "whale",
             [k |-> "bool", v |-> IntOf(v) >= Or(Get(config, "whale_usd"), 1000000) * 1000000])

\* Batches cross the boundary encoded; control batches pass through.
CallProcess(ctx, inst, b) ==
    LET returned(bs) == IF bs = None THEN Result("err", inst, <<>>)
                        ELSE Result("ok", inst, [i \in DOMAIN bs |-> Encode(bs[i])])
    IN
    IF IsControl(b) THEN Result("ok", inst, <<Encode(b)>>)
    ELSE CASE ctx.kind = "filter" -> returned(FilterBatch(ctx.config, b))
           [] ctx.kind = "evm-abi-decoder" -> returned(DecodeBatch(ctx.config, b))
           [] ctx.kind = "chaos" -> ChaosProcess(ctx.config, inst, b)
           [] ctx.kind = "enrich" ->
                returned(<<Derive(b, b.kind, [i \in DOMAIN b.records |-> EnrichRecord(ctx.config, b.records[i])])>>)
           [] OTHER -> Result("ok", inst, <<[tag |-> 1, batch |-> b]>>)
=============================================================================

------------------------------- MODULE Records -------------------------------
(***************************************************************************)
(* What happens to records between the server's answer and a sink: the      *)
(* client's parsing, the plan of a source step, the batch envelope, and the *)
(* two processors that come with the program.                               *)
(***************************************************************************)
EXTENDS Values

-----------------------------------------------------------------------------
(* The batch envelope (crates/encoding).                                     *)

Encodings == <<"json", "cbor", "arrow-ipc">>   \* tag t is Encodings[t + 1]

MakeBatchId(source, from, to, seq) == <<source, from, to, seq>>

NewBatch(source, chain, from, to, seq, kind, records) ==
    [batch_id |-> MakeBatchId(source, from, to, seq), source |-> source,
     chain_id |-> chain, from |-> from, to |-> to, ack_block |-> None,
     kind |-> kind, records |-> records, control |-> None]

Rollback(chain, after) ==
    [control |-> "rollback", chain_id |-> chain, at |-> after]
Eof(at) == [control |-> "eof", chain_id |-> None, at |-> at]

ControlBatch(source, chain, ctrl) ==
    [batch_id |-> <<source, "ctrl", ctrl.at>>, source |-> source, chain_id |-> chain,
     from |-> ctrl.at, to |-> ctrl.at, ack_block |-> None, kind |-> "control",
     records |-> <<>>, control |-> ctrl]

IsControl(b) == b.kind = "control"
AckBlock(b) == Or(b.ack_block, b.to)
AsControl(b) == IF IsControl(b) THEN b.control ELSE None

\* A derive that forgets the ack pin of a chunk.
DeriveUnpinned(b, kind, records) ==
    [b EXCEPT !.kind = kind, !.records = records, !.ack_block = None]

\* derive: identity and ack pin are kept through every stage.
Derive(b, kind, records) == [b EXCEPT !.kind = kind, !.records = records]

\* Only JSON is wired: a batch under another tag does not decode.
Encode(b) == [tag |-> 0, batch |-> b]
Decodes(wire) == wire.tag + 1 \in DOMAIN Encodings /\ Encodings[wire.tag + 1] = "json"

-----------------------------------------------------------------------------
(* The client (source-hypersync/src/client.rs).  A body is                   *)
(* [archive_height, next_block, data], data a sequence of objects with       *)
(* blocks and logs; either may be absent.                                    *)

\* HyperSyncClient::new: block fields on the wire, and the joins asked for.
Selection(query, track_blocks) ==
    [block |-> query.block \cup IF track_blocks THEN {"number", "hash"} ELSE {},
     join_ts |-> "timestamp" \in query.block, join_hash |-> "hash" \in query.block]

\* The block table of a response: a later entry for a number replaces an
\* earlier one; an entry without a readable number is skipped.
BlockTable(data) ==
    LET all == FlattenSeq([i \in DOMAIN data |-> Or(Get(data[i], "blocks"), <<>>)])
        add(m, b) == [n \in {FlexU64(Get(b, "number"))} \ {None} |-> b] @@ m
    IN  FoldLeft(add, <<>>, all)

\* A field of the block joined into a log, unless the log has it already.
JoinField(log, name, v) == IF v = None THEN log ELSE log @@ (name :> v)

NumberOrNone(n) == IF n = None THEN None ELSE Num(n)

\* The timestamp is joined as a number, the hash as the server wrote it.
Joined(log, block, sel) ==
    JoinField(JoinField(log, "block_timestamp",
                        IF sel.join_ts THEN NumberOrNone(FlexU64(Get(block, "timestamp"))) ELSE None),
              "block_hash", IF sel.join_hash THEN Get(block, "hash") ELSE None)

JoinBlock(log, blocks, sel) ==
    LET block == Get(blocks, FlexU64(Get(log, "block_number"))) IN
    IF block = None THEN log ELSE Joined(log, block, sel)

ParseResponse(body, from_block, sel) ==
    LET blocks == BlockTable(body.data)
        logs == FlattenSeq([i \in DOMAIN body.data |-> Or(Get(body.data[i], "logs"), <<>>)])
    IN  [archive_height |-> body.archive_height,
         next_block |-> Or(body.next_block, from_block),
         records |-> [i \in DOMAIN logs |-> JoinBlock(logs[i], blocks, sel)]]

-----------------------------------------------------------------------------
(* One step of the source (source-hypersync/src/lib.rs).                     *)

BlockNumberOf(rec) == FlexU64(Get(rec, "block_number"))

ConfirmedBound(height, confirmations) ==
    IF height = None THEN None
    ELSE IF height >= confirmations THEN height - confirmations + 1 ELSE 0

LeastOf(S) == Min(S \ {None})

PlanStep(mode, cursor, to_block, confirmations, next, height) ==
    LET effective == LeastOf({next, to_block, ConfirmedBound(height, confirmations)}) IN
    IF effective > cursor THEN [step |-> "emit", next |-> effective]
    ELSE IF mode = "backfill" /\ to_block # None /\ cursor >= to_block
    THEN [step |-> "eof", next |-> cursor]
    ELSE [step |-> "wait", next |-> cursor]

\* Records past the confirmed window are dropped and fetched again later; a
\* record without a readable number cannot be judged and is kept.
Confirmed(resp, effective) ==
    IF effective >= resp.next_block THEN resp.records
    ELSE Passed(resp.records, LAMBDA r : \A n \in {BlockNumberOf(r)} \ {None} : n < effective)

Chunks(seq, n) ==
    [i \in 1 .. (Len(seq) + n - 1) \div n |->
        SubSeq(seq, (i - 1) * n + 1, IF i * n < Len(seq) THEN i * n ELSE Len(seq))]

\* The batches of one range: every chunk but the last pins its ack to the
\* start of the range.
RangeBatches(source, chain, cursor, next, records, max) ==
    LET cs == Chunks(records, max) IN
    [i \in DOMAIN cs |->
        [NewBatch(source, chain, cursor, next, i - 1, "log", cs[i])
            EXCEPT !.ack_block = IF i < Len(cs) THEN cursor ELSE None]]

-----------------------------------------------------------------------------
(* The filter (modules/filter).                                              *)

Ops == {"eq", "ne", "gt", "gte", "lt", "lte", "in"}

PredicatesOk(ps) == \A i \in DOMAIN ps : {"field", "op"} \subseteq DOMAIN ps[i] /\ ps[i].op \in Ops

FilterConfigOk(config) ==
    LET all == Or(Get(config, "all"), <<>>) any == Or(Get(config, "any"), <<>>) IN
    PredicatesOk(all) /\ PredicatesOk(any) /\ all \o any # <<>>

\* num_str: numbers as they print, fractions included; strings that are
\* decimal integers.
NumStr(v) == IF v.k \in {"num", "str"} THEN v ELSE None

\* split_sign: leading zeros go, and with them the sign of zero.
SplitSign(v) ==
    LET nonzero == {i \in DOMAIN v.digits : v.digits[i] # 0} IN
    [neg |-> v.neg /\ nonzero # {},
     mag |-> IF nonzero = {} THEN <<>> ELSE SubSeq(v.digits, Min(nonzero), Len(v.digits))]

\* cmp_magnitude: by length, then as text.
LessMagnitude(a, b) ==
    \/ Len(a) < Len(b)
    \/ Len(a) = Len(b) /\ \E i \in DOMAIN a : a[i] < b[i] /\ \A j \in 1 .. i - 1 : a[j] = b[j]

\* A comparison of numbers as text.
LessAsText(x, y) ==
    \E i \in DOMAIN x.digits : i \in DOMAIN y.digits /\ x.digits[i] < y.digits[i]
                               /\ \A j \in 1 .. i - 1 : x.digits[j] = y.digits[j]

\* cmp_decimal as an order.
LessSigned(a, b) ==
    IF a.neg # b.neg THEN a.neg
    ELSE IF a.neg THEN LessMagnitude(b.mag, a.mag) ELSE LessMagnitude(a.mag, b.mag)
LessDecimal(x, y) == LessSigned(SplitSign(x), SplitSign(y))

ValuesEq(l, r) ==
    /\ l # None
    /\ IF NumStr(l) # None /\ NumStr(r) # None
       THEN SplitSign(l) = SplitSign(r)
       ELSE l = r

Compare(op, l, r) ==
    LET numeric == l # None /\ NumStr(r) # None /\ NumStr(Or(l, r)) # None IN
    CASE op = "eq" -> ValuesEq(l, r)
      [] op = "ne" -> ~ValuesEq(l, r)
      [] op = "in" -> r.k = "list" /\ \E i \in DOMAIN r.items : ValuesEq(l, r.items[i])
      [] op = "gt" -> numeric /\ LessDecimal(r, l)
      [] op = "gte" -> numeric /\ ~LessDecimal(l, r)
      [] op = "lt" -> numeric /\ LessDecimal(l, r)
      [] op = "lte" -> numeric /\ ~LessDecimal(r, l)

Eval(p, rec) == Compare(p.op, Get(rec, p.field), Or(Get(p, "value"), [k |-> "null"]))

Passes(config, rec) ==
    LET all == Or(Get(config, "all"), <<>>) any == Or(Get(config, "any"), <<>>) IN
    /\ \A i \in DOMAIN all : Eval(all[i], rec)
    /\ any = <<>> \/ \E i \in DOMAIN any : Eval(any[i], rec)

\* A module returns no batch at all when no record is left.
OneBatch(b, kind, records) == IF records = <<>> THEN <<>> ELSE <<Derive(b, kind, records)>>

FilterBatch(config, b) == OneBatch(b, b.kind, SelectSeq(b.records, LAMBDA r : Passes(config, r)))

-----------------------------------------------------------------------------
(* The ABI decoder (modules/evm-abi-decoder).  An ABI is a set of events     *)
(* [name, topics]: the topic words a log of the event has.  A name stands    *)
(* for topic0 too.  Malformed hex is "0xbad".                                *)

\* Decoder::from_config: the events by topic0, or None when refused.
EventTable(config) ==
    LET abis == Or(Get(config, "abis"), None)
        chosen(e) == {ev \in e.abi : "events" \notin DOMAIN e \/ ev.name \in e.events}
        all == IF abis = None THEN {} ELSE UNION {chosen(abis[i]) : i \in DOMAIN abis}
    IN  IF \/ abis = None \/ \E i \in DOMAIN abis : "abi" \notin DOMAIN abis[i]
           \/ "on_undecodable" \in DOMAIN config
              /\ config.on_undecodable \notin {"drop", "passthrough", "error"}
           \/ all = {}
        THEN None
        ELSE [n \in {ev.name : ev \in all} |-> CHOOSE ev \in all : ev.name = n]

U64Field(rec, key) == FlexU64(Get(rec, key))

Malformed(v) == v # None /\ v.k = "text" /\ v.s = "0xbad"
TopicWords(rec) ==
    {t \in {"topic0", "topic1", "topic2", "topic3"} :
        Get(rec, t) # None /\ rec[t].k = "text" /\ rec[t].s # ""}

\* The decoded record; its integer parameter becomes a decimal string.
Decoded(rec, ev, chain) ==
    LET copied == [f \in {"block_hash", "transaction_hash", "address"} \cap DOMAIN rec |-> rec[f]]
        ts == U64Field(rec, "block_timestamp")
    IN  ("chain_id" :> Num(chain)) @@ ("block_number" :> Num(Or(U64Field(rec, "block_number"), 0)))
        @@ ("log_index" :> Num(Or(U64Field(rec, "log_index"), 0)))
        @@ ("event" :> Text(ev.name)) @@ ("params.value" :> Str(IntOf(rec["data"])))
        @@ [f \in IF ts = None THEN {} ELSE {"block_timestamp"} |-> Num(ts)] @@ copied

Undecodable(config, rec) ==
    LET mode == Or(Get(config, "on_undecodable"), "drop") IN
    CASE mode = "drop" -> <<>> [] mode = "passthrough" -> <<rec>> [] mode = "error" -> None

\* decode_record: a sequence of at most one record, or None for an error.
\* Malformed words, and a log of a known event that does not fit it, are
\* errors whatever on_undecodable says.
DecodeRecord(config, table, chain, rec) ==
    LET t0 == Get(rec, "topic0") IN
    IF t0 = None THEN Undecodable(config, rec)
    ELSE IF Malformed(t0) THEN None
    ELSE IF t0.s \notin DOMAIN table THEN Undecodable(config, rec)
    ELSE IF \/ \E t \in TopicWords(rec) : Malformed(rec[t])
            \/ Get(rec, "data") = None \/ Malformed(rec["data"])
            \/ Cardinality(TopicWords(rec)) # table[t0.s].topics
    THEN None
    ELSE <<Decoded(rec, table[t0.s], chain)>>

\* The decoder's process: one error fails the batch.  None: the error.
DecodeBatch(config, b) ==
    LET all(table) == [i \in DOMAIN b.records |-> DecodeRecord(config, table, b.chain_id, b.records[i])]
        result(out) == IF None \in Range(out) THEN None ELSE OneBatch(b, "decoded", FlattenSeq(out))
    IN  result(all(EventTable(config)))
=============================================================================

---------------------------- MODULE MC_Pipeline ----------------------------
(* Pipelines small enough to run: documents, chains and surroundings. *)
EXTENDS Pipeline

CONSTANTS
    Families,   \* the families of scenarios of this run
    DSN, TOKEN, GONE, NAME, KIND, CHAIN, MOD, GRANT   \* references to secrets

MCRefs == {DSN, TOKEN, GONE, NAME, KIND, CHAIN, MOD, GRANT}
MCChains == [ethereum |-> [chain_id |-> 1, url |-> <<"eth">>], base |-> [chain_id |-> 2, url |-> <<"base">>]]
MCWasms == BuiltinWasmFile \cup {"chaos", "enrich", "foreign"}
MCProcesses == {"main", "rival"}

Opt(field, v) == IF v = None THEN <<>> ELSE field :> v
Builtin(name) == [scheme |-> "builtin", name |-> name, major |-> "1"]
File_(path) == [file |-> path]

-----------------------------------------------------------------------------
(* Chains: logs [id, src, block, index, event, value, enc, broken, ver].     *)

Log(id, s, block, value) ==
    [id |-> id, src |-> s, block |-> block, index |-> 0, event |-> "Transfer", value |-> value,
     enc |-> "num", broken |-> FALSE, ver |-> "both"]

ABI == {[name |-> "Transfer", topics |-> 1], [name |-> "Approval", topics |-> 1]}

-----------------------------------------------------------------------------
(* Documents.                                                                *)

Query == [block |-> {"number", "timestamp"}]
Source(name, chain) == [name |-> name, query |-> Query, chain |-> chain]
Backfill(name, chain, from, to, max) ==
    [mode |-> "backfill", from_block |-> from, to_block |-> to, confirmations |-> 0, max_records |-> max]
    @@ Source(name, chain)
Live(name, chain, max) ==
    [mode |-> "live", from_block |-> 1, confirmations |-> 0, max_records |-> max] @@ Source(name, chain)

Node(name, module, inputs, config) ==
    [name |-> name, module |-> module, inputs |-> inputs, config |-> config]
Decoder(name, inputs) ==
    Node(name, Builtin("evm-abi-decoder"), inputs, [abis |-> <<[file |-> "erc20.json", events |-> {"Transfer"}]>>])
Filter(name, inputs, op, v) ==
    Node(name, Builtin("filter"), inputs, [all |-> <<[field |-> "params.value", op |-> op, value |-> v]>>])
Stdout(name, inputs) == Node(name, Builtin("stdout"), inputs, <<>>)
Postgres(name, inputs) ==
    [connections |-> <<"pg">>]
    @@ Node(name, Builtin("postgres"), inputs,
            [connection |-> "pg", table |-> name, mode |-> "upsert", create_table |-> TRUE,
             unique_key |-> {"chain_id", "block_number", "log_index"}, rollback |-> [on |-> TRUE],
             column_map |-> ("params.value" :> "value")])
S3(name, inputs, rows) ==
    [connections |-> <<"lake">>]
    @@ Node(name, Builtin("s3"), inputs, [connection |-> "lake", format |-> "ndjson", flush_rows |-> rows])
Webhook(name, inputs, most) ==
    [http |-> {"h"}]
    @@ Node(name, Builtin("webhook"), inputs, [url |-> <<[scheme |-> "https", host |-> "h"]>>, max_batch |-> most])

Conns == [pg |-> [type |-> "postgres", dsn |-> <<DSN>>], lake |-> [type |-> "s3", bucket |-> "b"]]
Doc(sources, processors, sinks) ==
    [name |-> "pipe", sources |-> sources, processors |-> processors, sinks |-> sinks, connections |-> Conns]

Base ==
    [env |-> (DSN :> "dsn-value" @@ TOKEN :> "token-value"), cmds |-> <<"run">>,
     files |-> ("chaos.wasm" :> "chaos" @@ "foreign.wasm" :> "foreign" @@ "enrich.wasm" :> "enrich"),
     built |-> BuiltinWasmFile, abis |-> ("erc20.json" :> ABI), up |-> {"pg"},
     dir |-> [exists |-> TRUE, is_dir |-> TRUE, private |-> FALSE, creatable |-> TRUE],
     rival |-> {}, pids |-> [main |-> 1, rival |-> 1], logs |-> <<>>, height |-> 9, page |-> 10, fork |-> 0,
     faults |-> {}, budget |-> [faults |-> 0, crashes |-> 0, reorgs |-> 0], signal |-> FALSE]

Budget(faults, crashes, reorgs) == [faults |-> faults, crashes |-> crashes, reorgs |-> reorgs]

-----------------------------------------------------------------------------
(* Graphs: every small wiring, valid or not, only validated.                 *)

Wirings == {<<>>, <<"a">>, <<"p">>, <<"q">>, <<"a", "q">>, <<"p", "p">>, <<"x">>}
Topologies ==
    {[doc |-> Doc(<<Live("a", "ethereum", 2)>>,
                  <<Decoder("p", i), Filter(qname, j, "gt", Num(0))>>, <<Stdout("x", k), Stdout("y", m)>>),
      cmds |-> <<"validate">>] @@ Base :
        i \in Wirings, j \in Wirings, k \in Wirings \ {<<>>}, m \in {<<"a">>, <<"q">>}, qname \in {"q", "x"}}

\* Sources: every combination of endpoint, mode, range and reorg settings.
Endpoints ==
    {<<>>, [chain |-> "ethereum"], [chain |-> "unknown"], [chain_id |-> 7],
     [chain_id |-> 7, url |-> <<"https://", TOKEN>>],
     [chain |-> "base", url |-> <<GONE>>]}
Sourcing ==
    {[doc |-> Doc(<<e @@ Opt("from_block", f) @@ Opt("to_block", t) @@ Opt("mode", m) @@ r
                    @@ [name |-> "a", query |-> Query]>>, <<>>, <<Stdout("x", <<"a">>)>>),
      cmds |-> <<"validate">>] @@ Base :
        e \in Endpoints, f \in {None, 2, -1}, t \in {None, 2, 4},
        m \in {None, "backfill", "both", "never", TOKEN, "${secret:TOKEN"},
        r \in {<<>>, [reorg |-> [enabled |-> TRUE, window |-> 0]],
               [reorg |-> [enabled |-> FALSE, window |-> 64], confirmations |-> 0],
               [type |-> "rpc"]}}

-----------------------------------------------------------------------------
(* References wherever a message may quote a string: all there and right, one  *)
(* of them wrong, one of them missing.                                         *)

Right == DSN :> "dsn-value" @@ TOKEN :> "token-value" @@ NAME :> "n" @@ KIND :> "hypersync"
         @@ CHAIN :> "ethereum" @@ MOD :> "postgres" @@ GRANT :> "pg"
Only(env, names) == [r \in names \cap DOMAIN env |-> env[r]]
Referring ==
    {Doc(<<[name |-> n, type |-> kind, chain |-> chain, url |-> <<"https://", TOKEN>>, query |-> Query]>>, <<>>,
         <<[connections |-> grants] @@ Node("x", Builtin(module), inputs, [connection |-> target, password |-> TOKEN])>>) :
        n \in {"a", NAME}, kind \in {"hypersync", KIND}, chain \in {"base", CHAIN}, grants \in {<<GRANT>>, <<"lake">>},
        module \in {"postgres", MOD}, inputs \in {<<"a">>, <<NAME>>}, target \in {"lake", GRANT}}
Environments(doc) ==
    LET right == Only(Right, References(doc)) IN
    {right} \cup {[right EXCEPT ![r] = "wrong"] : r \in DOMAIN right}
            \cup {Only(right, DOMAIN right \ {r}) : r \in DOMAIN right}
Quoted ==
    UNION {{[doc |-> doc, cmds |-> <<"validate">>, env |-> env] @@ Base : env \in Environments(doc)} : doc \in Referring}

-----------------------------------------------------------------------------
(* Loading: connections, grants, modules and files that may be missing.      *)

Loadings ==
    LET one == <<Backfill("a", "ethereum", 1, 3, 2)>> IN
    {[doc |-> [Doc(one, p, s) EXCEPT !.connections = c], cmds |-> cmd, up |-> up, built |-> built] @@ Base :
        p \in {<<>>, <<Node("p", File_("gone.wasm"), <<"a">>, <<>>)>>,
               <<Node("p", File_("chaos.wasm"), <<"a">>, [init_error |-> 1])>>,
               <<Node("p", Builtin("evm-abi-decoder"), <<"a">>, [abis |-> <<[file |-> "gone.json"]>>])>>,
               <<Node("p", Builtin("postgres"), <<"a">>, <<>>)>>},
        s \in {<<Stdout("x", <<"a">>), Stdout("y", <<"p">>)>>, <<Postgres("x", <<"a">>), Stdout("y", <<"p">>)>>,
               <<S3("x", <<"a">>, 2)>>, <<Node("x", Builtin("unheard-of"), <<"a">>, <<>>)>>,
               <<Node("x", Builtin("postgres"), <<"a">>, [connection |-> "pg", table |-> "t"])>>,
               <<Node("x", [scheme |-> "other", name |-> "stdout", major |-> "1"], <<"a">>, <<>>)>>},
        c \in {<<>>, Conns, [pg |-> [type |-> "postgres"]], [lake |-> [type |-> "s3"]],
               [bus |-> [type |-> "kafka"], pg |-> [type |-> "postgres", dsn |-> <<"here">>]]},
        up \in {{}, {"pg"}}, built \in {BuiltinWasmFile, {}}, cmd \in {<<"run">>, <<"debug">>}}

-----------------------------------------------------------------------------
(* Data: every comparison against signed, short and long values, in the      *)
(* encodings a server uses, through decoder and filter.                      *)

Mixed == <<[Log("l1", "a", 1, -12) EXCEPT !.enc = "str"], [Log("l2", "a", 1, 100) EXCEPT !.index = 1],
           [Log("l3", "a", 2, 9) EXCEPT !.event = "Approval"], [Log("l4", "a", 2, 10) EXCEPT !.index = 1],
           [Log("l5", "a", 3, -5) EXCEPT !.enc = "hex"]>>
Comparisons ==
    {[all |-> <<[field |-> "params.value", op |-> op, value |-> v]>>] :
        op \in Ops \ {"in"}, v \in {Num(10), Str(-5), Num(9), Text("10x")}}
    \cup {[any |-> <<[field |-> "params.value", op |-> "in", value |-> [k |-> "list", items |-> <<Str(-12), Num(10)>>]],
                    [field |-> "block_number", op |-> "gte", value |-> Str(3)]>>],
          [all |-> <<[field |-> "absent", op |-> "ne", value |-> Num(1)]>>,
           any |-> <<[field |-> "log_index", op |-> "lt", value |-> Num(1)]>>]}
Flows ==
    {[doc |-> Doc(<<Backfill("a", "ethereum", 1, 4, 3)>>,
                  <<Decoder("d", <<"a">>), Node("f", Builtin("filter"), <<"d">>, c)>>, <<Stdout("x", <<"f">>)>>),
      logs |-> Mixed] @@ Base : c \in Comparisons}

-----------------------------------------------------------------------------
(* Failures: each sink under every fault, interrupted and started again.     *)

Strike(fault, at) == [fault |-> fault, at |-> at]
Two(s) == <<Log("l1", s, 1, 5), Log("l2", s, 1, 6), [Log("l3", s, 2, 7) EXCEPT !.index = 1]>>
Numbered(logs) == [i \in DOMAIN logs |-> [logs[i] EXCEPT !.index = i]]
Failures ==
    {[doc |-> Doc(<<Backfill("a", "ethereum", 1, 4, 2)>>, <<Decoder("d", <<"a">>)>>, <<x>>),
      logs |-> Numbered(Two("a")), cmds |-> <<"run", "run">>, page |-> 2] @@ b @@ Base :
        x \in {Postgres("x", <<"d">>), S3("x", <<"d">>, 2), S3("x", <<"d">>, 9), Webhook("x", <<"d">>, 1)},
        b \in {[budget |-> Budget(1, 1, 0),
                faults |-> {Strike("refused", 1), Strike("late", 1), Strike("refused", 2), Strike("trap", 1), Strike("panic", 1)}],
               [budget |-> Budget(3, 0, 0), faults |-> {Strike("refused", 1)}]}}

\* Objects of several chains, and of chunks of one range, in one store.
Lakes ==
    {[doc |-> Doc(<<Backfill("a", "ethereum", 1, 3, 2), Backfill("b", c, 1, 3, 2)>>, <<>>, <<S3("x", <<"a", "b">>, rows)>>),
      logs |-> <<Log("l1", "a", 1, 5), Log("l2", "a", 1, 6), Log("l3", "a", 2, 7), Log("l4", "a", 2, 8), Log("k1", "b", 2, 9)>>,
      budget |-> Budget(1, 0, 0), faults |-> {Strike("refused", 2)}] @@ Base : c \in {"ethereum", "base"}, rows \in {2, 9}}

\* Live sources near the head, with confirmations.
Heads ==
    {[doc |-> Doc(<<f @@ [confirmations |-> 1] @@ Source("a", "ethereum")>>, <<>>, <<Stdout("x", <<"a">>)>>),
      logs |-> Numbered(Two("a")), height |-> 2, page |-> p, signal |-> TRUE, cmds |-> <<"run", "run">>, budget |-> Budget(0, 1, 0)] @@ Base :
        f \in {<<>>, [from_block |-> 1], [mode |-> "both", to_block |-> 2]}, p \in {1, 5}}

\* Processors that fail: on purpose, on a broken log, by an output nobody reads.
Broken == [Numbered(Two("a")) EXCEPT ![2].broken = TRUE]
Skips ==
    {[doc |-> Doc(<<Backfill("a", "ethereum", 1, 4, 0)>>, <<p>>, <<Stdout("x", <<"p">>)>>),
      logs |-> logs, page |-> 2, budget |-> Budget(0, 1, 0), cmds |-> <<"run", "run">>] @@ Base :
        p \in {Node("p", File_("chaos.wasm"), <<"a">>, c) :
                  c \in {<<>>, [error_on_batch |-> 2], [trap_on_batch |-> 2], [error_always |-> TRUE]}}
             \cup {Decoder("p", <<"a">>), Node("p", File_("foreign.wasm"), <<"a">>, <<>>),
                  Node("p", File_("enrich.wasm"), <<"a">>, <<>>),
                  Node("p", Builtin("evm-abi-decoder"), <<"a">>,
                       [abis |-> <<[abi |-> {[name |-> "Other", topics |-> 1]}]>>, on_undecodable |-> "error"]),
                  Node("p", Builtin("evm-abi-decoder"), <<"a">>,
                       [abis |-> <<[abi |-> {[name |-> "Other", topics |-> 1]}]>>, on_undecodable |-> "passthrough"])},
        logs \in {Broken, Numbered(Two("a"))}}
    \cup {[doc |-> Doc(<<Backfill("a", "ethereum", 1, 4, 0)>>,
                       <<Filter("f", <<"a">>, "gt", Num(9)), Node("p", File_("chaos.wasm"), <<"f">>, [error_always |-> TRUE])>>,
                       <<Stdout("x", <<"p">>)>>),
           logs |-> Numbered(Two("a")), page |-> 2] @@ Base}

-----------------------------------------------------------------------------
(* Two chains into one table, with reorgs; a quiet branch beside it.         *)

OnBoth == <<[Log("l1", "a", 1, 5) EXCEPT !.index = 1], [Log("l2", "a", 2, 6) EXCEPT !.ver = "old"],
            [Log("l3", "a", 2, 7) EXCEPT !.ver = "new"], Log("k1", "b", 2, 8)>>
FanIn ==
    {[doc |-> Doc(<<Live("a", "ethereum", 9), Live("b", "base", 9)>>, <<Decoder("d", <<"a", "b">>)>>, <<Postgres("x", <<"d">>)>>),
      logs |-> OnBoth, height |-> 3, fork |-> 1, budget |-> Budget(1, 0, 1), signal |-> TRUE,
      faults |-> {Strike("refused", 1), Strike("rewind", 1), Strike("panic", 1)}, cmds |-> <<"run", "run">>] @@ Base}
Reorgs ==
    {[doc |-> Doc(<<Live("a", "ethereum", 9)>>, <<Decoder("d", <<"a">>), Filter("f", <<"d">>, "gt", Num(6))>>, <<x, Stdout("y", <<"f">>)>>),
      logs |-> SubSeq(OnBoth, 1, 3), height |-> 3, fork |-> 1, budget |-> Budget(1, 0, 1), signal |-> TRUE,
      faults |-> {Strike("refused", 1)}] @@ Base :
        x \in {Postgres("x", <<"d">>), S3("x", <<"d">>, 2), Webhook("x", <<"d">>, 2)}}
    \cup {[doc |-> Doc(<<Live("a", "ethereum", 9)>>, <<>>, <<Stdout("x", <<"a">>)>>), logs |-> SubSeq(OnBoth, 1, 1),
           height |-> 4, page |-> 1, fork |-> 2, budget |-> Budget(0, 0, 1), signal |-> TRUE, cmds |-> <<"run", "run">>] @@ Base}

\* Branches that pause, by a panic or for want of a grant: beside a branch of
\* the same source, and beside another source, with which the stop flag is shared.
Pauses ==
    {[doc |-> g, logs |-> <<Log("l1", "a", 1, 5), Log("l2", "a", 3, 6), Log("k1", "b", 1, 7), Log("k2", "b", 3, 8)>>,
      page |-> 2, budget |-> Budget(1, 0, 0), faults |-> {Strike("panic", 1)}, cmds |-> <<"run", "run">>] @@ Base :
        g \in UNION {{Doc(<<Backfill("a", "ethereum", 1, 4, 9), Backfill("b", "base", 1, 4, 9)>>, <<>>, <<x, Stdout("y", <<"b">>)>>),
                     Doc(<<Backfill("a", "ethereum", 1, 4, 9)>>, <<>>, <<x, Stdout("y", <<"a">>)>>)} :
                     x \in {[Webhook("x", <<"a">>, 9) EXCEPT !.http = h] : h \in {{"h"}, {}}}}}

\* A debug run first, then the real one.
Debugs ==
    {[doc |-> Doc(<<Backfill("a", "ethereum", 1, 4, 2)>>, <<Decoder("d", <<"a">>)>>, <<x>>),
      logs |-> Numbered(Two("a")), cmds |-> <<"debug", "run">>, budget |-> Budget(0, 1, 0)] @@ Base :
        x \in {Postgres("x", <<"d">>), S3("x", <<"d">>, 2)}}

\* Two processes with one cache directory.
Caches ==
    {[doc |-> Doc(<<Backfill("a", "ethereum", 1, 2, 2)>>, <<>>, <<Stdout("x", <<"a">>)>>),
      cmds |-> <<"run", "run">>, rival |-> {"stdout"}, pids |-> pids, budget |-> Budget(0, 2, 0),
      dir |-> [exists |-> e, is_dir |-> TRUE, private |-> TRUE, creatable |-> TRUE]] @@ Base :
        pids \in {[main |-> 1, rival |-> 1], [main |-> 1, rival |-> 2]}, e \in BOOLEAN}

\* Two routes from one source to one sink.
Diamonds ==
    {[doc |-> Doc(<<Backfill("a", "ethereum", 1, 4, 1)>>,
                  <<Node("p", Builtin("filter"), <<"a">>, [all |-> <<[field |-> "log_index", op |-> "eq", value |-> Num(1)]>>]),
                    Node("q", Builtin("filter"), <<"a">>, [all |-> <<[field |-> "log_index", op |-> "ne", value |-> Num(1)]>>])>>,
                  <<Stdout("x", <<"p", "q">>)>>),
      logs |-> Numbered(Two("a")), page |-> 2] @@ Base}

Family(f) ==
    CASE f = "topologies" -> Topologies [] f = "sourcing" -> Sourcing [] f = "loadings" -> Loadings
      [] f = "flows" -> Flows [] f = "failures" -> Failures [] f = "lakes" -> Lakes [] f = "heads" -> Heads
      [] f = "skips" -> Skips [] f = "fanin" -> FanIn [] f = "reorgs" -> Reorgs [] f = "pauses" -> Pauses
      [] f = "debugs" -> Debugs [] f = "caches" -> Caches [] f = "diamonds" -> Diamonds
      [] f = "references" -> Quoted
MCScenarios == [f \in Families |-> Family(f)]
=============================================================================

----------------------------- MODULE ConfigLoad -----------------------------
(***************************************************************************)
(* What the loader makes of a pipeline document (Config::load_str): the     *)
(* shape check on the document as written, the substitution of secrets, the *)
(* typed configuration with its defaults, and the semantic rules.           *)
(*                                                                          *)
(* A document is a record of sequences of node records that hold only the   *)
(* fields the author wrote.  Where a string may stand, a reference          *)
(* ${secret:NAME} may stand in its place; a url and a dsn are sequences of  *)
(* both.  A reference without its closing brace is a string like any other. *)
(* References stand in the fields of the nodes, and in the lists and        *)
(* objects that are such a field, not deeper, and not in a query.  Messages *)
(* are reduced to the strings of the document they quote.                   *)
(***************************************************************************)
EXTENDS Values

CONSTANTS
    Chains,   \* the bundled registry: chain name -> [chain_id, url]
    Refs      \* references to secrets, no two of the same name

\* The lists of a document are sequences.
IsSeq(x) == x \in Seq(Range(x))
Readable(doc) ==
    \A f \in {"sources", "processors", "sinks"} \cap DOMAIN doc :
        IsSeq(doc[f]) /\ \A i \in DOMAIN doc[f] : "inputs" \in DOMAIN doc[f][i] => IsSeq(doc[f][i].inputs)

-----------------------------------------------------------------------------
(* The typed configuration: fields a document must give, and the values of   *)
(* those it may leave out.                                                   *)

ReorgDefaults == [enabled |-> TRUE, window |-> 64]
SourceRequired == {"name", "query"}
SourceDefaults ==
    [type |-> "hypersync", chain |-> None, chain_id |-> None, url |-> None,
     mode |-> "live", from_block |-> None, to_block |-> None,
     confirmations |-> 10, reorg |-> ReorgDefaults,
     max_records |-> None]
NodeRequired == {"name", "module", "inputs"}
ProcessorDefaults == [http |-> {}, config |-> <<>>]
SinkDefaults == [http |-> {}, config |-> <<>>, connections |-> <<>>]
ConnectionDefaults ==
    [dsn |-> None, pool |-> 8, bucket |-> None, prefix |-> "", local_path |-> None]
SourceNumbers == {"from_block", "to_block", "confirmations", "max_records"}
DocDefaults == [resource_size |-> "s", processors |-> <<>>, connections |-> <<>>]

Modes == {"live", "backfill", "both"}
ConnectionKinds == {"postgres", "kafka", "s3"}

\* The knobs a resource size stands for.
Profile(size) ==
    [s |-> [instances_per_stage |-> 1, channel_capacity |-> 4, default_max_records |-> 1000],
     m |-> [instances_per_stage |-> 2, channel_capacity |-> 8, default_max_records |-> 5000],
     l |-> [instances_per_stage |-> 4, channel_capacity |-> 16, default_max_records |-> 10000]][size]

Fits(rec, required, defaults) ==
    required \subseteq DOMAIN rec /\ DOMAIN rec \subseteq required \cup DOMAIN defaults

Filled(seq, defaults) == [i \in DOMAIN seq |-> LaidOver(seq[i], defaults)]

TypedReorg(r) == LaidOver(r, ReorgDefaults)

\* Deserializing is strict: unknown fields and variants, and numbers that are
\* not unsigned, are refused.  A reference is neither a variant nor a number.
ShapeOk(doc) ==
    LET d == LaidOver(doc, DocDefaults) IN
    /\ Fits(doc, {"name", "sources", "sinks"}, DocDefaults)
    /\ d.resource_size \in {"s", "m", "l"}
    /\ \A i \in DOMAIN d.sources :
          /\ Fits(d.sources[i], SourceRequired, SourceDefaults)
          /\ \A f \in SourceNumbers \cap DOMAIN d.sources[i] : d.sources[i][f] \in Nat
          /\ LaidOver(d.sources[i], SourceDefaults).mode \in Modes
          /\ LET r == LaidOver(d.sources[i], SourceDefaults).reorg IN
             Fits(r, {}, ReorgDefaults) /\ TypedReorg(r).enabled \in BOOLEAN /\ TypedReorg(r).window \in Nat
    /\ \A i \in DOMAIN d.processors : Fits(d.processors[i], NodeRequired, ProcessorDefaults)
    /\ \A i \in DOMAIN d.sinks : Fits(d.sinks[i], NodeRequired, SinkDefaults)
    /\ \A c \in DOMAIN d.connections :
          Fits(d.connections[c], {"type"}, ConnectionDefaults) /\ d.connections[c].type \in ConnectionKinds

TypedSource(s) ==
    LaidOver([LaidOver(s, SourceDefaults) EXCEPT !.reorg = TypedReorg(@)], [resolved |-> None])

Typed(doc) ==
    LET d == LaidOver(doc, DocDefaults) IN
    [d EXCEPT !.sources = [i \in DOMAIN @ |-> TypedSource(@[i])],
              !.processors = Filled(@, ProcessorDefaults),
              !.sinks = Filled(@, SinkDefaults),
              !.connections = Filled(@, ConnectionDefaults)]

-----------------------------------------------------------------------------
(* Secrets.                                                                  *)

\* replace_refs: a reference that has a value gives way to it; any other string,
\* and a reference without a value, stays as written.
ReplaceRefs(s, env) == IF s \in DOMAIN env THEN env[s] ELSE s

\* The parts of a document that are lists of nodes, and the fields of a node that
\* are lists, texts or objects; http is a set.
NodeLists == {"sources", "processors", "sinks", "connections"}
Compound == {"inputs", "connections", "module", "config", "reorg", "url", "dsn"}

\* walk: every string leaf below a field.
Walk(field, v, env) ==
    CASE field \in Compound -> [k \in DOMAIN v |-> ReplaceRefs(v[k], env)]
      [] field = "http" -> {ReplaceRefs(h, env) : h \in v}
      [] OTHER -> ReplaceRefs(v, env)
ResolveNode(n, env) == [field \in DOMAIN n |-> Walk(field, n[field], env)]
ResolveSecrets(doc, env) ==
    [part \in DOMAIN doc |->
        IF part \in NodeLists THEN [i \in DOMAIN doc[part] |-> ResolveNode(doc[part][i], env)]
        ELSE ReplaceRefs(doc[part], env)]

\* The references the walk comes to.
RefersTo(r, field, v) ==
    CASE field \in Compound -> \E k \in DOMAIN v : v[k] = r
      [] field = "http" -> r \in v
      [] OTHER -> v = r
References(doc) ==
    {r \in Refs : \E part \in DOMAIN doc :
        IF part \in NodeLists
        THEN \E i \in DOMAIN doc[part] : \E field \in DOMAIN doc[part][i] : RefersTo(r, field, doc[part][i][field])
        ELSE doc[part] = r}

\* Those without a value, all of them, and the values of the others.
MissingSecrets(doc, env) == References(doc) \ DOMAIN env
Substituted(doc, env) == {env[r] : r \in References(doc) \cap DOMAIN env}

\* redact: what a message quotes, without the values that were substituted.
Redact(quotes, substituted) == quotes \ substituted

-----------------------------------------------------------------------------
(* The graph: producer -> consumers, one entry per listed input.             *)

Producers(cfg) == cfg.sources \o cfg.processors
Consumers(cfg) == cfg.processors \o cfg.sinks
NamesOf(seq) == {seq[i].name : i \in DOMAIN seq}
AllNames(cfg) ==
    LET all == cfg.sources \o cfg.processors \o cfg.sinks IN [i \in DOMAIN all |-> all[i].name]

\* build_consumer_map: in document order, processors before sinks.
ConsumersOf(cfg, n) ==
    LET cs == Consumers(cfg)
        listed(c) == {i \in DOMAIN c.inputs : c.inputs[i] = n}
    IN  FlattenSeq([k \in DOMAIN cs |-> [j \in 1 .. Cardinality(listed(cs[k])) |-> cs[k].name]])

\* A search that never leaves a node it is still below: misses every cycle.
DetectCycleBlackOnly(cfg) == FALSE

\* One round of dfs: the nodes still to visit, the grey ones, which the search is
\* below, and the black ones, which it has left.  A consumer that is grey closes
\* a cycle, and an error below ends the search.
Visit(cfg, search, v) ==
    LET c == Head(v.todo)
        below == search[[todo |-> ConsumersOf(cfg, c), grey |-> v.grey \cup {c}, black |-> v.black]]
        onward(black) == search[[todo |-> Tail(v.todo), grey |-> v.grey, black |-> black]]
    IN  IF v.todo = <<>> THEN [cycle |-> FALSE, black |-> v.black]
        ELSE CASE c \in v.grey -> [cycle |-> TRUE, black |-> v.black]
               [] c \in v.black \ v.grey -> onward(v.black)
               [] OTHER -> IF below.cycle THEN below ELSE onward(below.black \cup {c})

\* detect_cycle: depth-first search with three colours from every node.
DetectCycle(cfg) ==
    LET names == Range(AllNames(cfg))
        search[v \in [todo : Seq(names), grey : SUBSET names, black : SUBSET names]] == Visit(cfg, search, v)
    IN  search[[todo |-> AllNames(cfg), grey |-> {}, black |-> {}]].cycle

\* The sinks a source reaches (breadth-first in the code), by rounds; no way
\* is longer than the list of consumers.
Reachable(cfg, src) ==
    LET below(S) == UNION {Range(ConsumersOf(cfg, n)) : n \in S}
        within[k \in 0 .. Len(Consumers(cfg))] ==
            IF k = 0 THEN {src} ELSE within[k - 1] \cup below(within[k - 1])
    IN  within[Len(Consumers(cfg))] \cap NamesOf(cfg.sinks)

-----------------------------------------------------------------------------
(* The rules of Config::validate.                                            *)

\* An explicit chain id and url win; otherwise the registry completes a named
\* chain.  None: refused.
ResolveEndpoint(s) ==
    IF s.chain_id # None /\ s.url # None THEN [chain_id |-> s.chain_id, url |-> s.url]
    ELSE IF s.chain # None /\ s.chain \in DOMAIN Chains
    THEN [chain_id |-> Or(s.chain_id, Chains[s.chain].chain_id),
          url |-> Or(s.url, Chains[s.chain].url)]
    ELSE None

ModeOk(s) ==
    /\ s.mode = "backfill" => s.to_block # None
    /\ s.mode = "live" => s.to_block = None
    /\ s.from_block # None /\ s.to_block # None => s.to_block > s.from_block

MaxReorgWindow == 10000
ReorgOk(s) ==
    IF s.reorg.enabled THEN s.reorg.window \in 1 .. MaxReorgWindow
    ELSE s.confirmations # 0 \/ s.mode = "backfill"

SourceOk(s) == s.type = "hypersync" /\ ResolveEndpoint(s) # None /\ ModeOk(s) /\ ReorgOk(s)

InputsOk(cfg, n) ==
    /\ n.inputs # <<>>
    /\ \A i \in DOMAIN n.inputs : n.inputs[i] \in NamesOf(Producers(cfg)) \ {n.name}

NoOrphans(cfg) == \A n \in NamesOf(Producers(cfg)) : ConsumersOf(cfg, n) # <<>>

\* A module is [file |-> path] or the parts of a builtin/<name>@<major> string.
IsFile(m) == "file" \in DOMAIN m
BuiltinName(m) ==
    IF ~IsFile(m) /\ m.scheme = "builtin" /\ m.name # "" /\ m.major # None THEN m.name ELSE None

ModuleOk(n) == IsFile(n.module) \/ BuiltinName(n.module) # None

\* Grants name connections that exist, and a postgres sink targets one it is
\* granted.
GrantsOk(cfg, s) ==
    /\ Range(s.connections) \subseteq DOMAIN cfg.connections
    /\ BuiltinName(s.module) = "postgres" =>
          /\ "connection" \in DOMAIN s.config
          /\ s.config.connection \in Range(s.connections)

DsnOk(conn) == conn.type = "postgres" => conn.dsn # None

Every(seq, ok(_)) == \A i \in DOMAIN seq : ok(seq[i])

\* validate: the first rule that is broken, in the order the code tries them;
\* "" if none is.
FirstBroken(cfg) ==
    CASE cfg.sources = <<>> -> "no_sources"
      [] cfg.sinks = <<>> -> "no_sinks"
      [] Cardinality(Range(AllNames(cfg))) # Len(AllNames(cfg)) -> "duplicate_name"
      [] ~Every(cfg.sources, SourceOk) -> "source"
      [] ~Every(Consumers(cfg), LAMBDA n : InputsOk(cfg, n)) -> "inputs"
      [] ~NoOrphans(cfg) -> "orphan"
      [] DetectCycle(cfg) -> "cycle"
      [] ~Every(Consumers(cfg), ModuleOk) -> "module"
      [] ~Every(cfg.sinks, LAMBDA s : GrantsOk(cfg, s)) -> "grant"
      [] \E c \in DOMAIN cfg.connections : ~DsnOk(cfg.connections[c]) -> "dsn"
      [] OTHER -> ""

Resolve(s) == [s EXCEPT !.resolved = ResolveEndpoint(s)]
WithEndpoints(cfg) == [cfg EXCEPT !.sources = [i \in DOMAIN @ |-> Resolve(@[i])]]

Refused(why, quotes, missing) ==
    [error |-> why, quotes |-> quotes, missing |-> missing, cfg |-> None]

\* The strings of the document that the fields quoted by validate hold.
NamedOf(n) ==
    {n[f] : f \in {"name", "type", "chain"} \cap DOMAIN n}
    \cup (UNION {Range(n[f]) : f \in {"inputs", "module", "connections"} \cap DOMAIN n})
    \cup (IF "config" \in DOMAIN n THEN {n.config[f] : f \in {"connection"} \cap DOMAIN n.config} ELSE {})
NamedLeaves(doc) ==
    UNION {UNION {NamedOf(doc[part][i]) : i \in DOMAIN doc[part]} : part \in {"sources", "processors", "sinks"} \cap DOMAIN doc}

\* The first element of a list for which a rule does not hold, if there is one.
FirstNot(seq, ok(_)) ==
    {seq[i] : i \in {k \in DOMAIN seq : ~ok(seq[k]) /\ \A j \in DOMAIN seq : j < k => ok(seq[j])}}

RepeatedName(cfg) ==
    LET names == AllNames(cfg)
        again == {i \in DOMAIN names : \E j \in DOMAIN names : j < i /\ names[j] = names[i]}
    IN  {names[i] : i \in {k \in again : \A j \in again : k <= j}}

SourceShown(s) ==
    {s.name} \cup (IF s.type # "hypersync" THEN {s.type}
                   ELSE IF ResolveEndpoint(s) = None /\ s.chain # None THEN {s.chain} ELSE {})

GrantShown(cfg, s) ==
    LET undefined == FirstNot(s.connections, LAMBDA c : c \in DOMAIN cfg.connections) IN
    {s.name} \cup (IF undefined # {} THEN undefined ELSE {s.config[f] : f \in {"connection"} \cap DOMAIN s.config})

\* What the message about the first broken rule quotes.  Which of several cycles
\* is found is up to a hash table; a cycle holds processors only.  The keys under
\* connections are not walked and hold no reference.
Shows(cfg, broken) ==
    CASE broken = "duplicate_name" -> RepeatedName(cfg)
      [] broken = "source" -> UNION {SourceShown(s) : s \in FirstNot(cfg.sources, SourceOk)}
      [] broken = "inputs" ->
            UNION {{n.name} \cup FirstNot(n.inputs, LAMBDA i : i \in NamesOf(Producers(cfg)) \ {n.name}) :
                   n \in FirstNot(Consumers(cfg), LAMBDA c : InputsOk(cfg, c))}
      [] broken = "orphan" ->
            {n.name : n \in FirstNot(cfg.processors \o cfg.sources, LAMBDA p : ConsumersOf(cfg, p.name) # <<>>)}
      [] broken = "cycle" -> NamesOf(cfg.processors)
      [] broken = "module" ->
            UNION {{n.name} \cup Range(n.module) : n \in FirstNot(Consumers(cfg), ModuleOk)}
      [] broken = "grant" -> UNION {GrantShown(cfg, s) : s \in FirstNot(cfg.sinks, LAMBDA c : GrantsOk(cfg, c))}
      [] OTHER -> {}

\* A broken rule is reported as it is worded, without redact.
Judged(cfg, broken) ==
    IF broken # "" THEN Refused(broken, Shows(cfg, broken), {})
    ELSE [error |-> "", quotes |-> {}, missing |-> {}, cfg |-> WithEndpoints(cfg)]
Validated(cfg) == Judged(cfg, FirstBroken(cfg))

\* The document with its secrets, when none of them is missing.
LoadResolved(doc, env) ==
    LET resolved == ResolveSecrets(doc, env)
        missing == MissingSecrets(doc, env)
        substituted == Substituted(doc, env)
    IN  IF missing # {} THEN Refused("secrets", {}, missing)
        ELSE IF ~ShapeOk(resolved) THEN Refused("parse", Redact(substituted, substituted), {})
        ELSE Validated(Typed(resolved))

\* A loader that substitutes secrets before it has checked the shape.
LoadResolvedFirst(doc, env) ==
    IF ~ShapeOk(ResolveSecrets(doc, env)) THEN Refused("parse", Substituted(doc, env), {})
    ELSE LoadResolved(doc, env)

\* Config::load_str: shape, then secrets, then types, then rules.  The message of
\* the first parse quotes the document as written.
Load(doc, env) ==
    IF ~ShapeOk(doc) THEN Refused("parse", References(doc), {})
    ELSE LoadResolved(doc, env)
=============================================================================

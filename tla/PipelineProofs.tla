--------------------------- MODULE PipelineProofs ---------------------------
(* Proofs about the component cache and the loader, in the whole process. *)
EXTENDS Pipeline, TLAPS

-----------------------------------------------------------------------------
(* The cache: each of its steps keeps CacheInv.                              *)

\* A trusted entry with its key is the component of that key: nothing is
\* missing from the file and nothing is added to it.
LEMMA EntryIsComponent ==
    ASSUME NEW w
    PROVE  Deserialized(File(w, TRUE), w) = Component(w)
BY DEF File, Component, Deserialized

\* compile on a hit hands out what has the final name.
LEMMA HitKeepsCache ==
    ASSUME CacheInv, NEW p \in Processes, NEW w \in Wasms, CompileHit(p, w)
    PROVE  CacheInv'
<1>1. component' = [component EXCEPT ![p] = Component(w)]
  BY EntryIsComponent DEF CacheInv, FilesInv, CompileHit, CacheEntryTrusted
<1>2. CacheTypeOK'
  BY <1>1 DEF CacheInv, CacheTypeOK, CompileHit
<1>3. FilesInv' /\ WritersInv'
  BY DEF CacheInv, FilesInv, WritersInv, CompileHit, Writes, TmpOf
<1>4. QED  BY <1>2, <1>3 DEF CacheInv

\* compile on a miss takes a place in line to write, or none.
LEMMA MissKeepsCache ==
    ASSUME CacheInv, NEW p \in Processes, NEW w \in Wasms, CompileMiss(p, w)
    PROVE  CacheInv'
<1>1. CacheTypeOK'
  <2>1. CASE usable[p]
    BY <2>1 DEF CacheInv, CacheTypeOK, CompileMiss
  <2>2. CASE ~usable[p]
    BY <2>2 DEF CacheInv, CacheTypeOK, CompileMiss
  <2>3. QED  BY <2>1, <2>2
<1>2. FilesInv'
  BY DEF CacheInv, FilesInv, CompileMiss
<1>3. \A q \in Processes : Writes(q)' => Writes(q) /\ compiling'[q] = compiling[q] /\ TmpOf(q)' = TmpOf(q)
  BY DEF CacheInv, CacheTypeOK, CompileMiss, Writes, TmpOf
<1>4. WritersInv'
  BY <1>3 DEF CacheInv, WritersInv, CompileMiss
<1>5. QED  BY <1>1, <1>2, <1>4 DEF CacheInv

\* The end of compile, whatever became of the file.
LEMMA CompiledKeepsType ==
    ASSUME CacheTypeOK, NEW p \in Processes, compiling[p] # None, Compiled(p)
    PROVE  /\ component' \in [Processes -> {None} \cup {Component(w) : w \in Wasms}]
           /\ compiling' \in [Processes -> {None} \cup [of : Wasms, at : {"create", "write", "rename"}]]
           /\ \A q \in Processes : compiling'[q] = IF q = p THEN None ELSE compiling[q]
BY DEF CacheTypeOK, Compiled

\* A compilation that ends without touching the files.
LEMMA GivenUpKeepsCache ==
    ASSUME CacheInv, NEW p \in Processes, compiling[p] # None, Compiled(p), UNCHANGED <<pid, usable, entry, tmp>>
    PROVE  CacheInv'
<1>1. CacheTypeOK'
  BY CompiledKeepsType DEF CacheInv, CacheTypeOK
<1>2. FilesInv'
  BY DEF CacheInv, FilesInv
<1>3. \A q \in Processes : Writes(q)' => Writes(q) /\ compiling'[q] = compiling[q] /\ TmpOf(q)' = TmpOf(q)
  BY CompiledKeepsType DEF CacheInv, Writes, TmpOf
<1>4. tmp' = tmp
  OBVIOUS
<1>5. WritersInv'
  <2>1. ASSUME NEW q \in Processes, Writes(q)'
        PROVE  \/ tmp'[TmpOf(q)'] = File(compiling'[q].of, TRUE)
               \/ compiling'[q].at = "write" /\ tmp'[TmpOf(q)'] = File(compiling'[q].of, FALSE)
    BY <2>1, <1>3, <1>4 DEF CacheInv, WritersInv
  <2>2. ASSUME NEW q \in Processes, NEW r \in Processes, Writes(q)', Writes(r)', q # r
        PROVE  TmpOf(q)' # TmpOf(r)'
    BY <2>2, <1>3 DEF CacheInv, WritersInv
  <2>3. QED  BY <2>1, <2>2 DEF WritersInv
<1>6. QED  BY <1>1, <1>2, <1>5 DEF CacheInv

\* create_new succeeds only where no other process has a file of that name.
LEMMA CreateKeepsCache ==
    ASSUME CacheInv, NEW p \in Processes, CreateTmp(p)
    PROVE  CacheInv'
<1> DEFINE w == compiling[p].of
<1>0. /\ w \in Wasms /\ TmpOf(p) \in DOMAIN tmp /\ TmpOf(p)[1] = w
      /\ ~Writes(p) /\ compiling[p] # None
  BY DEF CacheInv, CacheTypeOK, CreateTmp, TmpOf, Writes
<1>1. CASE tmp[TmpOf(p)] = None
  <2>1. /\ tmp' = [tmp EXCEPT ![TmpOf(p)] = File(w, FALSE)]
        /\ compiling' = [compiling EXCEPT ![p] = [of |-> w, at |-> "write"]]
        /\ UNCHANGED <<pid, usable, entry, component>>
    BY <1>1, <1>0 DEF CreateTmp, CacheInv, CacheTypeOK
  <2>2. CacheTypeOK'
    BY <2>1, <1>0 DEF CacheInv, CacheTypeOK
  <2>3. FilesInv'
    BY <2>1, <1>0 DEF CacheInv, CacheTypeOK, FilesInv
  <2>4. \A q \in Processes \ {p} : /\ Writes(q)' <=> Writes(q)
                                   /\ compiling'[q] = compiling[q] /\ TmpOf(q)' = TmpOf(q)
    BY <2>1 DEF Writes, TmpOf, CacheInv, CacheTypeOK
  <2>5. \A q \in Processes \ {p} : Writes(q) => TmpOf(q) # TmpOf(p)
    <3> SUFFICES ASSUME NEW q \in Processes, Writes(q)
                 PROVE  tmp[TmpOf(q)] # None
      BY <1>1
    <3>1. compiling[q].of \in Wasms
      BY DEF CacheInv, CacheTypeOK, Writes
    <3>2. QED  BY <3>1, CacheAssumption DEF CacheInv, WritersInv
  <2>6. compiling'[p] = [of |-> w, at |-> "write"] /\ TmpOf(p)' = TmpOf(p) /\ tmp'[TmpOf(p)] = File(w, FALSE)
    BY <2>1, <1>0 DEF TmpOf, CacheInv, CacheTypeOK
  <2>7. \A q \in Processes \ {p} : Writes(q) => tmp'[TmpOf(q)] = tmp[TmpOf(q)]
    BY <2>1, <2>5, <1>0 DEF CacheInv, CacheTypeOK, Writes, TmpOf
  <2>8. WritersInv'
    <3>1. ASSUME NEW q \in Processes, Writes(q)'
          PROVE  \/ tmp'[TmpOf(q)'] = File(compiling'[q].of, TRUE)
                 \/ compiling'[q].at = "write" /\ tmp'[TmpOf(q)'] = File(compiling'[q].of, FALSE)
      <4>1. CASE q = p
        BY <4>1, <2>6
      <4>2. CASE q # p
        BY <4>2, <2>4, <2>7, <3>1 DEF CacheInv, WritersInv
      <4>3. QED  BY <4>1, <4>2
    <3>2. ASSUME NEW q \in Processes, NEW r \in Processes, Writes(q)', Writes(r)', q # r
          PROVE  TmpOf(q)' # TmpOf(r)'
      BY <3>2, <2>4, <2>5, <2>6 DEF CacheInv, WritersInv
    <3>3. QED  BY <3>1, <3>2 DEF WritersInv
  <2>9. QED  BY <2>2, <2>3, <2>8 DEF CacheInv
<1>2. CASE tmp[TmpOf(p)] # None
  <2>1. Compiled(p) /\ UNCHANGED <<pid, usable, entry, tmp>>
    BY <1>2 DEF CreateTmp
  <2>2. QED  BY <2>1, <1>0, GivenUpKeepsCache
<1>3. QED  BY <1>1, <1>2

\* A write makes the file whole, or is given up and leaves the file behind.
LEMMA WriteKeepsCache ==
    ASSUME CacheInv, NEW p \in Processes, WriteTmp(p)
    PROVE  CacheInv'
<1> DEFINE w == compiling[p].of
<1>0. /\ w \in Wasms /\ TmpOf(p) \in DOMAIN tmp /\ TmpOf(p)[1] = w
      /\ Writes(p) /\ compiling[p] # None
  BY DEF CacheInv, CacheTypeOK, WriteTmp, TmpOf, Writes
<1>1. ASSUME tmp' = [tmp EXCEPT ![TmpOf(p)] = File(w, TRUE)], compiling' = [compiling EXCEPT ![p].at = "rename"],
             UNCHANGED <<pid, usable, entry, component>>
      PROVE  CacheInv'
  <2>1. /\ tmp' = [tmp EXCEPT ![TmpOf(p)] = File(w, TRUE)]
        /\ compiling' = [compiling EXCEPT ![p] = [of |-> w, at |-> "rename"]]
    <3>2. compiling[p] \in [of : Wasms, at : {"create", "write", "rename"}]
      BY <1>0 DEF CacheInv, CacheTypeOK
    <3>3. [compiling[p] EXCEPT !.at = "rename"] = [of |-> w, at |-> "rename"]
      BY <3>2
    <3>4. QED  BY <1>1, <3>3
  <2>2. CacheTypeOK'
    BY <2>1, <1>1, <1>0 DEF CacheInv, CacheTypeOK
  <2>3. FilesInv'
    BY <2>1, <1>1, <1>0 DEF CacheInv, CacheTypeOK, FilesInv
  <2>4. \A q \in Processes \ {p} : /\ Writes(q)' <=> Writes(q)
                                   /\ compiling'[q] = compiling[q] /\ TmpOf(q)' = TmpOf(q)
    BY <2>1, <1>1 DEF Writes, TmpOf, CacheInv, CacheTypeOK
  <2>5. compiling'[p] = [of |-> w, at |-> "rename"] /\ TmpOf(p)' = TmpOf(p) /\ tmp'[TmpOf(p)] = File(w, TRUE)
    BY <2>1, <1>1, <1>0 DEF TmpOf, CacheInv, CacheTypeOK
  <2>6. \A q \in Processes \ {p} : Writes(q) => TmpOf(q) # TmpOf(p) /\ tmp'[TmpOf(q)] = tmp[TmpOf(q)]
    BY <2>1, <1>0 DEF CacheInv, CacheTypeOK, WritersInv, Writes, TmpOf
  <2>7. WritersInv'
    <3>1. ASSUME NEW q \in Processes, Writes(q)'
          PROVE  \/ tmp'[TmpOf(q)'] = File(compiling'[q].of, TRUE)
                 \/ compiling'[q].at = "write" /\ tmp'[TmpOf(q)'] = File(compiling'[q].of, FALSE)
      <4>1. CASE q = p
        BY <4>1, <2>5
      <4>2. CASE q # p
        BY <4>2, <2>4, <2>6, <3>1 DEF CacheInv, WritersInv
      <4>3. QED  BY <4>1, <4>2
    <3>2. ASSUME NEW q \in Processes, NEW r \in Processes, Writes(q)', Writes(r)', q # r
          PROVE  TmpOf(q)' # TmpOf(r)'
      BY <3>2, <2>4, <2>5, <2>6 DEF CacheInv, WritersInv
    <3>3. QED  BY <3>1, <3>2 DEF WritersInv
  <2>8. QED  BY <2>2, <2>3, <2>7 DEF CacheInv
<1>2. ASSUME Compiled(p), UNCHANGED <<pid, usable, entry, tmp>>
      PROVE  CacheInv'
  BY <1>2, <1>0, GivenUpKeepsCache
<1>3. QED  BY <1>1, <1>2 DEF WriteTmp

\* The rename puts a whole file of the right module in place.
LEMMA RenameKeepsCache ==
    ASSUME CacheInv, NEW p \in Processes, RenameTmp(p)
    PROVE  CacheInv'
<1> DEFINE w == compiling[p].of
<1>0. /\ w \in Wasms /\ TmpOf(p) \in DOMAIN tmp /\ TmpOf(p)[1] = w
      /\ Writes(p) /\ compiling[p] # None /\ tmp[TmpOf(p)] = File(w, TRUE)
  BY DEF CacheInv, CacheTypeOK, RenameTmp, TmpOf, Writes, WritersInv
<1>1. /\ entry' = [entry EXCEPT ![w] = File(w, TRUE)] \/ entry' = entry
      /\ tmp' = [tmp EXCEPT ![TmpOf(p)] = None]
      /\ Compiled(p) /\ UNCHANGED <<pid, usable>>
  BY <1>0 DEF RenameTmp
<1>2. CacheTypeOK'
  BY <1>1, <1>0, CompiledKeepsType DEF CacheInv, CacheTypeOK
<1>3. FilesInv'
  BY <1>1, <1>0 DEF CacheInv, CacheTypeOK, FilesInv
<1>4. \A q \in Processes : Writes(q)' => /\ q # p /\ Writes(q) /\ compiling'[q] = compiling[q]
                                         /\ TmpOf(q)' = TmpOf(q)
  BY <1>1, <1>0, CompiledKeepsType DEF Writes, TmpOf, CacheInv
<1>5. \A q \in Processes : Writes(q)' => tmp'[TmpOf(q)] = tmp[TmpOf(q)]
  BY <1>1, <1>0, <1>4 DEF CacheInv, CacheTypeOK, WritersInv, Writes, TmpOf
<1>6. WritersInv'
  BY <1>4, <1>5 DEF CacheInv, WritersInv
<1>7. QED  BY <1>2, <1>3, <1>6 DEF CacheInv

\* A process that dies leaves its files and keeps or hands on its id.
LEMMA CrashKeepsCache ==
    ASSUME CacheInv, NEW p \in Processes, CacheCrash(p, pid[p])
    PROVE  CacheInv'
<1>1. pid' = pid
  BY DEF CacheCrash, CacheInv, CacheTypeOK
<1>2. CacheTypeOK'
  BY <1>1 DEF CacheInv, CacheTypeOK, CacheCrash
<1>3. FilesInv'
  BY DEF CacheInv, FilesInv, CacheCrash
<1>4. \A q \in Processes : Writes(q)' => /\ Writes(q) /\ compiling'[q] = compiling[q]
                                         /\ TmpOf(q)' = TmpOf(q)
  BY <1>1 DEF Writes, TmpOf, CacheInv, CacheTypeOK, CacheCrash
<1>5. WritersInv'
  BY <1>4 DEF CacheInv, WritersInv, CacheCrash
<1>6. QED  BY <1>2, <1>3, <1>5 DEF CacheInv

\* Every step of a process that writes an entry keeps CacheInv.
LEMMA WritingKeepsCache ==
    ASSUME CacheInv, NEW p \in Processes, CacheWriting(p)
    PROVE  CacheInv'
BY CreateKeepsCache, WriteKeepsCache, RenameKeepsCache DEF CacheWriting

\* Whatever leaves the cache alone keeps its invariant.
LEMMA IdleKeepsCache ==
    ASSUME CacheInv, UNCHANGED cacheVars
    PROVE  CacheInv'
BY DEF CacheInv, CacheTypeOK, FilesInv, WritersInv, Writes, TmpOf, cacheVars

-----------------------------------------------------------------------------
(* The loader: what it shows of secrets.                                     *)

\* A list with its elements changed one by one is a list of the same length.
LEMMA MappedIsSeq ==
    ASSUME NEW s, IsSeq(s), NEW t, t = [i \in DOMAIN s |-> t[i]]
    PROVE  IsSeq(t) /\ Len(t) = Len(s) /\ DOMAIN t = DOMAIN s /\ DOMAIN s = 1 .. Len(s) /\ Len(s) \in Nat
BY DEF IsSeq, Range

\* One list behind another.
LEMMA JoinedFrom ==
    ASSUME NEW a, NEW b, IsSeq(a), IsSeq(b)
    PROVE  Range(a \o b) \subseteq Range(a) \cup Range(b)
<1> DEFINE U == Range(a) \cup Range(b)
<1>1. a \in Seq(U) /\ b \in Seq(U)
  BY DEF IsSeq
<1> HIDE DEF U
<1>2. a \o b \in Seq(U)
  BY <1>1
<1>3. Range(a \o b) \subseteq U
  BY <1>2 DEF Range
<1>4. QED  BY <1>3 DEF U

\* Two lists joined are a list.
LEMMA JoinedIsSeq ==
    ASSUME NEW a, NEW b, IsSeq(a), IsSeq(b)
    PROVE  IsSeq(a \o b)
<1> DEFINE U == Range(a) \cup Range(b)
<1>1. a \in Seq(U) /\ b \in Seq(U)
  BY DEF IsSeq
<1> HIDE DEF U
<1>2. a \o b \in Seq(U)
  BY <1>1
<1> DEFINE c == a \o b
<1> HIDE DEF c
<1>3. c \in Seq(U) => c \in Seq(Range(c))
  BY DEF Range
<1>4. QED  BY <1>2, <1>3 DEF IsSeq, c

\* Resolving secrets changes no list but element by element, and no node but
\* field by field.
LEMMA ResolvedLists ==
    ASSUME NEW doc, NEW env, ShapeOk(doc)
    PROVE  LET R == ResolveSecrets(doc, env) IN
           /\ DOMAIN R = DOMAIN doc /\ {"name", "sources", "sinks"} \subseteq DOMAIN doc
           /\ \A part \in {"sources", "processors", "sinks"} \cap DOMAIN doc :
                 R[part] = [i \in DOMAIN doc[part] |-> ResolveNode(doc[part][i], env)]
<1> DEFINE R == ResolveSecrets(doc, env)
<1>1. DOMAIN R = DOMAIN doc /\ {"name", "sources", "sinks"} \subseteq DOMAIN doc
  BY DEF ResolveSecrets, ShapeOk, Fits
<1>2. ASSUME NEW part \in {"sources", "processors", "sinks"} \cap DOMAIN doc
      PROVE  R[part] = [i \in DOMAIN doc[part] |-> ResolveNode(doc[part][i], env)]
  BY DEF ResolveSecrets, NodeLists
<1>3. QED  BY <1>1, <1>2

\* The lists of the typed configuration: the nodes of the document, with what
\* they leave out.
LEMMA TypedParts ==
    ASSUME NEW R, {"name", "sources", "sinks"} \subseteq DOMAIN R
    PROVE  LET d == LaidOver(R, DocDefaults)
               T == Typed(R)
           IN  /\ {"sources", "processors", "sinks", "resource_size", "connections"} \subseteq DOMAIN d
               /\ d.sources = R.sources /\ d.sinks = R.sinks
               /\ d.processors = IF "processors" \in DOMAIN R THEN R.processors ELSE <<>>
               /\ DOMAIN T = DOMAIN d /\ T.resource_size = d.resource_size
               /\ T.sources = [i \in DOMAIN d.sources |-> TypedSource(d.sources[i])]
               /\ T.processors = [i \in DOMAIN d.processors |-> LaidOver(d.processors[i], ProcessorDefaults)]
               /\ T.sinks = [i \in DOMAIN d.sinks |-> LaidOver(d.sinks[i], SinkDefaults)]
<1> DEFINE d == LaidOver(R, DocDefaults)
           T == Typed(R)
<1>1. /\ {"sources", "processors", "sinks", "resource_size", "connections"} \subseteq DOMAIN d
      /\ d.sources = R.sources /\ d.sinks = R.sinks
      /\ d.processors = IF "processors" \in DOMAIN R THEN R.processors ELSE <<>>
  <2>1. /\ DOMAIN DocDefaults = {"resource_size", "processors", "connections"}
        /\ DocDefaults.processors = <<>>
    BY DEF DocDefaults
  <2>2. QED  BY <2>1 DEF LaidOver
<1>2. T = [[[[d EXCEPT !.sources = [i \in DOMAIN @ |-> TypedSource(@[i])]] EXCEPT
              !.processors = Filled(@, ProcessorDefaults)] EXCEPT
              !.sinks = Filled(@, SinkDefaults)] EXCEPT
              !.connections = Filled(@, ConnectionDefaults)]
  BY DEF Typed
<1> HIDE DEF d, T
<1>3. /\ DOMAIN T = DOMAIN d /\ T.resource_size = d.resource_size
      /\ T.sources = [i \in DOMAIN d.sources |-> TypedSource(d.sources[i])]
      /\ T.processors = [i \in DOMAIN d.processors |-> LaidOver(d.processors[i], ProcessorDefaults)]
      /\ T.sinks = [i \in DOMAIN d.sinks |-> LaidOver(d.sinks[i], SinkDefaults)]
  BY <1>1, <1>2 DEF Filled
<1>4. QED  BY <1>1, <1>3 DEF d, T

\* What is shown of a source that breaks a rule stands in its document.
LEMMA SourceNamed ==
    ASSUME NEW n, SourceRequired \subseteq DOMAIN n
    PROVE  SourceShown(TypedSource(n)) \subseteq NamedOf(n) /\ TypedSource(n).name \in NamedOf(n)
<1> DEFINE t == LaidOver(n, SourceDefaults)
           u == [t EXCEPT !.reorg = TypedReorg(@)]
           s == TypedSource(n)
<1>1. /\ {"name", "type", "chain"} \subseteq DOMAIN t /\ t.name = n.name
      /\ "type" \in DOMAIN n => t.type = n.type
      /\ "type" \notin DOMAIN n => t.type = "hypersync"
      /\ "chain" \in DOMAIN n => t.chain = n.chain
      /\ "chain" \notin DOMAIN n => t.chain = None
  <2>1. /\ {"type", "chain"} \subseteq DOMAIN SourceDefaults
        /\ SourceDefaults.type = "hypersync" /\ SourceDefaults.chain = None
    BY DEF SourceDefaults
  <2>2. QED  BY <2>1 DEF LaidOver, SourceRequired
<1>2. s = LaidOver(u, [resolved |-> None])
  BY DEF TypedSource
<1> HIDE DEF t, s
<1>3. DOMAIN u = DOMAIN t /\ u.name = t.name /\ u.type = t.type /\ u.chain = t.chain
  BY <1>1
<1> HIDE DEF u
<1>4. s.name = t.name /\ s.type = t.type /\ s.chain = t.chain
  BY <1>1, <1>2, <1>3 DEF LaidOver
<1>5. \A f \in {"name", "type", "chain"} \cap DOMAIN n : n[f] \in NamedOf(n)
  BY DEF NamedOf
<1>6. n.name \in NamedOf(n) /\ ("type" \in DOMAIN n => n.type \in NamedOf(n)) /\ ("chain" \in DOMAIN n => n.chain \in NamedOf(n))
  BY <1>5 DEF SourceRequired
<1>7. SourceShown(s) \subseteq NamedOf(n)
  BY <1>1, <1>4, <1>6 DEF SourceShown
<1>8. QED  BY <1>1, <1>4, <1>6, <1>7 DEF s

\* Likewise of a processor or sink.
LEMMA NodeNamed ==
    ASSUME NEW n, NEW defaults, NodeRequired \subseteq DOMAIN n
    PROVE  LET c == LaidOver(n, defaults) IN
           c.name \in NamedOf(n) /\ Range(c.inputs) \cup Range(c.module) \subseteq NamedOf(n)
<1>1. \A f \in NodeRequired : LaidOver(n, defaults)[f] = n[f]
  BY DEF LaidOver
<1>2. n["name"] \in NamedOf(n) /\ Range(n["inputs"]) \cup Range(n["module"]) \subseteq NamedOf(n)
  BY DEF NamedOf, NodeRequired
<1>3. QED  BY <1>1, <1>2 DEF NodeRequired

\* Likewise of a sink whose grants break a rule.
LEMMA GrantNamed ==
    ASSUME NEW n, NEW cfg, NodeRequired \subseteq DOMAIN n
    PROVE  GrantShown(cfg, LaidOver(n, SinkDefaults)) \subseteq NamedOf(n)
<1> DEFINE c == LaidOver(n, SinkDefaults)
<1>1. /\ c.connections = IF "connections" \in DOMAIN n THEN n.connections ELSE <<>>
      /\ c.config = IF "config" \in DOMAIN n THEN n.config ELSE <<>>
  <2>1. {"connections", "config"} \subseteq DOMAIN SinkDefaults /\ SinkDefaults.connections = <<>> /\ SinkDefaults.config = <<>>
    BY DEF SinkDefaults
  <2>2. QED  BY <2>1 DEF LaidOver
<1>2. c.name \in NamedOf(n)
  BY NodeNamed
<1> HIDE DEF c
<1>3. FirstNot(c.connections, LAMBDA k : k \in DOMAIN cfg.connections) \subseteq NamedOf(n)
  <2>1. FirstNot(c.connections, LAMBDA k : k \in DOMAIN cfg.connections) \subseteq Range(c.connections)
    BY DEF FirstNot, Range
  <2>2. CASE "connections" \in DOMAIN n
    BY <2>1, <2>2, <1>1 DEF NamedOf
  <2>3. CASE "connections" \notin DOMAIN n
    <3>1. DOMAIN c.connections = {}
      BY <2>3, <1>1
    <3>2. QED  BY <3>1 DEF FirstNot
  <2>4. QED  BY <2>2, <2>3
<1>4. {c.config[f] : f \in {"connection"} \cap DOMAIN c.config} \subseteq NamedOf(n)
  <2>1. CASE "config" \in DOMAIN n
    BY <2>1, <1>1 DEF NamedOf
  <2>2. CASE "config" \notin DOMAIN n
    BY <2>2, <1>1
  <2>3. QED  BY <2>1, <2>2
<1>5. GrantShown(cfg, c) \subseteq NamedOf(n)
  BY <1>2, <1>3, <1>4 DEF GrantShown
<1>6. QED  BY <1>5 DEF c

\* Hence what the message about a broken rule shows stands in the document, in
\* one of the fields that are quoted.
LEMMA ShownIsNamed ==
    ASSUME NEW R, ShapeOk(R), IsSeq(R.sources), IsSeq(R.sinks), "processors" \in DOMAIN R => IsSeq(R.processors),
           NEW broken
    PROVE  Shows(Typed(R), broken) \subseteq NamedLeaves(R)
<1> DEFINE d == LaidOver(R, DocDefaults)
           cfg == Typed(R)
           N == NamedLeaves(R)
<1>1. /\ {"name", "sources", "sinks"} \subseteq DOMAIN R
      /\ \A i \in DOMAIN d.sources : SourceRequired \subseteq DOMAIN d.sources[i]
      /\ \A i \in DOMAIN d.processors : NodeRequired \subseteq DOMAIN d.processors[i]
      /\ \A i \in DOMAIN d.sinks : NodeRequired \subseteq DOMAIN d.sinks[i]
  BY DEF ShapeOk, Fits
<1>2. /\ d.sources = R.sources /\ d.sinks = R.sinks
      /\ d.processors = IF "processors" \in DOMAIN R THEN R.processors ELSE <<>>
      /\ cfg.sources = [i \in DOMAIN d.sources |-> TypedSource(d.sources[i])]
      /\ cfg.processors = [i \in DOMAIN d.processors |-> LaidOver(d.processors[i], ProcessorDefaults)]
      /\ cfg.sinks = [i \in DOMAIN d.sinks |-> LaidOver(d.sinks[i], SinkDefaults)]
  BY <1>1, TypedParts
<1> HIDE DEF d, cfg
<1>3. \A part \in {"sources", "processors", "sinks"} \cap DOMAIN R : \A i \in DOMAIN R[part] : NamedOf(R[part][i]) \subseteq N
  BY DEF NamedLeaves
<1>4. /\ \A i \in DOMAIN d.sources : NamedOf(d.sources[i]) \subseteq N
      /\ \A i \in DOMAIN d.processors : NamedOf(d.processors[i]) \subseteq N
      /\ \A i \in DOMAIN d.sinks : NamedOf(d.sinks[i]) \subseteq N
  BY <1>1, <1>2, <1>3
<1> HIDE DEF N
<1>5. IsSeq(cfg.sources) /\ IsSeq(cfg.processors) /\ IsSeq(cfg.sinks)
  <2>1. IsSeq(d.sources) /\ IsSeq(d.sinks) /\ IsSeq(d.processors)
    <3>1. IsSeq(<<>>)
      BY DEF IsSeq
    <3>2. QED  BY <3>1, <1>2
  <2>2. QED  BY <2>1, <1>2, MappedIsSeq
<1>6. ASSUME NEW s \in Range(cfg.sources)  PROVE SourceShown(s) \subseteq N /\ s.name \in N
  <2>1. PICK i \in DOMAIN d.sources : s = TypedSource(d.sources[i])
    BY <1>2 DEF Range
  <2>2. QED  BY <2>1, <1>1, <1>4, SourceNamed
<1>7. ASSUME NEW n \in Range(cfg.processors)  PROVE n.name \in N /\ Range(n.inputs) \cup Range(n.module) \subseteq N
  <2>1. PICK i \in DOMAIN d.processors : n = LaidOver(d.processors[i], ProcessorDefaults)
    BY <1>2 DEF Range
  <2>2. QED  BY <2>1, <1>1, <1>4, NodeNamed
<1>8. ASSUME NEW n \in Range(cfg.sinks)
      PROVE  n.name \in N /\ Range(n.inputs) \cup Range(n.module) \subseteq N /\ GrantShown(cfg, n) \subseteq N
  <2>1. PICK i \in DOMAIN d.sinks : n = LaidOver(d.sinks[i], SinkDefaults)
    BY <1>2 DEF Range
  <2>2. QED  BY <2>1, <1>1, <1>4, NodeNamed, GrantNamed
<1>9. ASSUME NEW n \in Range(Consumers(cfg))  PROVE n.name \in N /\ Range(n.inputs) \cup Range(n.module) \subseteq N
  <2>1. n \in Range(cfg.processors) \cup Range(cfg.sinks)
    BY <1>5, JoinedFrom DEF Consumers
  <2>2. QED  BY <2>1, <1>7, <1>8
<1>10. RepeatedName(cfg) \subseteq N
  <2> DEFINE ab == cfg.sources \o cfg.processors
             all == ab \o cfg.sinks
             names == AllNames(cfg)
  <2>1. Range(ab) \subseteq Range(cfg.sources) \cup Range(cfg.processors) /\ IsSeq(ab)
    BY <1>5, JoinedFrom, JoinedIsSeq
  <2> HIDE DEF ab
  <2>2. Range(all) \subseteq Range(cfg.sources) \cup Range(cfg.processors) \cup Range(cfg.sinks)
    BY <2>1, <1>5, JoinedFrom
  <2>3. names = [i \in DOMAIN all |-> all[i].name]
    BY DEF AllNames, ab
  <2> HIDE DEF all, names
  <2>4. \A i \in DOMAIN names : names[i] \in N
    BY <2>2, <2>3, <1>6, <1>7, <1>8 DEF Range
  <2>5. RepeatedName(cfg) \subseteq {names[i] : i \in DOMAIN names}
    BY DEF RepeatedName, names
  <2>6. QED  BY <2>4, <2>5
<1>11. UNION {SourceShown(s) : s \in FirstNot(cfg.sources, SourceOk)} \subseteq N
  <2>1. FirstNot(cfg.sources, SourceOk) \subseteq Range(cfg.sources)
    BY DEF FirstNot, Range
  <2>2. QED  BY <2>1, <1>6
<1>12. UNION {{n.name} \cup FirstNot(n.inputs, LAMBDA i : i \in NamesOf(Producers(cfg)) \ {n.name}) :
              n \in FirstNot(Consumers(cfg), LAMBDA c : InputsOk(cfg, c))} \subseteq N
  <2>1. FirstNot(Consumers(cfg), LAMBDA c : InputsOk(cfg, c)) \subseteq Range(Consumers(cfg))
    BY DEF FirstNot, Range
  <2>2. \A n : FirstNot(n.inputs, LAMBDA i : i \in NamesOf(Producers(cfg)) \ {n.name}) \subseteq Range(n.inputs)
    BY DEF FirstNot, Range
  <2>3. QED  BY <2>1, <2>2, <1>9
<1>13. {n.name : n \in FirstNot(cfg.processors \o cfg.sources, LAMBDA p : ConsumersOf(cfg, p.name) # <<>>)} \subseteq N
  <2>1. FirstNot(cfg.processors \o cfg.sources, LAMBDA p : ConsumersOf(cfg, p.name) # <<>>)
            \subseteq Range(cfg.processors \o cfg.sources)
    BY DEF FirstNot, Range
  <2>2. Range(cfg.processors \o cfg.sources) \subseteq Range(cfg.processors) \cup Range(cfg.sources)
    BY <1>5, JoinedFrom
  <2>3. QED  BY <2>1, <2>2, <1>6, <1>7
<1>14. NamesOf(cfg.processors) \subseteq N
  BY <1>7 DEF NamesOf, Range
<1>15. UNION {{n.name} \cup Range(n.module) : n \in FirstNot(Consumers(cfg), ModuleOk)} \subseteq N
  <2>1. FirstNot(Consumers(cfg), ModuleOk) \subseteq Range(Consumers(cfg))
    BY DEF FirstNot, Range
  <2>2. QED  BY <2>1, <1>9
<1>16. UNION {GrantShown(cfg, s) : s \in FirstNot(cfg.sinks, LAMBDA c : GrantsOk(cfg, c))} \subseteq N
  <2>1. FirstNot(cfg.sinks, LAMBDA c : GrantsOk(cfg, c)) \subseteq Range(cfg.sinks)
    BY DEF FirstNot, Range
  <2>2. QED  BY <2>1, <1>8
<1>17. Shows(cfg, broken) \subseteq N
  BY <1>10, <1>11, <1>12, <1>13, <1>14, <1>15, <1>16, Zenon DEF Shows
<1>18. QED  BY <1>17 DEF cfg, N

\* What stands there once the secrets are resolved stood there before, or is the
\* value of a reference that did.
LEMMA ResolvedNamed ==
    ASSUME NEW doc, NEW env, ShapeOk(doc), NEW x \in NamedLeaves(ResolveSecrets(doc, env))
    PROVE  \E v \in NamedLeaves(doc) : x = ReplaceRefs(v, env)
<1> DEFINE R == ResolveSecrets(doc, env)
<1>1. /\ DOMAIN R = DOMAIN doc
      /\ \A part \in {"sources", "processors", "sinks"} \cap DOMAIN doc :
            R[part] = [i \in DOMAIN doc[part] |-> ResolveNode(doc[part][i], env)]
  BY ResolvedLists
<1> HIDE DEF R
<1>2. PICK part \in {"sources", "processors", "sinks"} \cap DOMAIN R : \E i \in DOMAIN R[part] : x \in NamedOf(R[part][i])
  BY DEF NamedLeaves, R
<1>3. PICK i \in DOMAIN doc[part] : x \in NamedOf(ResolveNode(doc[part][i], env))
  BY <1>1, <1>2
<1> DEFINE n == doc[part][i]
           m == ResolveNode(n, env)
<1>4. NamedOf(n) \subseteq NamedLeaves(doc)
  BY <1>1, <1>2, <1>3 DEF NamedLeaves
<1> HIDE DEF n
<1>5. /\ DOMAIN m = DOMAIN n
      /\ \A f \in {"name", "type", "chain"} \cap DOMAIN n : m[f] = ReplaceRefs(n[f], env)
      /\ \A f \in {"inputs", "module", "connections", "config"} \cap DOMAIN n :
            m[f] = [k \in DOMAIN n[f] |-> ReplaceRefs(n[f][k], env)]
  BY DEF ResolveNode, Walk, Compound
<1> HIDE DEF m
<1>6. CASE x \in {m[f] : f \in {"name", "type", "chain"} \cap DOMAIN m}
  <2>1. PICK f \in {"name", "type", "chain"} \cap DOMAIN n : x = ReplaceRefs(n[f], env)
    BY <1>5, <1>6
  <2>2. n[f] \in NamedOf(n)
    BY DEF NamedOf
  <2>3. QED  BY <2>1, <2>2, <1>4
<1>7. CASE x \in UNION {Range(m[f]) : f \in {"inputs", "module", "connections"} \cap DOMAIN m}
  <2>1. PICK f \in {"inputs", "module", "connections"} \cap DOMAIN n : x \in Range(m[f])
    BY <1>5, <1>7
  <2>2. PICK k \in DOMAIN n[f] : x = ReplaceRefs(n[f][k], env)
    BY <2>1, <1>5 DEF Range
  <2>3. n[f][k] \in NamedOf(n)
    BY DEF NamedOf, Range
  <2>4. QED  BY <2>2, <2>3, <1>4
<1>8. CASE "config" \in DOMAIN m /\ x \in {m.config[f] : f \in {"connection"} \cap DOMAIN m.config}
  <2>1. "config" \in DOMAIN n /\ "connection" \in DOMAIN n.config /\ x = ReplaceRefs(n.config["connection"], env)
    BY <1>5, <1>8
  <2>2. n.config["connection"] \in NamedOf(n)
    BY <2>1 DEF NamedOf
  <2>3. QED  BY <2>1, <2>2, <1>4
<1>9. QED  BY <1>3, <1>6, <1>7, <1>8 DEF NamedOf, m, n

\* A message of the loader quotes the document as written, what redact left of the
\* resolved one, or what validate names.
LEMMA LoadShowsNamed ==
    ASSUME NEW doc, NEW env, Readable(doc), NamedLeaves(doc) \cap Range(env) = {}, Refs \cap Range(env) = {}
    PROVE  LET r == Load(doc, env) IN
           r.quotes \cap Range(env)
               \subseteq (IF r.error \in {"", "parse", "secrets"} THEN {}
                         ELSE {env[v] : v \in NamedLeaves(doc) \cap DOMAIN env})
<1> DEFINE R == ResolveSecrets(doc, env)
           named == {env[v] : v \in NamedLeaves(doc) \cap DOMAIN env}
           shown == Load(doc, env)
           Fine(r) == r.quotes \cap Range(env) \subseteq (IF r.error \in {"", "parse", "secrets"} THEN {} ELSE named)
<1>1. \A why, quotes, missing : Refused(why, quotes, missing).quotes = quotes /\ Refused(why, quotes, missing).error = why
  BY DEF Refused
<1> SUFFICES Fine(shown)
  OBVIOUS
<1> HIDE DEF named, shown
<1>2. CASE ~ShapeOk(doc)
  <2>1. shown = Refused("parse", References(doc), {}) /\ References(doc) \subseteq Refs
    BY <1>2 DEF Load, References, shown
  <2>2. shown.quotes = References(doc) /\ shown.error = "parse"
    BY <2>1, <1>1
  <2>3. QED  BY <2>1, <2>2
<1>3. CASE ShapeOk(doc)
  <2>1. shown = LoadResolved(doc, env)
    BY <1>3 DEF Load, shown
  <2>2. CASE MissingSecrets(doc, env) # {}
    <3>1. LoadResolved(doc, env) = Refused("secrets", {}, MissingSecrets(doc, env))
      BY <2>2 DEF LoadResolved
    <3>2. shown.quotes = {} /\ shown.error = "secrets"
      BY <2>1, <3>1, <1>1
    <3>3. QED  BY <3>2
  <2>3. CASE MissingSecrets(doc, env) = {} /\ ~ShapeOk(R)
    <3>1. LoadResolved(doc, env) = Refused("parse", {}, {})
      BY <2>3 DEF LoadResolved, Redact
    <3>2. shown.quotes = {} /\ shown.error = "parse"
      BY <2>1, <3>1, <1>1
    <3>3. QED  BY <3>2
  <2>4. CASE MissingSecrets(doc, env) = {} /\ ShapeOk(R)
    <3> DEFINE cfg == Typed(R)
               broken == FirstBroken(cfg)
    <3>1. LoadResolved(doc, env) = Judged(cfg, broken)
      BY <2>4 DEF LoadResolved, Validated
    <3>2. Shows(cfg, broken) \subseteq NamedLeaves(R)
      <4>1. /\ DOMAIN R = DOMAIN doc /\ {"sources", "sinks"} \subseteq DOMAIN doc
            /\ \A part \in {"sources", "processors", "sinks"} \cap DOMAIN doc :
                  R[part] = [i \in DOMAIN doc[part] |-> ResolveNode(doc[part][i], env)]
        BY <1>3, ResolvedLists
      <4> HIDE DEF R
      <4>2. \A part \in {"sources", "processors", "sinks"} \cap DOMAIN doc : IsSeq(R[part])
        BY <4>1, MappedIsSeq DEF Readable
      <4>3. IsSeq(R.sources) /\ IsSeq(R.sinks) /\ ("processors" \in DOMAIN R => IsSeq(R.processors))
        BY <4>1, <4>2
      <4>4. QED  BY <2>4, <4>3, ShownIsNamed
    <3>3. NamedLeaves(R) \cap Range(env) \subseteq named
      <4> SUFFICES ASSUME NEW x \in NamedLeaves(R), x \in Range(env)  PROVE x \in named
        OBVIOUS
      <4>1. PICK v \in NamedLeaves(doc) : x = ReplaceRefs(v, env)
        BY <1>3, ResolvedNamed
      <4>2. v \in DOMAIN env
        <5>1. v \notin DOMAIN env => x = v
          BY <4>1 DEF ReplaceRefs
        <5>2. QED  BY <5>1
      <4>3. QED  BY <4>1, <4>2 DEF ReplaceRefs, named
    <3> HIDE DEF cfg, broken, R
    <3>4. broken \notin {"parse", "secrets"}
      BY Zenon DEF FirstBroken, broken
    <3>5. CASE broken = ""
      <4>1. Judged(cfg, broken).quotes = {}
        BY <3>5 DEF Judged
      <4>2. QED  BY <4>1, <2>1, <3>1
    <3>6. CASE broken # ""
      <4>1. Judged(cfg, broken).quotes = Shows(cfg, broken) /\ Judged(cfg, broken).error = broken
        BY <3>6, <1>1 DEF Judged
      <4>2. QED  BY <4>1, <2>1, <3>1, <3>2, <3>3, <3>4, <3>6
    <3>7. QED  BY <3>5, <3>6
  <2>5. QED  BY <2>2, <2>3, <2>4
<1>4. QED  BY <1>2, <1>3

-----------------------------------------------------------------------------
(* The whole process.                                                        *)

\* What a process loads are modules there are.
LEMMA ResolvedIsWasm ==
    ASSUME NEW n, ResolveModule(n) # None, sc.built \cup Range(sc.files) \subseteq Wasms
    PROVE  ResolveModule(n) \in Wasms
BY DEF ResolveModule, Get, Range

\* The scenario stays what it was.
Surrounded == \E f \in DOMAIN Scenarios : sc \in Scenarios[f]

LoadInv == Surrounded /\ CacheInv /\ "said" \in DOMAIN run /\ OnlyNamedSecretsAreShown

\* It holds before the first start.
LEMMA InitLoadInv == Init => LoadInv
<1> SUFFICES ASSUME Init PROVE LoadInv  OBVIOUS
<1>1. Surrounded
  BY DEF Init, Surrounded
<1>2. "said" \in DOMAIN run /\ OnlyNamedSecretsAreShown
  BY DEF Init, Off, OnlyNamedSecretsAreShown
<1>3. sc.pids \in [Processes -> Nat]
  BY <1>1, ScenarioAssumption DEF Surrounded
<1>4. CacheTypeOK
  BY <1>3 DEF Init, CacheTypeOK, Range
<1>5. FilesInv /\ WritersInv
  BY DEF Init, FilesInv, WritersInv, Writes
<1>6. QED  BY <1>1, <1>2, <1>4, <1>5 DEF LoadInv, CacheInv

\* Every step of a start, of its rival and of the run keeps it.
LEMMA NextLoadInv ==
    ASSUME LoadInv, [Next]_pvars
    PROVE  LoadInv'
<1>0. PICK f \in DOMAIN Scenarios : sc \in Scenarios[f]
  BY DEF LoadInv, Surrounded
<1>1. /\ {"main", "rival"} \subseteq Processes
      /\ Readable(sc.doc) /\ NamedLeaves(sc.doc) \cap Range(sc.env) = {} /\ Refs \cap Range(sc.env) = {}
      /\ sc.rival \cup sc.built \cup Range(sc.files) \subseteq Wasms
  BY <1>0, ScenarioAssumption
<1>2. CASE UNCHANGED pvars
  BY <1>2, IdleKeepsCache DEF pvars, pipeVars, LoadInv, Surrounded, OnlyNamedSecretsAreShown
<1>3. CASE Start
  <2>1. UNCHANGED <<sc, cacheVars>>
    BY <1>3 DEF Start
  <2> DEFINE r == Load(sc.doc, sc.env)
  <2>2. run'.said.quotes = r.quotes /\ run'.said.error = r.error /\ "said" \in DOMAIN run'
    <3>1. \E phase, nth : run' = [phase |-> phase, nth |-> nth, cfg |-> r.cfg,
               said |-> [error |-> r.error, quotes |-> r.quotes, missing |-> r.missing],
               health |-> "starting", stop |-> FALSE, ticking |-> TRUE, todo |-> <<>>,
               eof |-> FALSE, saved |-> FALSE, paused |-> {}]
      BY <1>3, Zenon DEF Start
    <3> HIDE DEF r
    <3>2. QED  BY <3>1
  <2>3. OnlyNamedSecretsAreShown'
    <3>1. r.quotes \cap Range(sc.env)
              \subseteq (IF r.error \in {"", "parse", "secrets"} THEN {}
                        ELSE {sc.env[v] : v \in NamedLeaves(sc.doc) \cap DOMAIN sc.env})
      BY <1>1, LoadShowsNamed
    <3> HIDE DEF r
    <3>2. QED  BY <2>1, <2>2, <3>1 DEF OnlyNamedSecretsAreShown
  <2>4. QED  BY <2>1, <2>2, <2>3, IdleKeepsCache DEF LoadInv, Surrounded
<1>4. ASSUME sc' = sc, DOMAIN run' = DOMAIN run, run'.said = run.said, CacheInv'
      PROVE  LoadInv'
  BY <1>4 DEF LoadInv, Surrounded, OnlyNamedSecretsAreShown
<1>5. CASE Compile
  BY <1>5, <1>4, <1>1, ResolvedIsWasm, HitKeepsCache, MissKeepsCache DEF Compile, Resolved, LoadInv, pipeVars
<1>6. CASE MainWrites \/ RivalWrites
  BY <1>6, <1>4, <1>1, WritingKeepsCache DEF MainWrites, RivalWrites, LoadInv, pipeVars
<1>7. CASE RivalCompiles
  BY <1>7, <1>4, <1>1, HitKeepsCache, MissKeepsCache DEF RivalCompiles, LoadInv, pipeVars
<1>8. ASSUME sc' = sc, DOMAIN run' = DOMAIN run, run'.said = run.said, UNCHANGED cacheVars
      PROVE  LoadInv'
  BY <1>8, <1>4, IdleKeepsCache DEF LoadInv
<1>9. CASE Open
  <2>1. CacheInv'
    BY <1>9 DEF Open, LoadInv, CacheInv, CacheTypeOK, FilesInv, WritersInv, Writes, TmpOf
  <2>2. sc' = sc /\ DOMAIN run' = DOMAIN run /\ run'.said = run.said
    BY <1>9 DEF Open, Fail, LoadInv
  <2>3. QED  BY <2>1, <2>2, <1>4
<1>10. CASE Instantiate
  <2>1. CacheInv'
    BY <1>10, <1>1 DEF Instantiate, LoadInv, CacheInv, CacheTypeOK, FilesInv, WritersInv, Writes, TmpOf
  <2>2. sc' = sc /\ DOMAIN run' = DOMAIN run /\ run'.said = run.said
    BY <1>10 DEF Instantiate, Fail, LoadInv
  <2>3. QED  BY <2>1, <2>2, <1>4
<1>11. CASE Crash
  <2>1. CacheInv'
    BY <1>11, <1>1, CrashKeepsCache DEF Crash, LoadInv
  <2>2. sc' = sc /\ DOMAIN run' = DOMAIN run /\ run'.said = run.said
    BY <1>11 DEF Crash, LoadInv
  <2>3. QED  BY <2>1, <2>2, <1>4
<1>12. CASE RivalCrashes
  BY <1>12, <1>1, <1>4, CrashKeepsCache DEF RivalCrashes, LoadInv
<1>13. CASE LoadFails \/ Wire \/ Finish \/ Signal
  BY <1>13, <1>8 DEF LoadFails, Fail, Wire, Finish, Signal, LoadInv
<1>14. CASE Tick \/ Final
  BY <1>14, <1>8 DEF Tick, Final, LoadInv
<1>15. CASE \E s \in SourceNames : SourcePage(s) \/ SourceStops(s) \/ ReorgNoticed(s)
  BY <1>15, <1>8 DEF SourcePage, SourceStops, ReorgNoticed
<1>16. ASSUME NEW n, FanSend(n)
       PROVE  LoadInv'
  BY <1>16, <1>8 DEF FanSend, LoadInv
<1>17. ASSUME NEW p, Process(p)
       PROVE  LoadInv'
  BY <1>17, <1>8 DEF Process
<1>18. ASSUME NEW n, NEW x, SinkStep(n, x)
       PROVE  LoadInv'
  BY <1>18, <1>8 DEF SinkStep, Written, LoadInv
<1>19. CASE Over
  BY <1>19, <1>2 DEF Over
<1>20. QED
  BY <1>2, <1>3, <1>5, <1>6, <1>7, <1>9, <1>10, <1>11, <1>12, <1>13, <1>14, <1>15, <1>16, <1>17, <1>18, <1>19 DEF Next

\* compile never hands out a component that is half written, of another module
\* or of another engine, whichever processes share the directory and the ids,
\* and wherever they die.
THEOREM PipelineCacheServesWhole == Spec => []CacheServesWhole
<1>1. LoadInv => CacheServesWhole
  BY DEF LoadInv, CacheInv, CacheTypeOK, CacheServesWhole, Component
<1>2. LoadInv /\ [Next]_pvars => LoadInv'
  BY NextLoadInv
<1>3. QED  BY <1>1, <1>2, InitLoadInv, PTL DEF Spec

\* Whatever the document and the secrets, Config::load_str shows the value of a
\* secret only in the message about a broken rule, and only if its reference stands
\* in a field that validate quotes.
THEOREM PipelineShowsOnlyNamed == Spec => []OnlyNamedSecretsAreShown
<1>1. LoadInv => OnlyNamedSecretsAreShown
  BY DEF LoadInv
<1>2. LoadInv /\ [Next]_pvars => LoadInv'
  BY NextLoadInv
<1>3. QED  BY <1>1, <1>2, InitLoadInv, PTL DEF Spec
=============================================================================

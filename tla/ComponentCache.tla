--------------------------- MODULE ComponentCache ---------------------------
(***************************************************************************)
(* The cache of precompiled components in wasm-host: processes of one user  *)
(* that share a directory, each compiling modules one after the other.  A   *)
(* file is [of, whole, ours, version]: the module it was compiled from,     *)
(* whether all of it has been written, whether nobody else can write it and *)
(* which engine made it.  The name of a temporary file holds the process    *)
(* id, and process ids are used again (a container's is always the same).   *)
(***************************************************************************)
EXTENDS Values

CONSTANTS
    Processes,   \* the processes that use the directory
    Wasms,       \* the modules, named by their hash
    Engine       \* this build of the engine

VARIABLES
    pid,        \* process -> its id
    usable,     \* process -> whether it found the directory private to the user
    entry,      \* module -> the file <key>.cwasm
    tmp,        \* <<module, id>> -> the file <key>.tmp-<id>
    compiling,  \* process -> the module it compiles and how far it is
    component   \* process -> the component compile returned last

cacheVars == <<pid, usable, entry, tmp, compiling, component>>

File(w, whole) == [of |-> w, whole |-> whole, ours |-> TRUE, version |-> Engine]
Component(w) == [of |-> w, whole |-> TRUE, ours |-> TRUE, version |-> Engine, for |-> w]

\* What an entry with the key of w is taken for.
Deserialized(file, w) ==
    [of |-> file.of, whole |-> file.whole, ours |-> file.ours, version |-> file.version, for |-> w]

\* None is no file, no component and no compilation.
ASSUME CacheAssumption ==
    \A w \in Wasms :
        /\ Component(w) # None
        /\ \A whole \in BOOLEAN : File(w, whole) # None
        /\ \A at \in {"create", "write", "rename"} : [of |-> w, at |-> at] # None

\* prepare_cache_dir and private_to_this_user: what Runtime::new finds.
PrepareCacheDir(dir) == IF dir.exists THEN dir.is_dir /\ dir.private ELSE dir.creatable

CacheEntryTrusted(w) == entry[w] # None /\ entry[w].ours

\* wasmtime refuses what another engine made.
Accepted(file) == file.version = Engine

\* compile, found: the entry is trusted and wasmtime takes it.
CompileHit(p, w) ==
    /\ compiling[p] = None /\ usable[p] /\ CacheEntryTrusted(w) /\ Accepted(entry[w])
    /\ component' = [component EXCEPT ![p] = Deserialized(entry[w], w)]
    /\ UNCHANGED <<pid, usable, entry, tmp, compiling>>

\* compile, not found or refused: precompile, and write the cache if it is
\* usable.
CompileMiss(p, w) ==
    /\ compiling[p] = None
    /\ ~(usable[p] /\ CacheEntryTrusted(w) /\ Accepted(entry[w]))
    /\ IF usable[p]
       THEN compiling' = [compiling EXCEPT ![p] = [of |-> w, at |-> "create"]] /\ UNCHANGED component
       ELSE component' = [component EXCEPT ![p] = Component(w)] /\ UNCHANGED compiling
    /\ UNCHANGED <<pid, usable, entry, tmp>>

\* The component compiled in memory is returned whatever became of the file.
Compiled(p) ==
    /\ component' = [component EXCEPT ![p] = Component(compiling[p].of)]
    /\ compiling' = [compiling EXCEPT ![p] = None]

TmpOf(p) == <<compiling[p].of, pid[p]>>

\* write_cache_entry, create_new: fails when a file of that name is there.
CreateTmp(p) ==
    /\ compiling[p] # None /\ compiling[p].at = "create"
    /\ IF tmp[TmpOf(p)] = None
       THEN /\ tmp' = [tmp EXCEPT ![TmpOf(p)] = File(compiling[p].of, FALSE)]
            /\ compiling' = [compiling EXCEPT ![p].at = "write"]
            /\ UNCHANGED component
       ELSE Compiled(p) /\ UNCHANGED tmp
    /\ UNCHANGED <<pid, usable, entry>>

\* A write whose errors are not noticed.
WriteTmpIgnoresErrors(p) ==
    /\ compiling[p] # None /\ compiling[p].at = "write"
    /\ \E whole \in BOOLEAN : tmp' = [tmp EXCEPT ![TmpOf(p)] = File(compiling[p].of, whole)]
    /\ compiling' = [compiling EXCEPT ![p].at = "rename"]
    /\ UNCHANGED <<pid, usable, entry, component>>

\* Writing and syncing; an error leaves the file as it is.
WriteTmp(p) ==
    /\ compiling[p] # None /\ compiling[p].at = "write"
    /\ \/ /\ tmp' = [tmp EXCEPT ![TmpOf(p)] = File(compiling[p].of, TRUE)]
          /\ compiling' = [compiling EXCEPT ![p].at = "rename"]
          /\ UNCHANGED component
       \/ Compiled(p) /\ UNCHANGED tmp
    /\ UNCHANGED <<pid, usable, entry>>

\* The rename puts the file in place, or fails and the file is removed.
RenameTmp(p) ==
    /\ compiling[p] # None /\ compiling[p].at = "rename"
    /\ \/ entry' = [entry EXCEPT ![compiling[p].of] = tmp[TmpOf(p)]]
       \/ UNCHANGED entry
    /\ tmp' = [tmp EXCEPT ![TmpOf(p)] = None]
    /\ Compiled(p)
    /\ UNCHANGED <<pid, usable>>

\* The process ends where it is and another with some id takes its place.
CacheCrash(p, id) ==
    /\ compiling' = [compiling EXCEPT ![p] = None]
    /\ component' = [component EXCEPT ![p] = None]
    /\ pid' = [pid EXCEPT ![p] = id]
    /\ UNCHANGED <<usable, entry, tmp>>

CacheWriting(p) == CreateTmp(p) \/ WriteTmp(p) \/ RenameTmp(p)

-----------------------------------------------------------------------------
(* Why a component is always whole.                                          *)

Writes(p) == compiling[p] # None /\ compiling[p].at \in {"write", "rename"}

CacheTypeOK ==
    /\ pid = [p \in Processes |-> pid[p]] /\ DOMAIN entry = Wasms
    /\ \A p \in Processes, w \in Wasms : <<w, pid[p]>> \in DOMAIN tmp
    /\ compiling \in [Processes -> {None} \cup [of : Wasms, at : {"create", "write", "rename"}]]
    /\ component \in [Processes -> {None} \cup {Component(w) : w \in Wasms}]

\* What has the final name is whole; what has a temporary name is at least of
\* its module, whoever left it there.
FilesInv ==
    /\ \A w \in Wasms : entry[w] \in {None, File(w, TRUE)}
    /\ \A x \in DOMAIN tmp : tmp[x] \in {None, File(x[1], TRUE), File(x[1], FALSE)}

\* create_new: a temporary file is written by one process at most, although ids
\* repeat, and is there until that process renames it.
WritersInv ==
    /\ \A p \in Processes : Writes(p) =>
          \/ tmp[TmpOf(p)] = File(compiling[p].of, TRUE)
          \/ compiling[p].at = "write" /\ tmp[TmpOf(p)] = File(compiling[p].of, FALSE)
    /\ \A p, q \in Processes : Writes(p) /\ Writes(q) /\ p # q => TmpOf(p) # TmpOf(q)

CacheInv == CacheTypeOK /\ FilesInv /\ WritersInv
=============================================================================

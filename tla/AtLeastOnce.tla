----------------------------- MODULE AtLeastOnce -----------------------------
(***************************************************************************)
(* What delivery promises, with nothing of how: "At-least-once, per sink    *)
(* ... Never lost, possibly repeated" (ARCHITECTURE.md, 8.1).  Each sink's  *)
(* system has stored a set of rows, and a cursor is committed for it from   *)
(* which a new run may resume.  What is stored stays stored; a cursor only  *)
(* moves forward, and only over rows that are stored.                       *)
(***************************************************************************)
EXTENDS Integers

CONSTANTS
    Sinks,     \* sinks
    Rows,      \* rows, each the number of its block
    Cursors    \* values of a committed cursor; -1: none yet

VARIABLES
    stored,    \* per sink: rows its system has stored
    committed  \* per sink: the block a new run may resume from

avars == <<stored, committed>>

Below(n) == {r \in Rows : r < n}

Init ==
    /\ stored = [s \in Sinks |-> {}]
    /\ committed = [s \in Sinks |-> -1]

\* Rows reach a sink's system, first or again.
Deliver ==
    /\ stored' \in [Sinks -> SUBSET Rows]
    /\ \A s \in Sinks : stored[s] \subseteq stored'[s]
    /\ UNCHANGED committed

\* One transaction moves the cursors of any of the sinks.
Advance ==
    /\ committed' \in [Sinks -> Cursors]
    /\ \A s \in Sinks : committed[s] <= committed'[s] /\ Below(committed'[s]) \subseteq stored[s]
    /\ UNCHANGED stored

Next == Deliver \/ Advance

Spec == Init /\ [][Next]_avars
==============================================================================

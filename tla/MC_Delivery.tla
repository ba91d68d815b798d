----------------------------- MODULE MC_Delivery -----------------------------
(* Delivery on small instances. *)
EXTENDS Delivery, TLC

CONSTANTS s1, s2

\* Every block up to the end of the backfill can be a cursor.
MCBlocks == FromBlock .. ToBlock

\* Sinks of the same kind are interchangeable.
SinkSymmetry == Permutations(Sinks)
==============================================================================

------------------------- MODULE MC_CheckpointStore -------------------------
(* CheckpointStore on small instances. *)
EXTENDS CheckpointStore, TLC

CONSTANTS s1, s2

SinkSymmetry == Permutations({s1, s2})
=============================================================================

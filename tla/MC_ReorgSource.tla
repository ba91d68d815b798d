---------------------------- MODULE MC_ReorgSource ----------------------------
(* ReorgSource on small instances. *)
EXTENDS ReorgSource

CONSTANTS s1

\* An ack may be one block past the head.
MCBlocks == 0 .. (MaxHeight + 1)

\* Block 1 loses its record in the reorg, block 2 keeps one, block 3 gains one,
\* and the last block has one on no fork.
MCLogs == {<<1, 0>>, <<2, 0>>, <<2, 1>>, <<3, 1>>} \cap (Numbers \X Epochs)

\* The second crash is for ReorgSurvivesRestart, which is about no lag.
SecondCrashWithoutLag == confirmations # 0 => crashes <= 1
==============================================================================

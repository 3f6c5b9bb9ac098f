--------------------------- MODULE MCDifficultyChain -----------------------
(***************************************************************************)
(* DifficultyChain for TLC, with the code's numbers and its activation     *)
(* heights brought close together.                                         *)
(***************************************************************************)
EXTENDS DifficultyChain

\* Timestamps running backwards, instant blocks, just under and on target, the
\* first second of either easing, and a stall past every cap.
MCGaps == {-200, 30, 299, 601, 3601, 20000}
=============================================================================

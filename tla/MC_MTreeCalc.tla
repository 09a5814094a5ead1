--------------------------- MODULE MC_MTreeCalc ---------------------------
(* Model-checking instance of the streaming builder.                       *)
EXTENDS MTreeCalc, TLC

CONSTANTS a, b      \* two distinct leaf digests

MCLeafSymbols == {a, b}
=============================================================================

------------------------- MODULE MC_MTreeGenerator -------------------------
(* Model-checking instance of the writer.                                  *)
EXTENDS MTreeGenerator, TLC

CONSTANTS a, b      \* two distinct leaf digests

MCLeafSymbols == {a, b}
=============================================================================

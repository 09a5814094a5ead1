-------------------------- MODULE MC_MTreeObject --------------------------
(* Model-checking instance of the reader.                                  *)
EXTENDS MTreeObject, TLC

CONSTANTS a, b      \* two distinct leaf digests

MCLeafSymbols == {a, b}
=============================================================================

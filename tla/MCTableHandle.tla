--------------------------- MODULE MCTableHandle ---------------------------
(* Model-checking instance of TableHandle: record contents and callers are  *)
(* model values, interchangeable in every behaviour.                        *)
EXTENDS TableHandle, TLC

ValueSymmetry == Permutations(Vals)
ThreadSymmetry == Permutations(Threads)
=============================================================================

---------------------------- MODULE MCExecutors ----------------------------
(* Model-checking instance of Executors.  The filter tells the record      *)
(* values apart, so there is no symmetry over them.                        *)
EXTENDS Executors, TLC
=============================================================================

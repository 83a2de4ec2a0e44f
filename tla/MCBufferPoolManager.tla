------------------------ MODULE MCBufferPoolManager ------------------------
(***************************************************************************)
(* Model-checking instance of the buffer pool: callers are interchangeable *)
(* (symmetry); frames are not (free_list_ order and the victim scans       *)
(* depend on frame ids), nor are pages (DeleteAllPages groups by file).     *)
(***************************************************************************)
EXTENDS BufferPoolManager

CONSTANTS C1, C2

MCClients == {C1, C2}

ClientSymmetry == Permutations(MCClients)
=============================================================================

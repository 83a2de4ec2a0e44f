--------------------------- MODULE MCPageHandle ---------------------------
(* A schema of a one-byte and a two-byte field: the columns of a PAX page  *)
(* have different strides, and a projection of the second field alone     *)
(* differs from the schema's prefix.                                       *)
EXTENDS PageHandle

MCFieldSizes == <<1, 2>>
=============================================================================

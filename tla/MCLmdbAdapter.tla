--------------------------- MODULE MCLmdbAdapter ---------------------------
(* LmdbAdapter with the model values its configurations name. *)
EXTENDS LmdbAdapter

CONSTANTS k1, k2, v1, v2, main, w1, w2
=============================================================================

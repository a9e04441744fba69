--------------------------- MODULE MCRedisAdapter ---------------------------
(* RedisAdapter with the model values its configuration names. *)
EXTENDS RedisAdapter

CONSTANTS k1, k2, v1, main, w1, w2
=============================================================================

---------------------------- MODULE MCShardedDB ----------------------------
(* Model values and bounds for ShardedDB. *)
EXTENDS ShardedDB, TLC

CONSTANTS k1, k2, e

MCKey     == {k1, k2, e}
MCTwoKeys == {k1, k2}
MCShardOf == (k1 :> 0) @@ (k2 :> 1) @@ (e :> 0)
MCTwoShardOf == (k1 :> 0) @@ (k2 :> 1)
=============================================================================

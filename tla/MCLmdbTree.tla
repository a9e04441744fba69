---------------------------- MODULE MCLmdbTree ----------------------------
(* Sizes for the model checker: two sizes of keys, so that a separator may *)
(* give way to a longer one; and a key whose data may be on two overflow   *)
(* pages.                                                                  *)
EXTENDS LmdbTree
CONSTANTS d0, d2, b2
MCKeySize  == [k \in Key |-> IF k \in {2, 4} THEN 1 ELSE 3]
MCDataSize == (d0 :> 0) @@ (d2 :> 2) @@ (b2 :> 6)
MCOvPages  == (d0 :> 1) @@ (d2 :> 1) @@ (b2 :> 2)
MCValues   == [k \in Key |-> IF k = 2 THEN {d2} ELSE IF k = 4 THEN {d0, b2} ELSE {d0}]
============================================================================

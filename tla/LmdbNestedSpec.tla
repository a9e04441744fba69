--------------------------- MODULE LmdbNestedSpec ---------------------------
(* What nested transactions promise (src/lmdb/lmdb.h, mdb_txn_begin): a
   transaction begun inside another sees what its parent wrote; when it
   commits, its changes are the parent's, when it aborts nothing of it is left,
   and the database changes only when the outermost one commits.  A
   transaction that has failed can only be given up.

   The database and each open transaction are maps from leaves to values, a
   leaf that is missing has the value None; stack holds the open transactions,
   the outermost first.                                                      *)
EXTENDS Naturals, Sequences

CONSTANTS Leaf, Val, None, Broken

VARIABLES db, stack

Top    == Len(stack)
Above  == SubSeq(stack, 1, Top - 1)
Usable == Top > 0 /\ stack[Top] # Broken

Init == db \in [Leaf -> Val \union {None}] /\ stack = << >>

Begin == stack = << >> /\ stack' = <<db>> /\ UNCHANGED db

BeginChild == Usable /\ stack' = Append(stack, stack[Top]) /\ UNCHANGED db

\* One leaf of the innermost transaction gets a value, or goes.
Write == /\ Usable
         /\ \E l \in Leaf, v \in Val \union {None} :
              stack' = [stack EXCEPT ![Top][l] = v]
         /\ UNCHANGED db

Fail == Top > 0 /\ stack' = Append(Above, Broken) /\ UNCHANGED db

Abort == Top > 0 /\ stack' = Above /\ UNCHANGED db

\* A failed transaction that is committed fails its parent with it.
CommitChild ==
  Top > 1 /\ stack' = Append(SubSeq(stack, 1, Top - 2), stack[Top]) /\ UNCHANGED db

Commit == Top = 1 /\ Usable /\ stack' = << >> /\ db' = stack[1]

Next == Begin \/ BeginChild \/ Write \/ Fail \/ Abort \/ CommitChild \/ Commit

Spec == Init /\ [][Next]_<<db, stack>>
=============================================================================

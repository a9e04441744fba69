--------------------------- MODULE LmdbStoreSpec ---------------------------
(***************************************************************************)
(* What LMDB promises of one environment (lmdb/lmdb.h, lmdb/intro.doc): a  *)
(* write transaction takes effect as a whole or not at all, one at a time, *)
(* and what it committed survives a crash; only if it was begun with       *)
(* MDB_NOMETASYNC may a crash undo it, and nothing before it.              *)
(***************************************************************************)
EXTENDS Integers

CONSTANTS
    Key,
    Value      \* what a key may be given; Absent is none

Absent  == 0
NoTxn   == [k \in Key |-> -1]

VARIABLES
    db,        \* what is committed: the value of each key
    durable,   \* what a crash leaves if it undoes the last commit
    pending,   \* what the write transaction has made of it, or NoTxn
    lazy       \* it is MDB_NOMETASYNC

store == <<db, durable, pending, lazy>>

Init ==
    /\ db = [k \in Key |-> Absent]
    /\ durable = db
    /\ pending = NoTxn
    /\ lazy = FALSE

Begin ==
    /\ pending = NoTxn
    /\ pending' = db
    /\ lazy' \in BOOLEAN
    /\ UNCHANGED <<db, durable>>

Write ==
    /\ pending # NoTxn
    /\ \E k \in Key, v \in Value \cup {Absent} : pending' = [pending EXCEPT ![k] = v]
    /\ UNCHANGED <<db, durable, lazy>>

Abort ==
    /\ pending' = NoTxn
    /\ lazy' = FALSE
    /\ UNCHANGED <<db, durable>>

Commit ==
    /\ pending # NoTxn
    /\ db' = pending
    /\ durable' = IF lazy THEN db ELSE pending
    /\ UNCHANGED <<pending, lazy>>

Sync ==
    /\ durable' = db
    /\ UNCHANGED <<db, pending, lazy>>

Crash ==
    /\ db' \in {db, durable}
    /\ durable' = db'
    /\ pending' = NoTxn
    /\ lazy' = FALSE

Next == Begin \/ Write \/ Abort \/ Commit \/ Sync \/ Crash

Spec == Init /\ [][Next]_store
=============================================================================

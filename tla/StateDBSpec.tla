---------------------------- MODULE StateDBSpec ----------------------------
(***************************************************************************)
(* What ledger/state_db.h promises its caller, independently of the engine *)
(* behind it.  A store maps keys to values.  put and del take effect at    *)
(* once.  putBatch and delBatch leave a write pending on its key (the last *)
(* one wins); applyBatch makes every pending write take effect.  The       *)
(* interface says nothing about when a pending write becomes visible (Redis*)
(* and LMDB write it at once, LevelDB and RocksDB at applyBatch), nor about*)
(* how much of a failed applyBatch has been written: a pending write may be *)
(* flushed at any moment, and stays pending until an applyBatch returns    *)
(* true.  What applyBatch may not do is return true with a write of the    *)
(* batch that was never flushed.  A get that returns true has the stored   *)
(* value; one that returns false finds no value, or met an engine error.   *)
(***************************************************************************)
CONSTANTS Key, Value,
          Absent,       \* no value: a missing key, the value a delete writes
          None,         \* no pending write on a key; no answer
          EngineErrors  \* may a call fail?

Content == Value \cup {Absent}

VARIABLES
    kv,        \* the content of the store
    pending,   \* per key, the last write batched since the last applied batch
    flushed,   \* the keys whose pending write has reached the store
    answer     \* <<key, what it returned>> if the last call was a get

vars == <<kv, pending, flushed, answer>>

Batched == {k \in Key : pending[k] # None}

TypeOK ==
    /\ kv \in [Key -> Content]
    /\ pending \in [Key -> Content \cup {None}]
    /\ flushed \subseteq Batched
    /\ answer \in (Key \X Content) \cup {None}

Init ==
    /\ kv \in [Key -> Content]          \* the directory may hold an older store
    /\ pending = [k \in Key |-> None]
    /\ flushed = {}
    /\ answer = None

(* put (c a value) and del (c = Absent).                                   *)
Write(k, c) ==
    /\ kv' = [kv EXCEPT ![k] = c]
    /\ answer' = None
    /\ UNCHANGED <<pending, flushed>>

(* putBatch and delBatch, where the engine keeps the write for later; where *)
(* it writes at once they are a Write.                                     *)
Batch(k, c) ==
    /\ pending' = [pending EXCEPT ![k] = c]
    /\ flushed' = flushed \ {k}
    /\ answer' = None
    /\ UNCHANGED kv

Get(k) ==
    /\ \/ answer' = <<k, kv[k]>>
       \/ EngineErrors /\ answer' = <<k, Absent>>
    /\ UNCHANGED <<kv, pending, flushed>>

(* clear, where it empties the store (RedisDB::clear).                     *)
Clear ==
    /\ kv' = [k \in Key |-> Absent]
    /\ answer' = None
    /\ UNCHANGED <<pending, flushed>>

(* A call begins, or fails without an effect.                              *)
NoEffect ==
    /\ answer' = None
    /\ UNCHANGED <<kv, pending, flushed>>

Flush(S) ==
    /\ kv' = [k \in Key |-> IF k \in S THEN pending[k] ELSE kv[k]]
    /\ flushed' = flushed \cup S
    /\ UNCHANGED <<pending, answer>>

(* An applyBatch that gives up: what it flushed may be flushed again.      *)
ApplyFails ==
    /\ flushed' = {}
    /\ answer' = None
    /\ UNCHANGED <<kv, pending>>

ApplyReturnsTrue ==
    /\ flushed = Batched
    /\ pending' = [k \in Key |-> None]
    /\ flushed' = {}
    /\ answer' = None
    /\ UNCHANGED kv

Next ==
    \/ \E k \in Key, c \in Content : Write(k, c) \/ Batch(k, c)
    \/ \E k \in Key : Get(k)
    \/ \E S \in SUBSET Batched : Flush(S)
    \/ Clear
    \/ NoEffect
    \/ ApplyFails
    \/ ApplyReturnsTrue

Spec == Init /\ [][Next]_vars
=============================================================================

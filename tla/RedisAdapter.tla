---------------------------- MODULE RedisAdapter ----------------------------
(***************************************************************************)
(* ledger/redis_db.cpp: one connection, every command between mtx.lock()   *)
(* and mtx.unlock(); putBatch and delBatch are put and del, applyBatch     *)
(* does nothing.  The server is external: a command is atomic and answers, *)
(* or the client library throws, which nothing catches: the process ends.  *)
(***************************************************************************)
CONSTANTS
    Key, Value,
    Absent, None,   \* see StateDBSpec
    EngineErrors,   \* may a command throw?
    Thread, Main

ASSUME NameAssumption ==
    /\ Main \in Thread
    /\ None \notin Thread \cup Value \cup {Absent}
    /\ Absent \notin Value
    /\ EngineErrors \in BOOLEAN

Content == Value \cup {Absent}

Idle == [op |-> "none"]
Call == [op : {"get", "put", "del", "clear"}, key : Key, val : Content,
         at : {"lock", "command", "unlock"}]

VARIABLES
    phase,    \* the life of the adapter object, and of the process
    store,    \* what the server holds
    mtx,      \* the thread that holds mtx
    call      \* the call each thread is inside; after a get, with what it found

vars == <<phase, store, mtx, call>>

TypeOK ==
    /\ phase \in {"new", "open", "deleted", "crashed"}
    /\ store \in [Key -> Content]
    /\ mtx \in Thread \cup {None}
    /\ call \in [Thread -> {Idle} \cup Call]

Init ==
    /\ phase = "new"
    /\ store \in [Key -> Content]
    /\ mtx = None
    /\ call = [t \in Thread |-> Idle]

(* open() connects lazily and always succeeds.                             *)
Open ==
    /\ phase = "new"
    /\ phase' = "open"
    /\ UNCHANGED <<store, mtx, call>>

Start(t, op, k, c) ==
    /\ phase = "open"
    /\ call[t] = Idle
    /\ call' = [call EXCEPT ![t] = [op |-> op, key |-> k, val |-> c, at |-> "lock"]]
    /\ UNCHANGED <<phase, store, mtx>>

Get(t, k)    == Start(t, "get", k, Absent)
Put(t, k, v) == Start(t, "put", k, v)
Del(k)       == Start(Main, "del", k, Absent)
Clear(k)     == Start(Main, "clear", k, Absent)     \* the key is not used

At(t, at) == phase = "open" /\ call[t] # Idle /\ call[t].at = at

(* Mutant: no lock.                                                        *)
Lock_Skipped(t) ==
    /\ At(t, "lock")
    /\ mtx' = t
    /\ call' = [call EXCEPT ![t].at = "command"]
    /\ UNCHANGED <<phase, store>>

Lock(t) ==
    /\ At(t, "lock")
    /\ mtx = None
    /\ mtx' = t
    /\ call' = [call EXCEPT ![t].at = "command"]
    /\ UNCHANGED <<phase, store>>

GetCommand(t) ==
    /\ At(t, "command")
    /\ call[t].op = "get"
    /\ call' = [call EXCEPT ![t].at = "unlock", ![t].val = store[call[t].key]]
    /\ UNCHANGED <<phase, store, mtx>>

WriteCommand(t) ==
    /\ At(t, "command")
    /\ call[t].op \in {"put", "del"}
    /\ store' = [store EXCEPT ![call[t].key] = call[t].val]
    /\ call' = [call EXCEPT ![t].at = "unlock"]
    /\ UNCHANGED <<phase, mtx>>

FlushAll(t) ==
    /\ At(t, "command")
    /\ call[t].op = "clear"
    /\ store' = [k \in Key |-> Absent]
    /\ call' = [call EXCEPT ![t].at = "unlock"]
    /\ UNCHANGED <<phase, mtx>>

(* Mutant: get returns without unlocking when the key is missing.          *)
Unlock_OnlyIfFound(t) ==
    /\ At(t, "unlock")
    /\ mtx' = IF call[t].op = "get" /\ call[t].val = Absent THEN mtx ELSE None
    /\ call' = [call EXCEPT ![t] = Idle]
    /\ UNCHANGED <<phase, store>>

Unlock(t) ==
    /\ At(t, "unlock")
    /\ mtx' = None
    /\ call' = [call EXCEPT ![t] = Idle]
    /\ UNCHANGED <<phase, store>>

(* A command throws between lock() and unlock().                           *)
Throws(t) ==
    /\ EngineErrors
    /\ At(t, "command")
    /\ phase' = "crashed"
    /\ UNCHANGED <<store, mtx, call>>

(* delete db, once every thread is out of it.                              *)
Delete ==
    /\ phase = "open"
    /\ \A t \in Thread : call[t] = Idle
    /\ phase' = "deleted"
    /\ UNCHANGED <<store, mtx, call>>

Steps(t) == Lock(t) \/ GetCommand(t) \/ WriteCommand(t) \/ FlushAll(t) \/ Unlock(t)

Next ==
    \/ Open
    \/ \E t \in Thread, k \in Key : Get(t, k)
    \/ \E t \in Thread, k \in Key, v \in Value : Put(t, k, v)
    \/ \E k \in Key : Del(k) \/ Clear(k)
    \/ \E t \in Thread : Steps(t) \/ Throws(t)
    \/ Delete

Spec == Init /\ [][Next]_vars

(* Threads run, and a mutex given back again and again does not starve one.*)
FairSpec == Spec /\ \A t \in Thread : WF_vars(Steps(t)) /\ SF_vars(Lock(t))

-----------------------------------------------------------------------------
(* The mutex is held from lock() to unlock(), by the thread between them.  *)
HoldsMutex ==
    \A t \in Thread :
        mtx = t <=> call[t] # Idle /\ call[t].at \in {"command", "unlock"}

(* What the get that holds the mutex has found.                            *)
answer ==
    IF mtx # None /\ call[mtx].op = "get" /\ call[mtx].at = "unlock"
    THEN <<call[mtx].key, call[mtx].val>>
    ELSE None

StateDB == INSTANCE StateDBSpec
           WITH kv <- store, pending <- [k \in Key |-> None], flushed <- {}

(* However its threads interleave, the adapter is a StateDB that writes at *)
(* once, and every get answers with the store at its command.              *)
ImplementsStateDB == StateDB!Spec

(* A thread inside the adapter leaves it, unless the process dies.         *)
CallsReturn == \A t \in Thread : call[t] # Idle ~> (call[t] = Idle \/ phase = "crashed")
=============================================================================

---------------------------- MODULE LmdbAdapter ----------------------------
(***************************************************************************)
(* ledger/lm_db.cpp: one environment, one write transaction begun by       *)
(* open() and re-begun by applyBatch(), and one key and one data buffer    *)
(* (_key, _data) that every call of every thread goes through.  mtx is held*)
(* around mdb_put in put and mdb_del in del; the buffers are filled before *)
(* it is taken, and get takes no lock at all.                              *)
(*                                                                         *)
(* A call fills _key, then _data, then takes the mutex, then is inside     *)
(* mdb_get, mdb_put or mdb_del, which read the buffers on entry.  Sizes of *)
(* keys and values are left out (all keys have as many digits).  A buffer  *)
(* points into a string of the thread that filled it: once that thread's   *)
(* call is over, what it reads is any key or value.  A get that shares the *)
(* transaction with another call finds anything.                           *)
(*                                                                         *)
(* LMDB is seen here as its callers see it: an error inside mdb_put (the   *)
(* map is full) marks the transaction, which refuses everything after; a   *)
(* commit of such a transaction drops its writes and ends the handle.      *)
(***************************************************************************)
EXTENDS FiniteSets

CONSTANTS
    Key, Value,
    Absent, None,  \* see StateDBSpec
    Thread, Main

ASSUME NameAssumption ==
    /\ Main \in Thread
    /\ None \notin Thread \cup Key \cup Value
    /\ Absent \notin Value \cup {None}

Content == Value \cup {Absent}

KeyOps    == {"get", "put", "del", "putBatch", "delBatch"}
Writes(op) == op \in {"put", "putBatch"}
Locks(op)  == op \in {"put", "del"}

Idle  == [op |-> "none"]
Stage == {"key", "data", "lock", "mdb", "in", "copy"}
Call  == [op : KeyOps, key : Key, val : Content, at : Stage,   \* what is asked for
          mdbKey : Key, mdbVal : Content, raced : BOOLEAN]     \* what LMDB is given
Apply == [op : {"apply"}, at : {"commit", "begin"}]

VARIABLES
    phase,      \* the life of the adapter object, and of the process
    handle,     \* what txn points to
    committed,  \* the content the environment has committed
    working,    \* the content as the write transaction sees it
    keyBuf,     \* _key: the thread that filled it and its key
    dataBuf,    \* _data: likewise
    mtx,        \* the thread that holds mtx
    call,       \* the call each thread is inside
    result,     \* what Main's last call returned
    buffer,     \* the string Main passes to get
    promised,   \* the puts that Main, where it is alone, was told are done: per key
                \* the value, until the transaction ends or a del of the key
    threads,    \* the threads that use the object: set at the start, for good
    errors      \* may LMDB answer with an error?  Likewise

db     == <<handle, committed, working>>
shared == <<keyBuf, dataBuf, mtx>>
reply  == <<result, buffer, promised>>
mode   == <<threads, errors>>
vars   == <<phase, db, shared, call, reply, mode>>

(* handle: "uninit" before a begin succeeded, "error" after a failed write, *)
(* "spent" once given to mdb_txn_commit, "freed" if it was given twice.     *)
TypeOK ==
    /\ phase \in {"new", "open", "failed", "deleted", "crashed"}
    /\ handle \in {"uninit", "live", "error", "spent", "freed"}
    /\ committed \in [Key -> Content]
    /\ working \in [Key -> Content]
    /\ keyBuf \in [owner : Thread \cup {None}, key : Key \cup {None}]
    /\ dataBuf \in [owner : Thread \cup {None}, val : Content]
    /\ mtx \in Thread \cup {None}
    /\ call \in [Thread -> {Idle} \cup Call \cup Apply]
    /\ result \in [key : Key \cup {None}, ok : BOOLEAN]
    /\ buffer \in Content
    /\ promised \in [Key -> Content \cup {None}]
    /\ threads \in {{Main}, Thread}
    /\ errors \in BOOLEAN

Nothing == [k \in Key |-> None]

Init ==
    /\ phase = "new"
    /\ handle = "uninit"
    /\ committed \in [Key -> Content]
    /\ working = committed
    /\ keyBuf = [owner |-> None, key |-> None]
    /\ dataBuf = [owner |-> None, val |-> Absent]
    /\ mtx = None
    /\ call = [t \in Thread |-> Idle]
    /\ result = [key |-> None, ok |-> FALSE]
    /\ buffer = Absent
    /\ promised = Nothing
    /\ threads \in {{Main}, Thread}
    /\ errors \in BOOLEAN

Free(t)          == call[t] = Idle
Enter(t, c)      == call' = [call EXCEPT ![t] = c]
Goto(t, at)      == call' = [call EXCEPT ![t].at = at]
Answer(t, k, ok) == result' = IF t = Main THEN [key |-> k, ok |-> ok] ELSE result
Tell(k, c)       == promised' = IF threads = {Main} THEN [promised EXCEPT ![k] = c] ELSE promised
Inside(t)        == call[t].op \in KeyOps /\ call[t].at = "in"
At(t, at)        == phase = "open" /\ call[t].op \in KeyOps /\ call[t].at = at

-----------------------------------------------------------------------------
(* open(): only mdb_env_open's result is looked at.                        *)
Open ==
    /\ phase = "new"
    /\ phase' = "open"
    /\ \/ handle' = "live"
       \/ errors /\ UNCHANGED handle
    /\ Answer(Main, None, TRUE)
    /\ UNCHANGED <<committed, working, shared, call, buffer, promised, mode>>

OpenFails ==
    /\ errors
    /\ phase = "new"
    /\ phase' = "failed"
    /\ Answer(Main, None, FALSE)
    /\ UNCHANGED <<db, shared, call, buffer, promised, mode>>

-----------------------------------------------------------------------------
(* get, put, del, putBatch and delBatch.                                   *)

(* The main thread calls while no worker runs; workers get and put.        *)
Alone(t) == \A u \in Thread \ {t} : Free(u)

MayStart(t, op) ==
    /\ phase = "open"
    /\ t \in threads /\ Free(t)
    /\ IF t = Main THEN Alone(Main) ELSE op \in {"get", "put"} /\ Free(Main)

Start(t, op, k, c) ==
    /\ MayStart(t, op)
    /\ Enter(t, [op |-> op, key |-> k, val |-> c, at |-> "key",
                 mdbKey |-> k, mdbVal |-> c, raced |-> FALSE])
    /\ Answer(t, None, FALSE)
    /\ UNCHANGED <<phase, db, shared, buffer, promised, mode>>

Get(t, k)      == Start(t, "get", k, Absent)
Put(t, k, v)   == Start(t, "put", k, v)
Del(k)         == Start(Main, "del", k, Absent)
PutBatch(k, v) == Start(Main, "putBatch", k, v)
DelBatch(k)    == Start(Main, "delBatch", k, Absent)

SetKey(t) ==
    /\ At(t, "key")
    /\ keyBuf' = [owner |-> t, key |-> call[t].key]
    /\ Goto(t, IF Writes(call[t].op) THEN "data"
               ELSE IF Locks(call[t].op) THEN "lock" ELSE "mdb")
    /\ UNCHANGED <<phase, db, dataBuf, mtx, reply, mode>>

SetData(t) ==
    /\ At(t, "data")
    /\ dataBuf' = [owner |-> t, val |-> call[t].val]
    /\ Goto(t, IF Locks(call[t].op) THEN "lock" ELSE "mdb")
    /\ UNCHANGED <<phase, db, keyBuf, mtx, reply, mode>>

(* Mutant: put and del without the mutex.                                  *)
Lock_Skipped(t) ==
    /\ At(t, "lock")
    /\ Goto(t, "mdb")
    /\ UNCHANGED <<phase, db, shared, reply, mode>>

Lock(t) ==
    /\ At(t, "lock")
    /\ mtx = None
    /\ mtx' = t
    /\ Goto(t, "mdb")
    /\ UNCHANGED <<phase, db, keyBuf, dataBuf, reply, mode>>

(* What the buffers read as now.                                           *)
KeyRead  == IF keyBuf.owner # None /\ ~Free(keyBuf.owner) THEN {keyBuf.key} ELSE Key
DataRead == IF dataBuf.owner # None /\ ~Free(dataBuf.owner) THEN {dataBuf.val} ELSE Value

(* Into mdb_get, mdb_put or mdb_del, with the buffers as they are now.     *)
MdbBegin(t) ==
    LET others == {u \in Thread \ {t} : Inside(u)}
    IN  /\ At(t, "mdb")
        /\ handle \notin {"uninit", "freed"}
        /\ \E k \in KeyRead, c \in IF Writes(call[t].op) THEN DataRead ELSE {Absent} :
              call' = [u \in Thread |->
                 CASE u = t -> [call[t] EXCEPT !.at = "in", !.mdbKey = k, !.mdbVal = c,
                                               !.raced = others # {}]
                   [] u \in others -> [call[u] EXCEPT !.raced = TRUE]
                   [] OTHER -> call[u]]
        /\ UNCHANGED <<phase, db, shared, reply, mode>>

(* The call of t is over: the mutex is given back.                         *)
Leave(t, ok) ==
    /\ Enter(t, Idle)
    /\ Answer(t, IF call[t].op = "get" THEN call[t].key ELSE None, ok)
    /\ mtx' = IF Locks(call[t].op) THEN None ELSE mtx

(* Mutant: get does not look at what mdb_get returned.                     *)
MdbGet_AnyResult(t) ==
    /\ At(t, "in")
    /\ call[t].op = "get"
    /\ dataBuf' = IF working[call[t].mdbKey] = Absent THEN dataBuf
                  ELSE [owner |-> t, val |-> working[call[t].mdbKey]]
    /\ Goto(t, "copy")
    /\ UNCHANGED <<phase, db, keyBuf, mtx, reply, mode>>

(* mdb_get: found, and _data points to the value; or not found; or refused *)
(* by a transaction that is over.                                          *)
MdbGet(t) ==
    LET found == IF call[t].raced THEN Content ELSE {working[call[t].mdbKey]}
    IN  /\ At(t, "in")
        /\ call[t].op = "get"
        /\ \/ \E c \in found \ {Absent} :
                 /\ handle = "live"
                 /\ dataBuf' = [owner |-> t, val |-> c]
                 /\ Goto(t, "copy")
                 /\ UNCHANGED <<mtx, result>>
           \/ /\ handle # "live" \/ errors \/ Absent \in found
              /\ Leave(t, FALSE)
              /\ UNCHANGED dataBuf
        /\ UNCHANGED <<phase, db, keyBuf, buffer, promised, mode>>

(* *value = std::string(_data): _data is read again.                       *)
Copy(t) ==
    /\ At(t, "copy")
    /\ \E c \in DataRead : buffer' = IF t = Main THEN c ELSE buffer
    /\ Leave(t, TRUE)
    /\ UNCHANGED <<phase, db, keyBuf, dataBuf, promised, mode>>

(* A write fails: in a live transaction it may leave the error mark.       *)
Refused ==
    \/ handle # "live" /\ UNCHANGED handle
    \/ handle = "live" /\ errors /\ handle' \in {"live", "error"}

MdbWrite(t) ==
    /\ At(t, "in")
    /\ Writes(call[t].op)
    /\ \/ /\ handle = "live"
          /\ working' = [working EXCEPT ![call[t].mdbKey] = call[t].mdbVal]
          /\ Leave(t, TRUE)
          /\ Tell(call[t].key, call[t].val)
          /\ UNCHANGED handle
       \/ /\ Refused
          /\ Leave(t, FALSE)
          /\ UNCHANGED <<working, promised>>
    /\ UNCHANGED <<phase, committed, keyBuf, dataBuf, buffer, mode>>

(* mdb_del: every answer but MDB_NOTFOUND is returned as true.             *)
MdbDel(t) ==
    /\ At(t, "in")
    /\ call[t].op \in {"del", "delBatch"}
    /\ \/ /\ handle = "live"
          /\ working' = [working EXCEPT ![call[t].mdbKey] = Absent]
          /\ Leave(t, working[call[t].mdbKey] # Absent)
          /\ UNCHANGED handle
       \/ /\ Refused
          /\ Leave(t, TRUE)
          /\ UNCHANGED working
    /\ Tell(call[t].key, None)
    /\ UNCHANGED <<phase, committed, keyBuf, dataBuf, buffer, mode>>

-----------------------------------------------------------------------------
(* applyBatch(): mdb_txn_commit, then mdb_txn_begin if that was MDB_OK.    *)

ApplyBatch ==
    /\ MayStart(Main, "apply")
    /\ Enter(Main, [op |-> "apply", at |-> "commit"])
    /\ Answer(Main, None, FALSE)
    /\ UNCHANGED <<phase, db, shared, buffer, promised, mode>>

(* Mutant: a failed commit leaves the transaction's writes visible.        *)
Commit_LeavesWrites(keep) ==
    /\ handle' = IF handle = "spent" THEN "freed" ELSE "spent"
    /\ committed' = IF keep THEN working ELSE committed
    /\ UNCHANGED working

(* mdb_txn_commit(txn) keeps the writes of a live transaction or drops     *)
(* them, and ends the handle; of a handle already ended it frees the       *)
(* transaction object, which belongs to the environment.                   *)
Commit(keep) ==
    /\ handle' = IF handle = "spent" THEN "freed" ELSE "spent"
    /\ committed' = IF keep THEN working ELSE committed
    /\ working' = IF keep THEN working ELSE committed

Applying(at) == phase = "open" /\ call[Main].op = "apply" /\ call[Main].at = at

ApplyCommit ==
    /\ Applying("commit")
    /\ handle = "live"
    /\ Commit(TRUE)
    /\ Goto(Main, "begin")
    /\ UNCHANGED <<phase, shared, reply, mode>>

(* Mutant: the result of mdb_txn_commit is not looked at.                  *)
ApplyFails_Ignored ==
    /\ Applying("commit")
    /\ handle \in {"live", "error", "spent"}
    /\ handle = "live" => errors
    /\ Commit(FALSE)
    /\ Goto(Main, "begin")
    /\ UNCHANGED <<phase, shared, reply, mode>>

ApplyFails ==
    /\ Applying("commit")
    /\ handle \in {"live", "error", "spent"}
    /\ handle = "live" => errors
    /\ Commit(FALSE)
    /\ Enter(Main, Idle)
    /\ Answer(Main, None, FALSE)
    /\ promised' = Nothing
    /\ UNCHANGED <<phase, shared, buffer, mode>>

(* Mutant: the transaction is not begun again.                             *)
ApplyBegin_Forgotten ==
    /\ Applying("begin")
    /\ Enter(Main, Idle)
    /\ Answer(Main, None, TRUE)
    /\ promised' = Nothing
    /\ UNCHANGED <<phase, db, shared, buffer, mode>>

ApplyBegin ==
    /\ Applying("begin")
    /\ Enter(Main, Idle)
    /\ \/ handle' = "live" /\ Answer(Main, None, TRUE)
       \/ errors /\ Answer(Main, None, FALSE) /\ UNCHANGED handle
    /\ promised' = Nothing
    /\ UNCHANGED <<phase, committed, working, shared, buffer, mode>>

-----------------------------------------------------------------------------
(* delete db: close() commits what is pending, ignores the result and      *)
(* closes the environment, which frees the transaction object.             *)

Closing == phase = "open" /\ \A t \in Thread : Free(t)

Delete ==
    /\ Closing
    /\ handle \in {"live", "error"}
    /\ phase' = "deleted"
    /\ \/ handle = "live" /\ Commit(TRUE)
       \/ /\ handle = "error" \/ errors
          /\ Commit(FALSE)
    /\ UNCHANGED <<shared, call, reply, mode>>

(* The handle is used although there is no transaction behind it, or the   *)
(* object behind it is freed a second time; or a get walks pages another   *)
(* call is changing.                                                       *)
Crash ==
    /\ \/ /\ handle \in {"uninit", "freed"}
          /\ Applying("commit") \/ \E t \in Thread : At(t, "mdb")
       \/ handle \in {"uninit", "spent", "freed"} /\ Closing
       \/ \E t \in Thread : Inside(t) /\ call[t].op = "get" /\ call[t].raced /\ phase = "open"
    /\ phase' = "crashed"
    /\ UNCHANGED <<db, shared, call, reply, mode>>

Steps(t) ==
    \/ SetKey(t) \/ SetData(t) \/ Lock(t) \/ MdbBegin(t)
    \/ MdbGet(t) \/ Copy(t) \/ MdbWrite(t) \/ MdbDel(t)

ApplySteps == ApplyCommit \/ ApplyFails \/ ApplyBegin

Next ==
    \/ Open
    \/ OpenFails
    \/ \E t \in Thread, k \in Key : Get(t, k)
    \/ \E t \in Thread, k \in Key, v \in Value : Put(t, k, v)
    \/ \E k \in Key : Del(k) \/ DelBatch(k)
    \/ \E k \in Key, v \in Value : PutBatch(k, v)
    \/ \E t \in Thread : Steps(t)
    \/ ApplyBatch
    \/ ApplySteps
    \/ Delete
    \/ Crash

Spec == Init /\ [][Next]_vars

-----------------------------------------------------------------------------
(* As a StateDB: in a run without an error of LMDB, where LMDB has nothing *)
(* pending; what get answers only where one thread uses the object.        *)

answer  == IF threads = {Main} /\ Free(Main) /\ result.key # None
           THEN <<result.key, IF result.ok THEN buffer ELSE Absent>>
           ELSE None

StateDB == INSTANCE StateDBSpec
           WITH kv <- working, pending <- Nothing, flushed <- {}, EngineErrors <- FALSE

(* As long as LMDB meets no error, the adapter is a StateDB whose batched  *)
(* writes are made at once.                                                *)
ImplementsStateDB == StateDB!Init /\ [][~errors => StateDB!Next]_(StateDB!vars)

(* Whatever LMDB answers, a put or putBatch that returned true is kept: the *)
(* transaction holds its value and, once applyBatch has committed, so does *)
(* the environment.  Only an applyBatch that returns false gives it up.    *)
PutsStay ==
    phase = "open" => \A k \in Key : promised[k] # None =>
        working[k] = promised[k] /\ (Applying("begin") => committed[k] = promised[k])

(* After an applyBatch that returned true the transaction has nothing      *)
(* uncommitted in it, and one that failed has left nothing behind.         *)
AppliedIsCommitted ==
    Applying("begin") \/ handle \in {"spent", "freed"} => working = committed

(* Without an error of LMDB one thread cannot bring the process down.      *)
NoCrash == phase = "crashed" => errors \/ threads # {Main}

(* Two threads are never inside mdb_put or mdb_del together, and one that  *)
(* leaves the adapter has given the mutex back, whatever LMDB answered.    *)
WritersExclude ==
    /\ TypeOK
    /\ mtx # None => Locks(call[mtx].op) /\ call[mtx].at \in {"mdb", "in"}
    /\ \A t, u \in Thread :
        Inside(t) /\ Inside(u) /\ t # u => "get" \in {call[t].op, call[u].op}

=============================================================================

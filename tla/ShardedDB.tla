----------------------------- MODULE ShardedDB -----------------------------
(***************************************************************************)
(* ledger/level_db.cpp and ledger/rocks_db.cpp, which differ only in the   *)
(* library they call.  One adapter object holds NumShards engines (16 in   *)
(* the code), each with the status of the last call made on it and a write *)
(* batch.  The object is shared by the threads of the benchmark without a  *)
(* lock:                                                                   *)
(*                                                                         *)
(*     _dbs[idx].status = _dbs[idx].db->Get(...);     call, then assign    *)
(*     if (!_dbs[idx].status.ok()) return false;      then read again      *)
(*                                                                         *)
(* so get, put and del are four steps here: the call on the engine, the    *)
(* begin and the end of the assignment, the test.  The engines are         *)
(* external: a call on one is atomic and answers ok, NotFound (a get) or   *)
(* an error that leaves the store as it was.  A WriteBatch is external too *)
(* and abstracted to the last write it holds for each key, which is what   *)
(* replaying it in order leaves in the store.                              *)
(*                                                                         *)
(* Only the main thread deletes, batches and applies, as in util/test.cpp; *)
(* the workers of util/Worker.cpp get and put.                             *)
(***************************************************************************)
EXTENDS Integers, FiniteSets

CONSTANTS
    Key, Value,
    EmptyKey,      \* the key std::string::empty() holds of
    Absent,        \* no value: a missing key, the value a delete writes
    None,          \* no batched write; no answer yet
    EngineErrors,  \* may a call on an engine fail?
    NumShards,     \* 1 << _shardBits
    ShardOf,       \* shard(hashSlice(key), _shardBits), by key
    Thread, Main

ASSUME ShardAssumption ==
    /\ NumShards \in Nat \ {0}
    /\ EngineErrors \in BOOLEAN
    /\ ShardOf \in [Key -> 0 .. NumShards - 1]

ASSUME NameAssumption ==
    /\ Main \in Thread
    /\ Absent \notin Value
    /\ None \notin Value \cup {Absent}

Shard   == 0 .. NumShards - 1
Content == Value \cup {Absent}
Status  == {"ok", "NotFound", "error"}

Idle     == [op |-> "none"]
KeyCall  == [op : {"get", "put", "del"}, key : Key, outcome : Status,
             at : {"called", "assigning", "assigned"}]
Reply    == [key : Key \cup {None}, ok : BOOLEAN]   \* key: of a get only
Loop     == [op : {"none", "open", "apply"}, shard : 0 .. NumShards]

VARIABLES
    phase,    \* the life of the adapter object, and of the process
    dbs,      \* _dbs.size(): shards 0 .. dbs-1 are open
    store,    \* what the engines hold, all shards together
    status,   \* _dbs[idx].status
    batch,    \* _dbs[idx].batch: per key, its last write or None
    call,     \* the get, put or del each thread is inside, with its progress
    loop,     \* the loop over the shards Main is inside: open's or applyBatch's
    result,   \* what Main's last call returned (a worker ignores its own)
    buffer,   \* the string Main passes to get
    threads   \* the threads that use the object: set at the start, for good

vars == <<phase, dbs, store, status, batch, call, loop, result, buffer, threads>>

TypeOK ==
    /\ phase \in {"new", "open", "ready", "failed", "deleted", "crashed"}
    /\ dbs \in 0 .. NumShards
    /\ store \in [Key -> Content]
    /\ status \in [Shard -> Status]
    /\ batch \in [Shard -> [Key -> Content \cup {None}]]
    /\ call \in [Thread -> {Idle} \cup KeyCall]
    /\ loop \in Loop
    /\ result \in Reply
    /\ buffer \in Content
    /\ threads \in {{Main}, Thread}

NoReply == [key |-> None, ok |-> FALSE]

Init ==
    /\ phase = "new"
    /\ dbs = 0
    /\ store \in {c \in [Key -> Content] : \A k \in Key : k = EmptyKey => c[k] = Absent}
    /\ status = [s \in Shard |-> "ok"]
    /\ batch = [s \in Shard |-> [k \in Key |-> None]]
    /\ call = [t \in Thread |-> Idle]
    /\ loop = [op |-> "none", shard |-> 0]
    /\ result = NoReply
    /\ buffer = Absent
    /\ threads \in {{Main}, Thread}

Free(t)          == call[t] = Idle /\ (t = Main => loop.op = "none")
Enter(t, c)      == call' = [call EXCEPT ![t] = c]
At(op, s)        == loop' = [op |-> op, shard |-> s]
Answer(t, k, ok) == result' = IF t = Main THEN [key |-> k, ok |-> ok] ELSE result
Begin(t)         == result' = IF t = Main THEN NoReply ELSE result
LoopReturns(ok)  == At("none", 0) /\ Answer(Main, None, ok)

-----------------------------------------------------------------------------
(* open(): one engine after the other; the first failure returns false and *)
(* leaves the engines already opened in _dbs.                              *)

OpenCall ==
    /\ phase = "new"
    /\ Free(Main)
    /\ At("open", 0)
    /\ Begin(Main)
    /\ UNCHANGED <<phase, dbs, store, status, batch, call, buffer, threads>>

(* Mutant: the loop runs to idx <= (1 << _shardBits).                      *)
OpenShard_OneTooMany ==
    /\ loop.op = "open"
    /\ loop.shard <= NumShards
    /\ dbs' = loop.shard + 1
    /\ At("open", loop.shard + 1)
    /\ UNCHANGED <<phase, store, status, batch, call, result, buffer, threads>>

OpenShard ==
    /\ loop.op = "open"
    /\ loop.shard < NumShards
    /\ dbs' = loop.shard + 1
    /\ status' = [status EXCEPT ![loop.shard] = "ok"]
    /\ At("open", loop.shard + 1)
    /\ UNCHANGED <<phase, store, batch, call, result, buffer, threads>>

(* Mutant: an engine that fails to open is skipped.                        *)
OpenFails_Skips ==
    /\ EngineErrors
    /\ loop.op = "open"
    /\ loop.shard < NumShards
    /\ At("open", loop.shard + 1)
    /\ UNCHANGED <<phase, dbs, store, status, batch, call, result, buffer, threads>>

OpenFails ==
    /\ EngineErrors
    /\ loop.op = "open"
    /\ loop.shard < NumShards
    /\ phase' = "failed"
    /\ LoopReturns(FALSE)
    /\ UNCHANGED <<dbs, store, status, batch, call, buffer, threads>>

OpenReturns ==
    /\ loop.op = "open"
    /\ loop.shard = NumShards
    /\ phase' = "open"
    /\ LoopReturns(TRUE)
    /\ UNCHANGED <<dbs, store, status, batch, call, buffer, threads>>

(* while (!db->opened()) sleep: the caller goes on once every engine's     *)
(* last status is ok.                                                      *)
Opened ==
    /\ phase = "open"
    /\ \A s \in Shard : s < dbs => status[s] = "ok"
    /\ phase' = "ready"
    /\ Answer(Main, None, TRUE)
    /\ UNCHANGED <<dbs, store, status, batch, call, loop, buffer, threads>>

-----------------------------------------------------------------------------
(* get, put and del.                                                       *)

CallEngine(t, op, k, outcome) ==
    Enter(t, [op |-> op, key |-> k, outcome |-> outcome, at |-> "called"])

Get(t, k) ==
    /\ phase = "ready"
    /\ t \in threads /\ Free(t)
    /\ \/ /\ store[k] # Absent
          /\ buffer' = IF t = Main THEN store[k] ELSE buffer
          /\ CallEngine(t, "get", k, "ok")
       \/ /\ store[k] = Absent
          /\ CallEngine(t, "get", k, "NotFound")
          /\ UNCHANGED buffer
       \/ /\ EngineErrors
          /\ CallEngine(t, "get", k, "error")
          /\ UNCHANGED buffer
    /\ Begin(t)
    /\ UNCHANGED <<phase, dbs, store, status, batch, loop, threads>>

(* put writes a value; del writes Absent, and deleting a missing key is ok.*)
WriteOp(t, op, k, c) ==
    /\ phase = "ready"
    /\ t \in threads /\ Free(t)
    /\ IF k = EmptyKey
       THEN Answer(t, None, FALSE) /\ UNCHANGED <<store, call>>
       ELSE /\ \/ CallEngine(t, op, k, "ok") /\ store' = [store EXCEPT ![k] = c]
               \/ EngineErrors /\ CallEngine(t, op, k, "error") /\ UNCHANGED store
            /\ Begin(t)
    /\ UNCHANGED <<phase, dbs, status, batch, loop, buffer, threads>>

Put(t, k, v) == WriteOp(t, "put", k, v)
Del(k)       == WriteOp(Main, "del", k, Absent)

InKeyCall(t, at) ==
    /\ call[t].op \in {"get", "put", "del"}
    /\ call[t].at = at

AssignBegin(t) ==
    /\ InKeyCall(t, "called")
    /\ phase = "ready"
    /\ call' = [call EXCEPT ![t].at = "assigning"]
    /\ UNCHANGED <<phase, dbs, store, status, batch, loop, result, buffer, threads>>

(* Mutant: what the engine answered is not kept.                           *)
AssignEnd_Dropped(t) ==
    /\ InKeyCall(t, "assigning")
    /\ phase = "ready"
    /\ call' = [call EXCEPT ![t].at = "assigned"]
    /\ UNCHANGED <<phase, dbs, store, status, batch, loop, result, buffer, threads>>

AssignEnd(t) ==
    /\ InKeyCall(t, "assigning")
    /\ phase = "ready"
    /\ status' = [status EXCEPT ![ShardOf[call[t].key]] = call[t].outcome]
    /\ call' = [call EXCEPT ![t].at = "assigned"]
    /\ UNCHANGED <<phase, dbs, store, batch, loop, result, buffer, threads>>

(* Two assignments to one status are a data race: each may free the        *)
(* message the old status owned (an ok status owns none).                  *)
Racing(t, u) ==
    /\ t # u
    /\ InKeyCall(t, "assigning")
    /\ InKeyCall(u, "assigning")
    /\ ShardOf[call[t].key] = ShardOf[call[u].key]

RaceCrash ==
    /\ phase = "ready"
    /\ \E t, u \in Thread : Racing(t, u) /\ status[ShardOf[call[t].key]] # "ok"
    /\ phase' = "crashed"
    /\ UNCHANGED <<dbs, store, status, batch, call, loop, result, buffer, threads>>

CheckStatus(t) ==
    /\ InKeyCall(t, "assigned")
    /\ phase = "ready"
    /\ Enter(t, Idle)
    /\ Answer(t, IF call[t].op = "get" THEN call[t].key ELSE None,
              status[ShardOf[call[t].key]] = "ok")
    /\ UNCHANGED <<phase, dbs, store, status, batch, loop, buffer, threads>>

-----------------------------------------------------------------------------
(* putBatch, delBatch and applyBatch.                                      *)

BatchOp(k, c) ==
    /\ phase = "ready"
    /\ Free(Main)
    /\ IF k = EmptyKey
       THEN Answer(Main, None, FALSE) /\ UNCHANGED batch
       ELSE /\ batch' = [batch EXCEPT ![ShardOf[k]][k] = c]
            /\ Answer(Main, None, TRUE)
    /\ UNCHANGED <<phase, dbs, store, status, call, loop, buffer, threads>>

PutBatch(k, v) == BatchOp(k, v)
DelBatch(k)    == BatchOp(k, Absent)

ApplyBatch ==
    /\ phase = "ready"
    /\ Free(Main)
    /\ At("apply", 0)
    /\ Begin(Main)
    /\ UNCHANGED <<phase, dbs, store, status, batch, call, buffer, threads>>

WriteBatch(s) ==
    [k \in Key |-> IF batch[s][k] # None THEN batch[s][k] ELSE store[k]]

ApplyShard ==
    /\ loop.op = "apply"
    /\ phase = "ready"
    /\ loop.shard < dbs
    /\ store' = WriteBatch(loop.shard)
    /\ At("apply", loop.shard + 1)
    /\ UNCHANGED <<phase, dbs, status, batch, call, result, buffer, threads>>

(* Mutant: a shard that cannot be written is passed over.                  *)
ApplyFails_PassesOver ==
    /\ EngineErrors
    /\ loop.op = "apply"
    /\ phase = "ready"
    /\ loop.shard < dbs
    /\ At("apply", loop.shard + 1)
    /\ UNCHANGED <<phase, dbs, store, status, batch, call, result, buffer, threads>>

ApplyFails ==
    /\ EngineErrors
    /\ loop.op = "apply"
    /\ phase = "ready"
    /\ loop.shard < dbs
    /\ LoopReturns(FALSE)
    /\ UNCHANGED <<phase, dbs, store, status, batch, call, buffer, threads>>

ApplyClear ==
    /\ loop.op = "apply"
    /\ phase = "ready"
    /\ loop.shard = dbs
    /\ batch' = [s \in Shard |-> [k \in Key |-> None]]
    /\ LoopReturns(TRUE)
    /\ UNCHANGED <<phase, dbs, store, status, call, buffer, threads>>

-----------------------------------------------------------------------------
(* delete db, by the main thread once the other threads are out of it.     *)
Delete ==
    /\ phase = "ready"
    /\ \A t \in Thread : Free(t)
    /\ phase' = "deleted"
    /\ UNCHANGED <<dbs, store, status, batch, call, loop, result, buffer, threads>>

KeySteps(t) == AssignBegin(t) \/ AssignEnd(t) \/ CheckStatus(t)

MainSteps ==
    \/ OpenShard \/ OpenFails \/ OpenReturns \/ Opened
    \/ ApplyShard \/ ApplyFails \/ ApplyClear

Next ==
    \/ OpenCall
    \/ MainSteps
    \/ \E t \in Thread, k \in Key : Get(t, k)
    \/ \E t \in Thread, k \in Key, v \in Value : Put(t, k, v)
    \/ \E k \in Key : Del(k)
    \/ \E t \in Thread : KeySteps(t)
    \/ RaceCrash
    \/ \E k \in Key, v \in Value : PutBatch(k, v)
    \/ \E k \in Key : DelBatch(k)
    \/ ApplyBatch
    \/ Delete

Spec == Init /\ [][Next]_vars

-----------------------------------------------------------------------------
(* The adapter as a StateDB.                                               *)

pending == [k \in Key |-> batch[ShardOf[k]][k]]
flushed == {k \in Key : /\ pending[k] # None
                        /\ loop.op = "apply"
                        /\ ShardOf[k] < loop.shard}
answer  == IF Free(Main) /\ result.key # None
           THEN <<result.key, IF result.ok THEN buffer ELSE Absent>>
           ELSE None

(* What a get answers is told only where one thread uses the object: the   *)
(* status a call tests may be another thread's.                            *)
StateDB == INSTANCE StateDBSpec WITH
    kv <- store,
    answer <- IF threads = {Main} THEN answer ELSE None
Stored  == INSTANCE StateDBSpec WITH kv <- store, answer <- None

(* Used by one thread, the adapter is a StateDB: a true applyBatch has     *)
(* written every batched write whatever engine failed before, a false one  *)
(* has dropped none, and a get answers with the store.                     *)
ImplementsStateDB == StateDB!Spec

(* Shared by several threads it still is one in what it stores.            *)
ImplementsStoring == Stored!Spec

(* A batched write waits in the batch of the shard its key is read from,   *)
(* and never under the empty key.                                          *)
BatchInItsShard ==
    \A s \in Shard, k \in Key :
        batch[s][k] # None => ShardOf[k] = s /\ k # EmptyKey

(* No engine is called before open() has opened every shard: _dbs[idx] is  *)
(* inside the vector for every key.                                        *)
OnlyOpenedShards ==
    \A t \in Thread : call[t].op \in {"get", "put", "del"} => ShardOf[call[t].key] < dbs

(* The loops over the shards go with the life of the object: open() counts *)
(* the shards it has pushed, applyBatch runs on a fully opened object, and *)
(* no call is under way on one that is not.                                *)
LifeInv ==
    /\ loop.op = "open" => phase = "new" /\ dbs = loop.shard
    /\ loop.op = "apply" => phase \in {"ready", "crashed"}
    /\ phase = "new" /\ loop.op = "none" => dbs = 0
    /\ phase \in {"open", "ready", "crashed"} => dbs = NumShards
    /\ \A t \in Thread : call[t] # Idle => phase \in {"ready", "crashed"}
=============================================================================

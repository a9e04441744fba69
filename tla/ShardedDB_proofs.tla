-------------------------- MODULE ShardedDB_proofs --------------------------
(***************************************************************************)
(* Proofs about ShardedDB for every number of shards, threads, keys and    *)
(* values, and every assignment of keys to shards.                         *)
(***************************************************************************)
EXTENDS ShardedDB, TLAPS

Calls == {Idle} \cup KeyCall

(* Entering a call, or leaving one, keeps the calls well-typed.            *)
LEMMA EnterType ==
    ASSUME call \in [Thread -> Calls], NEW t \in Thread, NEW c \in Calls, Enter(t, c)
    PROVE  call' \in [Thread -> Calls]
BY DEF Enter

(* A call on an engine is a well-typed call in progress.                   *)
LEMMA CallEngineType ==
    ASSUME call \in [Thread -> Calls], NEW t \in Thread, NEW k \in Key,
           NEW op \in {"get", "put", "del"}, NEW outcome \in Status,
           CallEngine(t, op, k, outcome)
    PROVE  call' \in [Thread -> Calls]
<1>1. [op |-> op, key |-> k, outcome |-> outcome, at |-> "called"] \in Calls
  BY DEF Calls, KeyCall
<1> QED
  BY <1>1, EnterType DEF CallEngine

(* What a get, put or del in progress looks like.                          *)
LEMMA InKeyCallType ==
    ASSUME call \in [Thread -> Calls], NEW t \in Thread, NEW at, InKeyCall(t, at)
    PROVE  /\ call[t] \in KeyCall
           /\ call[t].key \in Key
           /\ call[t].outcome \in Status
           /\ ShardOf[call[t].key] \in Shard
BY ShardAssumption DEF InKeyCall, Calls, KeyCall, Idle, Shard

(* A get, put or del that moves on is still well-typed.                    *)
LEMMA AdvanceType ==
    ASSUME call \in [Thread -> Calls], NEW t \in Thread, call[t] \in KeyCall,
           NEW at \in {"called", "assigning", "assigned"},
           call' = [call EXCEPT ![t].at = at]
    PROVE  call' \in [Thread -> Calls]
<1>1. [call[t] EXCEPT !.at = at] \in KeyCall
  BY DEF KeyCall
<1> QED
  BY <1>1 DEF Calls

(* An answer is well-typed.                                                *)
LEMMA AnswerType ==
    ASSUME result \in Reply, NEW t, NEW k \in Key \cup {None}, NEW ok \in BOOLEAN,
           Answer(t, k, ok)
    PROVE  result' \in Reply
BY DEF Answer, Reply

(* A call that begins leaves no answer, or a worker's leaves Main's.       *)
LEMMA BeginType ==
    ASSUME result \in Reply, NEW t, Begin(t)
    PROVE  result' \in Reply
BY DEF Begin, NoReply, Reply

(* The loop over the shards stays within them.                             *)
LEMMA AtType ==
    ASSUME NEW op \in {"none", "open", "apply"}, NEW s \in 0 .. NumShards, At(op, s)
    PROVE  loop' \in Loop
BY DEF At, Loop

(* Writing a batch leaves keys with contents.                              *)
LEMMA WriteBatchType ==
    ASSUME TypeOK, NEW s \in Shard
    PROVE  WriteBatch(s) \in [Key -> Content]
BY DEF TypeOK, WriteBatch

(* Every step keeps every variable in the values its declaration allows.   *)
LEMMA TypeStep == TypeOK /\ [Next]_vars => TypeOK'
<1> USE DEF Calls
<1> SUFFICES ASSUME TypeOK, [Next]_vars PROVE TypeOK'
  OBVIOUS
<1> USE ShardAssumption, NameAssumption
<1>1. CASE OpenCall
  <2>1. loop' \in Loop /\ result' \in Reply
    <3>1. 0 \in 0 .. NumShards
      OBVIOUS
    <3> QED
      BY <1>1, <3>1, AtType, BeginType DEF OpenCall, TypeOK
  <2> QED
    BY <1>1, <2>1 DEF OpenCall, TypeOK
<1>2. CASE OpenShard
  <2>1. loop.shard \in Shard /\ loop.shard + 1 \in 0 .. NumShards
    BY <1>2 DEF OpenShard, TypeOK, Loop, Shard
  <2>2. loop' \in Loop
    BY <1>2, <2>1, AtType DEF OpenShard, TypeOK
  <2>3. status' \in [Shard -> Status] /\ dbs' \in 0 .. NumShards
    BY <1>2, <2>1 DEF OpenShard, TypeOK, Status
  <2> QED
    BY <1>2, <2>2, <2>3 DEF OpenShard, TypeOK
<1>2f. CASE OpenFails
  <2>1. loop' \in Loop /\ result' \in Reply
    <3>1. 0 \in 0 .. NumShards
      OBVIOUS
    <3> QED
      BY <1>2f, <3>1, AtType, AnswerType DEF OpenFails, LoopReturns, TypeOK
  <2> QED
    BY <1>2f, <2>1 DEF OpenFails, TypeOK
<1>3. CASE OpenReturns
  <2>1. 0 \in 0 .. NumShards
    OBVIOUS
  <2> QED
    BY <1>3, <2>1, AtType, AnswerType DEF OpenReturns, LoopReturns, TypeOK
<1>4. CASE Opened
  BY <1>4, AnswerType DEF Opened, TypeOK
<1>5f. CASE ApplyFails
  <2>1. loop' \in Loop /\ result' \in Reply
    <3>1. 0 \in 0 .. NumShards
      OBVIOUS
    <3> QED
      BY <1>5f, <3>1, AtType, AnswerType DEF ApplyFails, LoopReturns, TypeOK
  <2> QED
    BY <1>5f, <2>1 DEF ApplyFails, TypeOK
<1>5. CASE ApplyShard
  <2>1. loop.shard \in Shard /\ loop.shard + 1 \in 0 .. NumShards
    BY <1>5 DEF ApplyShard, TypeOK, Loop, Shard
  <2>2. loop' \in Loop
    BY <1>5, <2>1, AtType DEF ApplyShard, TypeOK
  <2>3. store' \in [Key -> Content]
    BY <1>5, <2>1, WriteBatchType DEF ApplyShard, TypeOK
  <2> QED
    BY <1>5, <2>2, <2>3 DEF ApplyShard, TypeOK
<1>6. CASE ApplyClear
  <2>1. loop' \in Loop /\ result' \in Reply
    <3>1. 0 \in 0 .. NumShards
      OBVIOUS
    <3> QED
      BY <1>6, <3>1, AtType, AnswerType DEF ApplyClear, LoopReturns, TypeOK
  <2>2. batch' \in [Shard -> [Key -> Content \cup {None}]]
    BY <1>6 DEF ApplyClear
  <2> QED
    BY <1>6, <2>1, <2>2 DEF ApplyClear, TypeOK
<1>7. ASSUME NEW t \in Thread, NEW k \in Key, Get(t, k) PROVE TypeOK'
  <2>1. call' \in [Thread -> Calls]
    BY <1>7, CallEngineType DEF Get, TypeOK, Status
  <2>2. buffer' \in Content
    BY <1>7 DEF Get, TypeOK, Content
  <2>3. result' \in Reply
    BY <1>7, BeginType DEF Get, TypeOK
  <2> QED
    BY <1>7, <2>1, <2>2, <2>3 DEF Get, TypeOK
<1>8. ASSUME NEW t \in Thread, NEW op \in {"put", "del"}, NEW k \in Key, NEW c \in Content,
             WriteOp(t, op, k, c)
      PROVE  TypeOK'
  <2>1. call' \in [Thread -> Calls]
    <3>1. CASE k = EmptyKey
      BY <1>8, <3>1 DEF WriteOp, TypeOK
    <3>2. CASE k # EmptyKey
      <4>1. PICK outcome \in {"ok", "error"} : CallEngine(t, op, k, outcome)
        BY <1>8, <3>2 DEF WriteOp
      <4>2. op \in {"get", "put", "del"} /\ outcome \in Status
        BY <1>8 DEF Status
      <4> QED
        BY <4>1, <4>2, CallEngineType DEF TypeOK
    <3> QED
      BY <3>1, <3>2
  <2>2. store' \in [Key -> Content]
    BY <1>8 DEF WriteOp, TypeOK
  <2>3. result' \in Reply
    BY <1>8, AnswerType, BeginType DEF WriteOp, TypeOK
  <2> QED
    BY <1>8, <2>1, <2>2, <2>3 DEF WriteOp, TypeOK
<1>9. ASSUME NEW t \in Thread, KeySteps(t) PROVE TypeOK'
  <2>1. CASE AssignBegin(t)
    BY <2>1, InKeyCallType, AdvanceType DEF AssignBegin, TypeOK
  <2>2. CASE AssignEnd(t)
    <3>1. call' \in [Thread -> Calls]
      BY <2>2, InKeyCallType, AdvanceType DEF AssignEnd, TypeOK
    <3>2. status' \in [Shard -> Status]
      BY <2>2, InKeyCallType DEF AssignEnd, TypeOK
    <3> QED
      BY <2>2, <3>1, <3>2 DEF AssignEnd, TypeOK
  <2>3. CASE CheckStatus(t)
    <3>1. call[t].key \in Key
      BY <2>3, InKeyCallType DEF CheckStatus, TypeOK
    <3>2. result' \in Reply
      BY <2>3, <3>1, AnswerType DEF CheckStatus, TypeOK
    <3>3. call' \in [Thread -> Calls]
      BY <2>3, EnterType DEF CheckStatus, TypeOK
    <3> QED
      BY <2>3, <3>2, <3>3 DEF CheckStatus, TypeOK
  <2> QED
    BY <1>9, <2>1, <2>2, <2>3 DEF KeySteps
<1>10. CASE RaceCrash
  BY <1>10 DEF RaceCrash, TypeOK
<1>11. ASSUME NEW k \in Key, NEW c \in Content, BatchOp(k, c) PROVE TypeOK'
  <2>1. ShardOf[k] \in Shard
    BY DEF Shard
  <2>2. batch' \in [Shard -> [Key -> Content \cup {None}]]
    <3>1. CASE k = EmptyKey
      BY <1>11, <3>1 DEF BatchOp, TypeOK
    <3>2. CASE k # EmptyKey
      <4>1. [batch[ShardOf[k]] EXCEPT ![k] = c] \in [Key -> Content \cup {None}]
        BY <2>1 DEF TypeOK
      <4> QED
        BY <1>11, <2>1, <3>2, <4>1 DEF BatchOp, TypeOK
    <3> QED
      BY <3>1, <3>2
  <2>3. result' \in Reply
    BY <1>11, AnswerType DEF BatchOp, TypeOK
  <2> QED
    BY <1>11, <2>2, <2>3 DEF BatchOp, TypeOK
<1>12. CASE ApplyBatch
  <2>1. loop' \in Loop /\ result' \in Reply
    <3>1. 0 \in 0 .. NumShards
      OBVIOUS
    <3> QED
      BY <1>12, <3>1, AtType, BeginType DEF ApplyBatch, TypeOK
  <2> QED
    BY <1>12, <2>1 DEF ApplyBatch, TypeOK
<1>13. CASE Delete
  BY <1>13 DEF Delete, TypeOK
<1>14. CASE UNCHANGED vars
  BY <1>14 DEF vars, TypeOK
<1> QED
  BY <1>1, <1>2, <1>2f, <1>3, <1>4, <1>5, <1>5f, <1>6, <1>7, <1>8, <1>9, <1>10, <1>11, <1>12,
     <1>13, <1>14
     DEF Next, MainSteps, Put, Del, PutBatch, DelBatch, Content

(* Every variable keeps the values its declaration allows.                 *)
THEOREM TypeCorrect == Spec => []TypeOK
<1>1. Init => TypeOK
  BY ShardAssumption, NameAssumption
     DEF Init, TypeOK, Shard, Content, Status, Idle, KeyCall, Loop, Reply, NoReply
<1> QED
  BY <1>1, TypeStep, PTL DEF Spec

-----------------------------------------------------------------------------
(* The invariant behind the refinement: the life of the object, and where  *)
(* batched writes wait.                                                    *)
Inv == TypeOK /\ LifeInv /\ BatchInItsShard

(* The life of the object is kept by every step.                           *)
LEMMA LifeStep == TypeOK /\ LifeInv /\ [Next]_vars => LifeInv'
<1> SUFFICES ASSUME TypeOK, LifeInv, [Next]_vars PROVE LifeInv'
  OBVIOUS
<1> USE ShardAssumption, NameAssumption
<1>0. Idle \notin KeyCall
  BY DEF Idle, KeyCall
<1>1. CASE OpenCall
  BY <1>1 DEF OpenCall, At, LifeInv, Free
<1>2. CASE OpenShard
  BY <1>2 DEF OpenShard, At, LifeInv, TypeOK, Loop
<1>2f. CASE OpenFails
  BY <1>2f DEF OpenFails, At, LoopReturns, LifeInv, TypeOK, Loop
<1>3. CASE OpenReturns
  BY <1>3 DEF OpenReturns, At, LoopReturns, LifeInv
<1>4. CASE Opened
  BY <1>4 DEF Opened, LifeInv
<1>5. CASE ApplyShard
  BY <1>5 DEF ApplyShard, At, LifeInv
<1>5f. CASE ApplyFails
  BY <1>5f DEF ApplyFails, At, LoopReturns, LifeInv
<1>6. CASE ApplyClear
  BY <1>6 DEF ApplyClear, At, LoopReturns, LifeInv
<1>7. ASSUME NEW t \in Thread, NEW k \in Key, Get(t, k) PROVE LifeInv'
  <2>1. phase = "ready" /\ UNCHANGED <<phase, dbs, loop>>
    BY <1>7 DEF Get
  <2> QED
    BY <2>1 DEF LifeInv
<1>8. ASSUME NEW t \in Thread, NEW op, NEW k \in Key, NEW c, WriteOp(t, op, k, c)
      PROVE  LifeInv'
  BY <1>8 DEF WriteOp, LifeInv
<1>9. ASSUME NEW t \in Thread, KeySteps(t) PROVE LifeInv'
  <2>1. phase = "ready" /\ UNCHANGED <<phase, dbs, loop>>
    BY <1>9 DEF KeySteps, AssignBegin, AssignEnd, CheckStatus
  <2> QED
    BY <2>1 DEF LifeInv
<1>10. CASE RaceCrash
  BY <1>10 DEF RaceCrash, LifeInv
<1>11. ASSUME NEW k \in Key, NEW c, BatchOp(k, c) PROVE LifeInv'
  BY <1>11 DEF BatchOp, LifeInv
<1>12. CASE ApplyBatch
  BY <1>12 DEF ApplyBatch, At, LifeInv
<1>13. CASE Delete
  BY <1>13 DEF Delete, LifeInv, Free
<1>14. CASE UNCHANGED vars
  BY <1>14 DEF vars, LifeInv
<1> QED
  BY <1>1, <1>2, <1>2f, <1>3, <1>4, <1>5, <1>5f, <1>6, <1>7, <1>8, <1>9, <1>10, <1>11, <1>12,
     <1>13, <1>14
     DEF Next, MainSteps, Put, Del, PutBatch, DelBatch

(* Only putBatch, delBatch and a successful applyBatch touch a batch.      *)
LEMMA BatchStep ==
    ASSUME TypeOK, [Next]_vars
    PROVE  \/ UNCHANGED batch
           \/ ApplyClear
           \/ \E k \in Key, c \in Content :
                 /\ k # EmptyKey
                 /\ batch' = [batch EXCEPT ![ShardOf[k]][k] = c]
BY DEF Next, vars, MainSteps, OpenCall, OpenShard, OpenFails, OpenReturns, Opened, ApplyShard,
       ApplyFails, Get, Put, Del,
       WriteOp, KeySteps, AssignBegin, AssignEnd, CheckStatus, RaceCrash, PutBatch, DelBatch,
       BatchOp, ApplyBatch, Delete, Content

(* A batched write stays in the shard of its key.                          *)
LEMMA BatchInItsShardStep == TypeOK /\ BatchInItsShard /\ [Next]_vars => BatchInItsShard'
<1> SUFFICES ASSUME TypeOK, BatchInItsShard, [Next]_vars,
                    NEW s \in Shard, NEW k \in Key, batch'[s][k] # None
             PROVE  ShardOf[k] = s /\ k # EmptyKey
  BY DEF BatchInItsShard
<1>1. CASE UNCHANGED batch
  BY <1>1 DEF BatchInItsShard
<1>2. CASE ApplyClear
  BY <1>2 DEF ApplyClear
<1>3. ASSUME NEW k2 \in Key, NEW c \in Content, k2 # EmptyKey,
             batch' = [batch EXCEPT ![ShardOf[k2]][k2] = c]
      PROVE  ShardOf[k] = s /\ k # EmptyKey
  <2>1. CASE s = ShardOf[k2] /\ k = k2
    BY <1>3, <2>1
  <2>2. CASE ~(s = ShardOf[k2] /\ k = k2)
    <3>1. batch'[s][k] = batch[s][k]
      BY <1>3, <2>2, ShardAssumption DEF TypeOK, Shard
    <3> QED
      BY <3>1 DEF BatchInItsShard
  <2> QED
    BY <2>1, <2>2
<1> QED
  BY <1>1, <1>2, <1>3, BatchStep

(* No engine is called outside the vector, and every batched write waits   *)
(* in the batch applyBatch will write for its key.                         *)
LEMMA InvHolds == Spec => []Inv
<1>1. Init => Inv
  <2>1. Init => TypeOK
    BY ShardAssumption, NameAssumption
       DEF Init, TypeOK, Shard, Content, Status, Idle, KeyCall, Loop, Reply, NoReply
  <2>2. Init => LifeInv
    BY DEF Init, LifeInv
  <2>3. Init => BatchInItsShard
    BY DEF Init, BatchInItsShard
  <2> QED
    BY <2>1, <2>2, <2>3 DEF Inv
<1>2. Inv /\ [Next]_vars => Inv'
  BY TypeStep, LifeStep, BatchInItsShardStep DEF Inv
<1> QED
  BY <1>1, <1>2, PTL DEF Spec

(* Every index into _dbs that get, put and del compute is inside it.       *)
THEOREM IndicesInRange == Spec => []OnlyOpenedShards
<1>1. Inv => OnlyOpenedShards
  <2> SUFFICES ASSUME Inv, NEW t \in Thread, call[t].op \in {"get", "put", "del"}
               PROVE  ShardOf[call[t].key] < dbs
    BY DEF OnlyOpenedShards
  <2>1. call[t] \in KeyCall /\ ShardOf[call[t].key] \in Shard
    <3>1. InKeyCall(t, call[t].at)
      BY DEF InKeyCall
    <3> QED
      BY <3>1, InKeyCallType DEF Inv, TypeOK, Calls
  <2>2. dbs = NumShards
    BY <2>1 DEF Inv, LifeInv, KeyCall, Idle
  <2> QED
    BY <2>1, <2>2, ShardAssumption DEF Shard
<1> QED
  BY <1>1, InvHolds, PTL

-----------------------------------------------------------------------------
(* The adapter, whatever its threads do, stores and batches as StateDBSpec *)
(* says: a step maps to a step of that specification or to a stutter.      *)

(* What is pending of a key is what the batch of its own shard has of it.  *)
LEMMA PendingIsBatch ==
    ASSUME TypeOK, BatchInItsShard, NEW s \in Shard, NEW k \in Key
    PROVE  batch[s][k] # None <=> pending[k] # None /\ ShardOf[k] = s
BY DEF BatchInItsShard, pending

(* Steps that leave the store, the batches and applyBatch's loop alone.    *)
LEMMA Stutters ==
    ASSUME UNCHANGED <<store, batch, loop>>
    PROVE  UNCHANGED Stored!vars
BY DEF Stored!vars, pending, flushed

(* Outside applyBatch nothing counts as flushed.                           *)
LEMMA NothingFlushed ==
    ASSUME TypeOK, loop.op # "apply" \/ loop.shard = 0
    PROVE  flushed = {}
BY ShardAssumption DEF flushed, TypeOK

(* What a step does to what is stored and batched: a call that takes       *)
(* effect, or one shard's part of applyBatch.                              *)
Effect ==
    \/ \E k \in Key, c \in Content : Stored!Write(k, c) \/ Stored!Batch(k, c)
    \/ Stored!ApplyFails \/ Stored!ApplyReturnsTrue

Flushes == ApplyShard /\ \E S \in SUBSET Stored!Batched : Stored!Flush(S)

(* Every step has one of these effects, or none.                           *)
LEMMA Effects ==
    ASSUME Inv, [Next]_vars
    PROVE  Effect \/ Flushes \/ UNCHANGED Stored!vars
<1> USE DEF Inv
<1>1. CASE OpenCall
  <2>1. flushed = {} /\ flushed' = {}
    BY <1>1 DEF OpenCall, Free, At, flushed
  <2> QED
    BY <1>1, <2>1 DEF OpenCall, Stored!vars, pending
<1>2. CASE OpenShard
  <2>1. flushed = {} /\ flushed' = {}
    BY <1>2 DEF OpenShard, At, flushed
  <2> QED
    BY <1>2, <2>1 DEF OpenShard, Stored!vars, pending
<1>2f. CASE OpenFails
  <2>1. flushed = {} /\ flushed' = {}
    BY <1>2f DEF OpenFails, LoopReturns, At, flushed
  <2> QED
    BY <1>2f, <2>1 DEF OpenFails, Stored!vars, pending
<1>3. CASE OpenReturns
  <2>1. flushed = {} /\ flushed' = {}
    BY <1>3 DEF OpenReturns, LoopReturns, At, flushed
  <2> QED
    BY <1>3, <2>1 DEF OpenReturns, Stored!vars, pending
<1>4. CASE Opened
  BY <1>4, Stutters DEF Opened
<1>5. CASE ApplyShard
  <2> DEFINE S == {k \in Key : pending[k] # None /\ ShardOf[k] = loop.shard}
  <2>0. loop.shard \in Shard
    BY <1>5, ShardAssumption DEF ApplyShard, TypeOK, Loop, Shard
  <2>1. UNCHANGED pending
    BY <1>5 DEF ApplyShard, pending
  <2>2. store' = WriteBatch(loop.shard) /\ loop'.shard = loop.shard + 1
    BY <1>5 DEF ApplyShard, At
  <2>3. store' = [k \in Key |-> IF k \in S THEN pending[k] ELSE store[k]]
    BY <2>0, <2>2, PendingIsBatch DEF WriteBatch, pending
  <2>4. flushed' = flushed \cup S
    <3>1. \A k \in Key : ShardOf[k] \in Int /\ loop.shard \in Int
      BY <2>0, ShardAssumption DEF Shard
    <3>2. \A k \in Key : ShardOf[k] < loop.shard + 1 <=> ShardOf[k] < loop.shard \/ ShardOf[k] = loop.shard
      BY <3>1
    <3>3. loop.op = "apply" /\ loop'.op = "apply"
      BY <1>5 DEF ApplyShard, At
    <3> QED
      BY <2>1, <2>2, <3>2, <3>3 DEF flushed
  <2>5. S \in SUBSET Stored!Batched
    BY DEF Stored!Batched
  <2>6. Stored!Flush(S)
    BY <2>1, <2>3, <2>4 DEF Stored!Flush
  <2> QED
    BY <1>5, <2>5, <2>6 DEF Flushes
<1>6. CASE ApplyFails
  <2>1. store' = store /\ UNCHANGED pending /\ flushed' = {}
    BY <1>6 DEF ApplyFails, LoopReturns, At, pending, flushed
  <2>2. Stored!ApplyFails
    BY <2>1 DEF Stored!ApplyFails
  <2> QED
    BY <2>2 DEF Effect
<1>7. CASE ApplyClear
  <2>1. flushed = Stored!Batched
    <3>1. dbs = NumShards
      BY <1>7 DEF ApplyClear, LifeInv
    <3> QED
      BY <1>7, <3>1, ShardAssumption DEF ApplyClear, flushed, Stored!Batched
  <2>2. pending' = [k \in Key |-> None] /\ flushed' = {} /\ UNCHANGED store
    BY <1>7, ShardAssumption DEF ApplyClear, LoopReturns, At, pending, flushed, Shard
  <2>3. Stored!ApplyReturnsTrue
    BY <2>1, <2>2 DEF Stored!ApplyReturnsTrue
  <2> QED
    BY <2>3 DEF Effect
<1>8. ASSUME NEW t \in Thread, NEW k \in Key, Get(t, k) PROVE UNCHANGED Stored!vars
  BY <1>8, Stutters DEF Get
<1>9. ASSUME NEW t \in Thread, NEW op, NEW k \in Key, NEW c \in Content, WriteOp(t, op, k, c)
      PROVE  Effect \/ UNCHANGED Stored!vars
  <2>1. UNCHANGED <<batch, loop>> /\ (UNCHANGED store \/ store' = [store EXCEPT ![k] = c])
    BY <1>9 DEF WriteOp
  <2>2. UNCHANGED <<pending, flushed>>
    BY <2>1 DEF pending, flushed
  <2>3. CASE UNCHANGED store
    BY <2>1, <2>3, Stutters
  <2>4. CASE store' = [store EXCEPT ![k] = c]
    <3>1. Stored!Write(k, c)
      BY <2>2, <2>4 DEF Stored!Write
    <3> QED
      BY <3>1 DEF Effect
  <2> QED
    BY <2>1, <2>3, <2>4
<1>10. ASSUME NEW t \in Thread, KeySteps(t) PROVE UNCHANGED Stored!vars
  <2>1. UNCHANGED <<store, batch, loop>>
    BY <1>10 DEF KeySteps, AssignBegin, AssignEnd, CheckStatus
  <2> QED
    BY <2>1, Stutters
<1>11. CASE RaceCrash
  BY <1>11, Stutters DEF RaceCrash
<1>12. ASSUME NEW k \in Key, NEW c \in Content, BatchOp(k, c)
       PROVE  Effect \/ UNCHANGED Stored!vars
  <2>1. CASE k = EmptyKey
    BY <1>12, <2>1, Stutters DEF BatchOp
  <2>2. CASE k # EmptyKey
    <3>1. flushed = {} /\ flushed' = {}
      BY <1>12 DEF BatchOp, Free, flushed
    <3>2. pending' = [pending EXCEPT ![k] = c]
      <4>1. batch' = [batch EXCEPT ![ShardOf[k]][k] = c]
        BY <1>12, <2>2 DEF BatchOp
      <4>2. \A k2 \in Key : batch'[ShardOf[k2]][k2] = IF k2 = k THEN c ELSE batch[ShardOf[k2]][k2]
        BY <4>1, ShardAssumption DEF TypeOK, Shard
      <4> QED
        BY <4>2 DEF pending
    <3>3. Stored!Batch(k, c)
      BY <1>12, <3>1, <3>2 DEF BatchOp, Stored!Batch
    <3> QED
      BY <3>3 DEF Effect
  <2> QED
    BY <2>1, <2>2
<1>13. CASE ApplyBatch
  <2>1. flushed = {} /\ flushed' = {}
    BY <1>13, ShardAssumption DEF ApplyBatch, Free, At, flushed
  <2> QED
    BY <1>13, <2>1 DEF ApplyBatch, Stored!vars, pending
<1>14. CASE Delete
  BY <1>14, Stutters DEF Delete
<1>15. CASE UNCHANGED vars
  BY <1>15, Stutters DEF vars
<1> QED
  BY <1>1, <1>2, <1>2f, <1>3, <1>4, <1>5, <1>6, <1>7, <1>8, <1>9, <1>10, <1>11, <1>12, <1>13,
     <1>14, <1>15, NameAssumption
     DEF Next, MainSteps, Put, Del, PutBatch, DelBatch, Content

(* Every step is one of the contract's, or changes nothing it is about.    *)
LEMMA RefinementStep ==
    ASSUME Inv, [Next]_vars
    PROVE  [Stored!Next]_(Stored!vars)
BY Effects DEF Effect, Flushes, Stored!Next, Stored!Content, Content

(* Every behaviour of the adapter is a behaviour of StateDBSpec as to what *)
(* is stored, what is batched, and when an applyBatch returns true.        *)
THEOREM StoresLikeStateDB == Spec => ImplementsStoring
<1>1. Init => Stored!Init
  BY ShardAssumption DEF Init, Stored!Init, Stored!Content, Content, pending, flushed, Shard
<1>2. Inv /\ [Next]_vars => [Stored!Next]_(Stored!vars)
  BY RefinementStep
<1> QED
  BY <1>1, <1>2, InvHolds, PTL DEF Spec, ImplementsStoring, Stored!Spec

-----------------------------------------------------------------------------
(* Used by one thread: what a get answers.                                 *)

Busy == call[Main] # Idle

(* The value found is that of the store from the call on the engine to the *)
(* end, and the status tested is the one this call was answered with.      *)
Solo ==
    threads = {Main} =>
       /\ \A t \in Thread \ {Main} : call[t] = Idle
       /\ Busy => loop.op = "none"
       /\ Busy /\ call[Main].op = "get" =>
             /\ call[Main].outcome = "ok" => buffer = store[call[Main].key]
             /\ call[Main].outcome = "NotFound" => store[call[Main].key] = Absent
             /\ call[Main].outcome = "error" => EngineErrors
       /\ Busy /\ call[Main].at = "assigned" =>
             status[ShardOf[call[Main].key]] = call[Main].outcome

(* A thread inside a get, put or del is not idle.                          *)
LEMMA InKeyCallBusy == ASSUME NEW t, NEW at, InKeyCall(t, at) PROVE call[t] # Idle
BY DEF InKeyCall, Idle

(* Main enters a call: what the engine answered holds of the store.        *)
LEMMA CallSolo ==
    ASSUME TypeOK, Solo, threads = {Main}, threads' = threads, loop' = loop, loop.op = "none",
           NEW op, NEW k \in Key, NEW outcome, CallEngine(Main, op, k, outcome),
           op = "get" => /\ outcome = "ok" => buffer' = store'[k]
                         /\ outcome = "NotFound" => store'[k] = Absent
                         /\ outcome = "error" => EngineErrors
    PROVE  Solo'
<1> DEFINE c == [op |-> op, key |-> k, outcome |-> outcome, at |-> "called"]
<1>1. call' = [call EXCEPT ![Main] = c] /\ call \in [Thread -> Calls]
  BY DEF CallEngine, Enter, TypeOK, Calls
<1>2. c.op = op /\ c.key = k /\ c.outcome = outcome /\ c.at = "called"
  OBVIOUS
<1> HIDE DEF c
<1>3. call'[Main] = c /\ \A t \in Thread \ {Main} : call'[t] = call[t]
  BY <1>1, NameAssumption
<1> QED
  BY <1>2, <1>3 DEF Solo, Busy

(* A thread on its own keeps to itself what it found.                      *)
LEMMA SoloStep == Inv /\ Solo /\ [Next]_vars => Solo'
<1> SUFFICES ASSUME Inv, Solo, [Next]_vars PROVE Solo'
  OBVIOUS
<1> USE NameAssumption
<1>1. TypeOK /\ LifeInv
  BY DEF Inv
<1>2. CASE threads' # {Main}
  BY <1>2 DEF Solo
<1>3. CASE threads' = {Main}
  <2>1. threads = {Main}
    BY <1>3 DEF Next, vars, MainSteps, OpenCall, OpenShard, OpenFails, OpenReturns, Opened, ApplyShard,
       ApplyFails, ApplyClear, Get, Put, Del, WriteOp, KeySteps, AssignBegin, AssignEnd, CheckStatus,
       RaceCrash, PutBatch, DelBatch, BatchOp, ApplyBatch, Delete
  <2>2. CASE UNCHANGED <<call, loop, store, status, buffer>>
    BY <2>1, <2>2, <1>3 DEF Solo, Busy
  <2>3. CASE ~Busy /\ UNCHANGED call
    BY <2>1, <2>3, <1>3 DEF Solo, Busy
  <2>4. CASE OpenCall \/ ApplyBatch
    BY <2>3, <2>4 DEF OpenCall, ApplyBatch, Free, Busy
  <2>5. CASE MainSteps
    <3>1. CASE Opened
      BY <2>2, <3>1 DEF Opened
    <3>2. CASE ~Opened
      BY <2>1, <2>3, <2>5, <3>2 DEF MainSteps, OpenShard, OpenFails, OpenReturns, ApplyShard, ApplyFails,
         ApplyClear, Solo
    <3> QED
      BY <3>1, <3>2
  <2>6. ASSUME NEW t \in Thread, NEW k \in Key, Get(t, k) PROVE Solo'
    <3>1. t = Main /\ loop.op = "none" /\ loop' = loop /\ store' = store /\ threads' = threads
      BY <2>1, <2>6 DEF Get, Free
    <3>2. CASE store[k] # Absent /\ buffer' = store[k] /\ CallEngine(Main, "get", k, "ok")
      BY <1>1, <2>1, <3>1, <3>2, CallSolo
    <3>3. CASE store[k] = Absent /\ CallEngine(Main, "get", k, "NotFound")
      BY <1>1, <2>1, <3>1, <3>3, CallSolo
    <3>4. CASE EngineErrors /\ CallEngine(Main, "get", k, "error")
      BY <1>1, <2>1, <3>1, <3>4, CallSolo
    <3> QED
      BY <2>6, <3>1, <3>2, <3>3, <3>4 DEF Get
  <2>7. ASSUME NEW t \in Thread, NEW op \in {"put", "del"}, NEW k \in Key, NEW c, WriteOp(t, op, k, c)
        PROVE  Solo'
    <3>1. t = Main /\ loop.op = "none" /\ UNCHANGED <<loop, threads, status, buffer>> /\ ~Busy
      BY <2>1, <2>7 DEF WriteOp, Free, Busy
    <3>2. CASE UNCHANGED call
      BY <2>3, <3>1, <3>2
    <3>3. ASSUME NEW outcome, CallEngine(Main, op, k, outcome) PROVE Solo'
      BY <1>1, <2>1, <3>1, <3>3, CallSolo
    <3> QED
      BY <2>7, <3>1, <3>2, <3>3 DEF WriteOp
  <2>8. ASSUME NEW t \in Thread, KeySteps(t) PROVE Solo'
    <3>1. t = Main /\ Busy /\ call[Main] \in KeyCall /\ ShardOf[call[Main].key] \in Shard
          /\ call \in [Thread -> Calls]
      <4>1. PICK at : InKeyCall(t, at)
        BY <2>8 DEF KeySteps, AssignBegin, AssignEnd, CheckStatus
      <4>2. t = Main
        BY <2>1, <4>1, InKeyCallBusy DEF Solo
      <4> QED
        BY <1>1, <4>1, <4>2, InKeyCallBusy, InKeyCallType DEF TypeOK, Calls, Busy
    <3>2. CASE AssignBegin(t) \/ AssignEnd(t)
      <4>1. PICK at : /\ call' = [call EXCEPT ![Main].at = at]
                      /\ at = "assigned" => status' = [status EXCEPT ![ShardOf[call[Main].key]] = call[Main].outcome]
        BY <3>1, <3>2 DEF AssignBegin, AssignEnd
      <4>2. /\ call'[Main] = [call[Main] EXCEPT !.at = at]
            /\ \A u \in Thread \ {Main} : call'[u] = call[u]
        BY <3>1, <4>1
      <4>3. /\ call'[Main].op = call[Main].op /\ call'[Main].key = call[Main].key
            /\ call'[Main].outcome = call[Main].outcome /\ call'[Main].at = at
        BY <3>1, <4>2 DEF KeyCall
      <4>4. UNCHANGED <<loop, store, buffer>>
        BY <3>2 DEF AssignBegin, AssignEnd
      <4>5. at = "assigned" => status'[ShardOf[call[Main].key]] = call[Main].outcome
        BY <1>1, <3>1, <4>1 DEF TypeOK
      <4> QED
        BY <2>1, <3>1, <4>2, <4>3, <4>4, <4>5 DEF Solo, Busy
    <3>3. CASE CheckStatus(t)
      <4>1. call' = [call EXCEPT ![Main] = Idle]
        BY <3>1, <3>3 DEF CheckStatus, Enter
      <4>2. call'[Main] = Idle /\ \A u \in Thread \ {Main} : call'[u] = call[u]
        BY <3>1, <4>1
      <4> QED
        BY <2>1, <4>2 DEF Solo, Busy
    <3> QED
      BY <2>8, <3>2, <3>3 DEF KeySteps
  <2>9. CASE RaceCrash \/ Delete \/ UNCHANGED vars
    BY <2>2, <2>9 DEF RaceCrash, Delete, vars
  <2>10. ASSUME NEW k \in Key, NEW c, BatchOp(k, c) PROVE Solo'
    BY <2>2, <2>10 DEF BatchOp
  <2> QED
    BY <2>4, <2>5, <2>6, <2>7, <2>8, <2>9, <2>10 DEF Next, Put, Del, PutBatch, DelBatch
<1> QED
  BY <1>2, <1>3

(* What the contract is told was answered.                                 *)
Told == IF threads = {Main} THEN answer ELSE None

(* A step answers nothing, leaves everything, or is the end of a get, which*)
(* returns what the store holds or meets an error.                         *)
LEMMA Answers ==
    ASSUME Inv, Solo, [Next]_vars, threads = {Main}
    PROVE  \/ answer' = None /\ (ApplyShard => answer = None)
           \/ UNCHANGED <<answer, store, batch, loop>>
           \/ /\ UNCHANGED <<store, batch, loop>>
              /\ \E k \in Key : \/ answer' = <<k, store[k]>>
                                \/ EngineErrors /\ answer' = <<k, Absent>>
<1> DEFINE Goal == \/ answer' = None /\ (ApplyShard => answer = None)
                   \/ UNCHANGED <<answer, store, batch, loop>>
                   \/ /\ UNCHANGED <<store, batch, loop>>
                      /\ \E k \in Key : \/ answer' = <<k, store[k]>>
                                        \/ EngineErrors /\ answer' = <<k, Absent>>
<1> USE NameAssumption
<1>1. TypeOK /\ call \in [Thread -> Calls]
  BY DEF Inv, TypeOK, Calls
<1>2. ApplyShard => answer = None
  BY DEF ApplyShard, answer, Free
<1>3. CASE result'.key = None
  BY <1>2, <1>3 DEF answer
<1>4. CASE loop'.op # "none"
  BY <1>2, <1>4 DEF answer, Free
<1>5. CASE call'[Main] # Idle
  BY <1>2, <1>5 DEF answer, Free
<1>6. CASE UNCHANGED <<call, loop, result, buffer, store, batch>>
  BY <1>6 DEF answer, Free
<1>7. CASE OpenCall \/ MainSteps \/ ApplyBatch
  <2>1. CASE OpenCall \/ OpenShard \/ ApplyBatch \/ ApplyShard
    BY <1>4, <2>1 DEF OpenCall, OpenShard, ApplyBatch, ApplyShard, At
  <2>2. CASE OpenFails \/ OpenReturns \/ Opened \/ ApplyFails \/ ApplyClear
    BY <1>3, <2>2 DEF OpenFails, OpenReturns, Opened, ApplyFails, ApplyClear, LoopReturns, Answer
  <2> QED
    BY <1>7, <2>1, <2>2 DEF MainSteps
<1>8. ASSUME NEW t \in Thread, NEW k \in Key, Get(t, k) PROVE result'.key = None
  BY <1>8 DEF Get, Begin, NoReply
<1>9. ASSUME NEW t \in Thread, NEW op, NEW k \in Key, NEW c, WriteOp(t, op, k, c)
      PROVE  result'.key = None
  BY <1>9 DEF WriteOp, Begin, NoReply, Answer
<1>10. ASSUME NEW k \in Key, NEW c, BatchOp(k, c) PROVE result'.key = None
  BY <1>10 DEF BatchOp, Answer
<1>11. ASSUME NEW t \in Thread, AssignBegin(t) \/ AssignEnd(t) PROVE Goal
  <2>1. PICK at : InKeyCall(t, at)
    BY <1>11 DEF AssignBegin, AssignEnd
  <2>2. t = Main /\ Busy
    BY <2>1, InKeyCallBusy DEF Solo, Busy
  <2>3. call[Main] \in KeyCall
    BY <1>1, <2>1, <2>2, InKeyCallType
  <2>4. \E a : call' = [call EXCEPT ![Main].at = a]
    BY <1>11, <2>2 DEF AssignBegin, AssignEnd
  <2>5. call'[Main].op = call[Main].op
    BY <1>1, <2>3, <2>4 DEF KeyCall
  <2>6. call'[Main] # Idle
    BY <2>3, <2>5 DEF KeyCall, Idle
  <2> QED
    BY <1>5, <2>6
<1>12. ASSUME NEW t \in Thread, CheckStatus(t) PROVE Goal
  <2>1. t = Main /\ InKeyCall(Main, "assigned") /\ Busy
    BY <1>12, InKeyCallBusy DEF CheckStatus, Solo, Busy
  <2>2. /\ call[Main] \in KeyCall /\ call[Main].key \in Key /\ call[Main].outcome \in Status
        /\ ShardOf[call[Main].key] \in Shard
    BY <1>1, <2>1, InKeyCallType
  <2>3. CASE call[Main].op # "get"
    BY <1>3, <1>12, <2>1, <2>3 DEF CheckStatus, Answer
  <2>4. CASE call[Main].op = "get"
    <3> DEFINE k == call[Main].key
    <3>1. /\ result' = [key |-> k, ok |-> status[ShardOf[k]] = "ok"]
          /\ UNCHANGED <<store, batch, loop, buffer>> /\ call'[Main] = Idle
      BY <1>1, <1>12, <2>1, <2>4 DEF CheckStatus, Answer, Enter
    <3>2. /\ status[ShardOf[k]] = call[Main].outcome /\ loop.op = "none"
          /\ call[Main].outcome = "ok" => buffer = store[k]
          /\ call[Main].outcome = "NotFound" => store[k] = Absent
          /\ call[Main].outcome = "error" => EngineErrors
      BY <2>1, <2>4 DEF Solo, InKeyCall
    <3>3. answer' = IF k # None THEN <<k, IF status[ShardOf[k]] = "ok" THEN buffer ELSE Absent>> ELSE None
      BY <3>1, <3>2 DEF answer, Free
    <3>4. CASE k = None
      BY <1>2, <3>3, <3>4
    <3>5. CASE k # None
      <4>1. answer' = <<k, store[k]>> \/ (EngineErrors /\ answer' = <<k, Absent>>)
        BY <2>2, <3>2, <3>3, <3>5 DEF Status
      <4> QED
        BY <2>2, <3>1, <4>1
    <3> QED
      BY <3>4, <3>5
  <2> QED
    BY <2>3, <2>4
<1>13. CASE RaceCrash \/ Delete \/ UNCHANGED vars
  BY <1>6, <1>13 DEF RaceCrash, Delete, vars
<1> QED
  BY <1>3, <1>7, <1>8, <1>9, <1>10, <1>11, <1>12, <1>13 DEF Next, Put, Del, PutBatch, DelBatch, KeySteps

(* Every step is one of the contract's, answers included.                  *)
LEMMA AnsweringStep ==
    ASSUME Inv, Solo, [Next]_vars
    PROVE  [StateDB!Next]_(StateDB!vars)
<1>1. threads' = threads
  BY DEF Next, vars, MainSteps, OpenCall, OpenShard, OpenFails, OpenReturns, Opened, ApplyShard,
     ApplyFails, ApplyClear, Get, Put, Del, WriteOp, KeySteps, AssignBegin, AssignEnd, CheckStatus,
     RaceCrash, PutBatch, DelBatch, BatchOp, ApplyBatch, Delete
<1>2. Effect \/ Flushes \/ UNCHANGED Stored!vars
  BY Effects
<1>3. Effect /\ Told' = None => StateDB!Next
  BY DEF Effect, Told, StateDB!Next, StateDB!Write, StateDB!Batch, StateDB!ApplyFails,
     StateDB!ApplyReturnsTrue, Stored!Write, Stored!Batch, Stored!ApplyFails,
     Stored!ApplyReturnsTrue, StateDB!Batched, Stored!Batched, StateDB!Content, Content
<1>4. Flushes /\ Told' = Told => StateDB!Next
  BY DEF Flushes, Told, StateDB!Next, StateDB!Flush, Stored!Flush, StateDB!Batched, Stored!Batched
<1>5. UNCHANGED Stored!vars /\ Told' = Told => UNCHANGED StateDB!vars
  BY DEF Told, StateDB!vars, Stored!vars
<1>6. UNCHANGED Stored!vars /\ Told' = None => StateDB!Next
  BY DEF Told, StateDB!Next, StateDB!NoEffect, Stored!vars
<1>7. CASE threads # {Main}
  <2>1. Told = None /\ Told' = None
    BY <1>1, <1>7 DEF Told
  <2> QED
    BY <1>2, <1>3, <1>4, <1>5, <2>1
<1>8. CASE threads = {Main}
  <2>1. Told = answer /\ Told' = answer'
    BY <1>1, <1>8 DEF Told
  <2>2. CASE answer' = None /\ (ApplyShard => answer = None)
    BY <1>2, <1>3, <1>4, <1>6, <2>1, <2>2 DEF Flushes
  <2>3. CASE UNCHANGED <<answer, store, batch, loop>>
    <3>1. UNCHANGED Stored!vars
      BY <2>3, Stutters
    <3> QED
      BY <1>5, <2>1, <2>3, <3>1
  <2>4. ASSUME UNCHANGED <<store, batch, loop>>, NEW k \in Key,
               answer' = <<k, store[k]>> \/ (EngineErrors /\ answer' = <<k, Absent>>)
        PROVE  StateDB!Next
    <3>1. UNCHANGED Stored!vars
      BY <2>4, Stutters
    <3>2. StateDB!Get(k)
      BY <2>1, <2>4, <3>1 DEF StateDB!Get, Stored!vars, Told
    <3> QED
      BY <3>2 DEF StateDB!Next
  <2> QED
    BY <1>8, <2>2, <2>3, <2>4, Answers
<1> QED
  BY <1>7, <1>8

(* LevelDB and RocksDB, used by one thread, are a StateDB: what a get      *)
(* answers is what the store holds, whatever engine failed before.         *)
THEOREM AnswersLikeStateDB == Spec => ImplementsStateDB
<1>1. Init => StateDB!Init
  BY ShardAssumption DEF Init, StateDB!Init, StateDB!Content, Content, pending, flushed, Shard,
     answer, NoReply
<1>2. Init => Solo
  BY NameAssumption DEF Init, Solo, Busy
<1>3. Spec => []Solo
  BY <1>2, InvHolds, SoloStep, PTL DEF Spec
<1> QED
  BY <1>1, <1>3, InvHolds, AnsweringStep, PTL DEF Spec, ImplementsStateDB, StateDB!Spec
=============================================================================

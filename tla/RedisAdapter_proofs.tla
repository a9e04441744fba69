------------------------ MODULE RedisAdapter_proofs ------------------------
(***************************************************************************)
(* Proofs about RedisAdapter, for any number of threads, keys and values.  *)
(***************************************************************************)
EXTENDS RedisAdapter, TLAPS

Inv == TypeOK /\ HoldsMutex

(* A thread between lock() and unlock() is inside a well-typed call.       *)
LEMMA AtType ==
    ASSUME TypeOK, NEW t \in Thread, NEW at, At(t, at)
    PROVE  /\ call[t] \in Call /\ call[t].at = at
           /\ call[t].key \in Key /\ call[t].val \in Content
BY DEF TypeOK, At, Call

(* A call that moves on stays well-typed.                                  *)
LEMMA AdvanceType ==
    ASSUME TypeOK, NEW t \in Thread, call[t] \in Call,
           NEW at \in {"lock", "command", "unlock"},
           call' = [call EXCEPT ![t].at = at]
    PROVE  /\ call' \in [Thread -> {Idle} \cup Call]
           /\ call'[t] \in Call /\ call'[t].at = at
           /\ call'[t].op = call[t].op /\ call'[t].key = call[t].key /\ call'[t].val = call[t].val
           /\ \A u \in Thread \ {t} : call'[u] = call[u]
<1>1. [call[t] EXCEPT !.at = at] \in Call
  BY DEF Call
<1>2. call' = [call EXCEPT ![t] = [call[t] EXCEPT !.at = at]]
  OBVIOUS
<1> QED
  BY <1>1, <1>2 DEF TypeOK, Call

(* Idle is no call in progress.                                            *)
LEMMA IdleIsNoCall == Idle \notin Call
BY DEF Idle, Call

(* What each kind of step does to the calls and to the mutex.              *)
LEMMA InvStep == Inv /\ [Next]_vars => Inv'
<1> SUFFICES ASSUME Inv, [Next]_vars PROVE Inv'
  OBVIOUS
<1> USE DEF Inv
<1>1. CASE Open
  BY <1>1 DEF Open, TypeOK, HoldsMutex
<1>2. ASSUME NEW t \in Thread, NEW op \in {"get", "put", "del", "clear"}, NEW k \in Key,
             NEW c \in Content, Start(t, op, k, c)
      PROVE  Inv'
  <2> DEFINE new == [op |-> op, key |-> k, val |-> c, at |-> "lock"]
  <2>1. new \in Call /\ new.at = "lock" /\ new # Idle
    BY DEF Call, Idle
  <2>2. call' = [call EXCEPT ![t] = new] /\ UNCHANGED <<phase, store, mtx>> /\ call[t] = Idle
    BY <1>2 DEF Start
  <2> HIDE DEF new
  <2>3. TypeOK'
    BY <2>1, <2>2 DEF TypeOK
  <2>4. HoldsMutex'
    BY <2>1, <2>2 DEF TypeOK, HoldsMutex
  <2> QED
    BY <2>3, <2>4
<1>3. ASSUME NEW t \in Thread, Lock(t) PROVE Inv'
  <2>1. call[t] \in Call /\ mtx = None /\ mtx' = t /\ UNCHANGED <<phase, store>>
        /\ call' = [call EXCEPT ![t].at = "command"]
    BY <1>3, AtType DEF Lock
  <2>2. TypeOK'
    BY <2>1, AdvanceType DEF TypeOK
  <2>3. HoldsMutex'
    <3>1. /\ call'[t] \in Call /\ call'[t].at = "command"
          /\ \A u \in Thread \ {t} : call'[u] = call[u]
      BY <2>1, AdvanceType
    <3> QED
      BY <2>1, <3>1, IdleIsNoCall, NameAssumption DEF HoldsMutex
  <2> QED
    BY <2>2, <2>3
<1>4. ASSUME NEW t \in Thread, GetCommand(t) PROVE Inv'
  <2> DEFINE new == [call[t] EXCEPT !.at = "unlock", !.val = store[call[t].key]]
  <2>1. call[t] \in Call /\ call[t].key \in Key /\ call[t].at = "command"
    BY <1>4, AtType DEF GetCommand
  <2>2. new \in Call /\ new.at = "unlock"
    BY <2>1 DEF Call, TypeOK
  <2>3. call' = [call EXCEPT ![t] = new] /\ UNCHANGED <<phase, store, mtx>>
    BY <1>4 DEF GetCommand
  <2> HIDE DEF new
  <2>4. TypeOK'
    BY <2>2, <2>3 DEF TypeOK
  <2>5. HoldsMutex'
    BY <2>1, <2>2, <2>3, IdleIsNoCall DEF TypeOK, HoldsMutex
  <2> QED
    BY <2>4, <2>5
<1>5. ASSUME NEW t \in Thread, WriteCommand(t) \/ FlushAll(t) PROVE Inv'
  <2>1. call[t] \in Call /\ call[t].key \in Key /\ call[t].val \in Content /\ call[t].at = "command"
    BY <1>5, AtType DEF WriteCommand, FlushAll
  <2>2. call' = [call EXCEPT ![t].at = "unlock"] /\ UNCHANGED <<phase, mtx>>
    BY <1>5 DEF WriteCommand, FlushAll
  <2>3. store' \in [Key -> Content]
    BY <1>5, <2>1 DEF WriteCommand, FlushAll, TypeOK, Content
  <2>4. TypeOK'
    BY <2>1, <2>2, <2>3, AdvanceType DEF TypeOK
  <2>5. HoldsMutex'
    <3>1. /\ call'[t] \in Call /\ call'[t].at = "unlock"
          /\ \A u \in Thread \ {t} : call'[u] = call[u]
      BY <2>1, <2>2, AdvanceType
    <3> QED
      BY <2>1, <2>2, <3>1, IdleIsNoCall DEF HoldsMutex
  <2> QED
    BY <2>4, <2>5
<1>6. ASSUME NEW t \in Thread, Unlock(t) PROVE Inv'
  <2>1. call[t] \in Call /\ call[t].at = "unlock" /\ mtx' = None
        /\ call' = [call EXCEPT ![t] = Idle] /\ UNCHANGED <<phase, store>>
    BY <1>6, AtType DEF Unlock
  <2>2. TypeOK'
    BY <2>1 DEF TypeOK
  <2>3. mtx = t
    BY <2>1, IdleIsNoCall DEF HoldsMutex
  <2>4. HoldsMutex'
    BY <2>1, <2>3, NameAssumption DEF TypeOK, HoldsMutex
  <2> QED
    BY <2>2, <2>4
<1>7. ASSUME NEW t \in Thread, Throws(t) PROVE Inv'
  BY <1>7 DEF Throws, TypeOK, HoldsMutex
<1>8. CASE Delete
  BY <1>8 DEF Delete, TypeOK, HoldsMutex
<1>9. CASE UNCHANGED vars
  BY <1>9 DEF vars, TypeOK, HoldsMutex
<1> QED
  BY <1>1, <1>2, <1>3, <1>4, <1>5, <1>6, <1>7, <1>8, <1>9, NameAssumption
     DEF Next, Steps, Get, Put, Del, Clear, Content

(* The types and the mutex, at every step.                                 *)
LEMMA InvHolds == Spec => []Inv
<1>1. Init => Inv
  BY NameAssumption DEF Init, Inv, TypeOK, HoldsMutex, Idle
<1> QED
  BY <1>1, InvStep, PTL DEF Spec

(* The mutex is held by exactly the thread between lock() and unlock().    *)
THEOREM MutexIsHeld == Spec => []HoldsMutex
BY InvHolds, PTL DEF Inv

-----------------------------------------------------------------------------
(* The adapter implements StateDBSpec.                                     *)

(* Every step is one of the contract's, or changes nothing it is about.    *)
LEMMA RefinementStep ==
    ASSUME Inv, [Next]_vars
    PROVE  [StateDB!Next]_(StateDB!vars)
<1> USE DEF Inv
<1>1. CASE Open \/ Delete \/ UNCHANGED vars \/ \E t \in Thread : Throws(t)
  <2>1. UNCHANGED <<store, mtx, call>>
    BY <1>1 DEF Open, Delete, Throws, vars
  <2> QED
    BY <2>1 DEF StateDB!vars, answer
<1>2. ASSUME NEW t \in Thread, NEW op, NEW k, NEW c, Start(t, op, k, c)
      PROVE  UNCHANGED StateDB!vars
  <2>1. mtx # t
    BY <1>2 DEF Start, HoldsMutex
  <2>2. UNCHANGED answer
    <3>1. mtx # None => call'[mtx] = call[mtx]
      BY <1>2, <2>1 DEF Start, TypeOK
    <3> QED
      BY <1>2, <3>1 DEF Start, answer
  <2> QED
    BY <1>2, <2>2 DEF Start, StateDB!vars
<1>3. ASSUME NEW t \in Thread, Lock(t) PROVE UNCHANGED StateDB!vars
  <2>1. call[t] \in Call /\ call' = [call EXCEPT ![t].at = "command"] /\ mtx = None /\ mtx' = t
    BY <1>3, AtType DEF Lock
  <2>2. call'[t].at = "command"
    BY <2>1, AdvanceType
  <2>3. answer = None /\ answer' = None
    BY <2>1, <2>2 DEF answer
  <2> QED
    BY <1>3, <2>3 DEF Lock, StateDB!vars
<1>4. ASSUME NEW t \in Thread, GetCommand(t) PROVE StateDB!Next
  <2>1. call[t] \in Call /\ call[t].key \in Key /\ call[t].op = "get" /\ mtx = t
    BY <1>4, AtType, IdleIsNoCall DEF GetCommand, HoldsMutex
  <2>2. /\ call'[t].op = "get" /\ call'[t].at = "unlock"
        /\ call'[t].key = call[t].key /\ call'[t].val = store[call[t].key]
    BY <1>4, <2>1 DEF GetCommand, TypeOK, Call
  <2>3. answer' = <<call[t].key, store[call[t].key]>>
    BY <1>4, <2>1, <2>2, NameAssumption DEF GetCommand, answer
  <2>4. StateDB!Get(call[t].key)
    BY <1>4, <2>3 DEF GetCommand, StateDB!Get
  <2> QED
    BY <2>1, <2>4 DEF StateDB!Next
<1>5. ASSUME NEW t \in Thread, WriteCommand(t) \/ FlushAll(t) PROVE StateDB!Next
  <2>1. call[t] \in Call /\ call[t].key \in Key /\ call[t].val \in Content /\ call[t].op # "get"
    BY <1>5, AtType DEF WriteCommand, FlushAll
  <2>2. mtx = t /\ UNCHANGED mtx
    BY <1>5, AtType, IdleIsNoCall DEF WriteCommand, FlushAll, HoldsMutex
  <2>3. call'[t].op = call[t].op
    BY <1>5, <2>1, AdvanceType DEF WriteCommand, FlushAll
  <2>4. answer' = None
    BY <2>1, <2>2, <2>3 DEF answer
  <2>5. CASE WriteCommand(t)
    <3>1. StateDB!Write(call[t].key, call[t].val)
      BY <2>4, <2>5 DEF WriteCommand, StateDB!Write
    <3> QED
      BY <2>1, <3>1 DEF StateDB!Next, StateDB!Content, Content
  <2>6. CASE FlushAll(t)
    <3>1. StateDB!Clear
      BY <2>4, <2>6 DEF FlushAll, StateDB!Clear
    <3> QED
      BY <3>1 DEF StateDB!Next
  <2> QED
    BY <1>5, <2>5, <2>6
<1>6. ASSUME NEW t \in Thread, Unlock(t) PROVE StateDB!Next
  <2>1. answer' = None /\ UNCHANGED store
    BY <1>6 DEF Unlock, answer
  <2>2. StateDB!NoEffect
    BY <2>1 DEF StateDB!NoEffect
  <2> QED
    BY <2>2 DEF StateDB!Next
<1> QED
  BY <1>1, <1>2, <1>3, <1>4, <1>5, <1>6, NameAssumption
     DEF Next, Steps, Get, Put, Del, Clear, Content

(* Whatever its threads do, every behaviour of the adapter is one of the   *)
(* StateDB contract, answers of get included.                              *)
THEOREM RedisIsAStateDB == Spec => ImplementsStateDB
<1>1. Init => StateDB!Init
  BY DEF Init, StateDB!Init, StateDB!Content, Content, answer
<1> QED
  BY <1>1, InvHolds, RefinementStep, PTL DEF Spec, ImplementsStateDB, StateDB!Spec
=============================================================================

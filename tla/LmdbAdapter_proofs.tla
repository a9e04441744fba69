------------------------- MODULE LmdbAdapter_proofs -------------------------
(***************************************************************************)
(* Proofs about LmdbAdapter, for any number of threads, keys and values.   *)
(***************************************************************************)
EXTENDS LmdbAdapter, TLAPS

-----------------------------------------------------------------------------
(* The inductive invariant.                                                *)

InCall(t) == call[t].op \in KeyOps

(* The mutex is held by the thread that is between lock() and unlock().    *)
MutexInv ==
    /\ mtx # None => Locks(call[mtx].op) /\ call[mtx].at \in {"mdb", "in"}
    /\ \A t \in Thread : Locks(call[t].op) /\ call[t].at \in {"mdb", "in"} => mtx = t
    /\ \A t \in Thread : InCall(t) /\ call[t].at = "copy" => call[t].op = "get"
    /\ \A t \in Thread : InCall(t) /\ call[t].at = "lock" => Locks(call[t].op)

(* The main thread calls while no worker does; workers only get and put.   *)
CallersInv ==
    /\ ~Free(Main) => Alone(Main)
    /\ \A t \in Thread \ {Main} : call[t].op \in {"none", "get", "put"}
    /\ \A t \in Thread : ~Free(t) => t \in threads

AtBegin == call[Main].op = "apply" /\ call[Main].at = "begin"

(* A transaction that is over has left nothing pending, and applyBatch     *)
(* leaves none that is over unless LMDB meets an error.                    *)
HandleInv ==
    /\ handle \in {"spent", "freed"} => working = committed
    /\ AtBegin => handle = "spent"
    /\ phase = "new" => \A t \in Thread : Free(t)
    /\ phase = "open" /\ ~errors => handle = "live" \/ AtBegin
    /\ phase = "crashed" => errors \/ threads # {Main}

(* _key holds a key once it is filled, and a thread on its own finds in the*)
(* buffers what it put there.                                              *)
KeyFilled == keyBuf.owner # None => keyBuf.key \in Key

BuffersInv ==
    threads = {Main} /\ InCall(Main) =>
       /\ call[Main].raced = FALSE
       /\ call[Main].at # "key" => keyBuf = [owner |-> Main, key |-> call[Main].key]
       /\ call[Main].at \in {"in", "copy"} => call[Main].mdbKey = call[Main].key
       /\ call[Main].at = "copy" => dataBuf = [owner |-> Main, val |-> working[call[Main].key]]

Inv == TypeOK /\ MutexInv /\ CallersInv /\ HandleInv /\ KeyFilled /\ BuffersInv

-----------------------------------------------------------------------------
(* What each kind of step does to the calls.                               *)

(* The three kinds of record a thread's call can be, told apart by op.     *)
LEMMA CallKinds ==
    ASSUME TypeOK, NEW t \in Thread
    PROVE  /\ call[t].op \in KeyOps \cup {"apply", "none"}
           /\ InCall(t) => call[t] \in Call
           /\ call[t].op = "apply" => call[t] \in Apply
           /\ Free(t) <=> call[t].op = "none"
BY DEF TypeOK, InCall, Call, Apply, Idle, KeyOps, Free

(* The fields of a call on one key.                                        *)
LEMMA CallFields ==
    ASSUME NEW c \in Call
    PROVE  /\ c.op \in KeyOps /\ c.key \in Key /\ c.val \in Content /\ c.at \in Stage
           /\ c.mdbKey \in Key /\ c.mdbVal \in Content /\ c.raced \in BOOLEAN
           /\ c.op # "none" /\ c.op # "apply"
BY DEF Call, KeyOps

(* A call that moves on stays the call it was.                             *)
LEMMA Moves ==
    ASSUME TypeOK, NEW t \in Thread, InCall(t), NEW at \in Stage, Goto(t, at)
    PROVE  /\ call' \in [Thread -> {Idle} \cup Call \cup Apply]
           /\ call'[t] = [call[t] EXCEPT !.at = at] /\ call'[t] \in Call
           /\ call'[t].at = at /\ call'[t].op = call[t].op
           /\ call'[t].key = call[t].key /\ call'[t].mdbKey = call[t].mdbKey
           /\ call'[t].raced = call[t].raced
           /\ \A u \in Thread \ {t} : call'[u] = call[u]
<1> DEFINE c == [call[t] EXCEPT !.at = at]
<1>1. call[t] \in Call
  BY CallKinds
<1>2. c \in Call /\ c.at = at /\ c.op = call[t].op /\ c.key = call[t].key
      /\ c.mdbKey = call[t].mdbKey /\ c.raced = call[t].raced
  BY <1>1 DEF Call
<1>3. call' = [call EXCEPT ![t] = c]
  BY DEF Goto
<1> HIDE DEF c
<1>4. call'[t] = c /\ \A u \in Thread \ {t} : call'[u] = call[u]
  BY <1>3 DEF TypeOK
<1>5. call' \in [Thread -> {Idle} \cup Call \cup Apply]
  BY <1>2, <1>3 DEF TypeOK
<1>6. call'[t] = [call[t] EXCEPT !.at = at]
  BY <1>4 DEF c
<1> QED
  BY <1>2, <1>4, <1>5, <1>6

(* A thread whose call begins or ends.                                     *)
LEMMA Enters ==
    ASSUME TypeOK, NEW t \in Thread, NEW c \in {Idle} \cup Call \cup Apply, Enter(t, c)
    PROVE  /\ call' \in [Thread -> {Idle} \cup Call \cup Apply]
           /\ call'[t] = c
           /\ \A u \in Thread \ {t} : call'[u] = call[u]
BY DEF TypeOK, Enter

(* No call is none of them.                                                *)
LEMMA IdleOp == Idle.op = "none" /\ ~Locks(Idle.op) /\ Idle.op \notin KeyOps
BY DEF Idle, Locks, KeyOps

(* Whatever is answered is an answer.                                      *)
LEMMA AnswerTyped ==
    ASSUME TypeOK, NEW t, NEW k \in Key \cup {None}, NEW ok \in BOOLEAN, Answer(t, k, ok)
    PROVE  result' \in [key : Key \cup {None}, ok : BOOLEAN]
BY DEF TypeOK, Answer

-----------------------------------------------------------------------------
(* Every step keeps the invariant: one lemma per group of actions.         *)

(* open() makes a live transaction, before any call.                       *)
LEMMA OpenKeeps ==
    ASSUME Inv, Open \/ OpenFails
    PROVE  Inv'
<1> USE NameAssumption DEF Inv
<1>1. phase = "new" /\ phase' \in {"open", "failed"} /\ handle' \in {handle, "live"}
      /\ (phase' = "open" /\ handle' # "live" => errors)
      /\ UNCHANGED <<committed, working, shared, call, buffer, promised, mode>>
  BY DEF Open, OpenFails, db
<1>2. result' \in [key : Key \cup {None}, ok : BOOLEAN]
  BY AnswerTyped DEF Open, OpenFails
<1>3. TypeOK'
  BY <1>1, <1>2 DEF TypeOK, shared, mode
<1>4. MutexInv' /\ CallersInv' /\ KeyFilled' /\ BuffersInv'
  BY <1>1 DEF MutexInv, KeyFilled, CallersInv, BuffersInv, shared, mode, Free, Alone, InCall
<1>5. HandleInv'
  <2>1. ~AtBegin
    BY <1>1, IdleOp DEF HandleInv, AtBegin, Free, Idle
  <2> QED
    BY <1>1, <2>1 DEF HandleInv, mode, Free, AtBegin
<1> QED
  BY <1>3, <1>4, <1>5

(* A call begins.                                                          *)
LEMMA StartKeeps ==
    ASSUME Inv, NEW t \in Thread, NEW op \in KeyOps, NEW k \in Key, NEW c \in Content,
           Start(t, op, k, c)
    PROVE  Inv'
<1> USE NameAssumption DEF Inv
<1> DEFINE new == [op |-> op, key |-> k, val |-> c, at |-> "key",
                   mdbKey |-> k, mdbVal |-> c, raced |-> FALSE]
<1>1. new \in Call /\ new.op = op /\ new.at = "key" /\ new.raced = FALSE
  BY DEF Call, Stage
<1>2. Enter(t, new) /\ UNCHANGED <<phase, db, shared, buffer, promised, mode>> /\ Answer(t, None, FALSE)
  BY DEF Start
<1>3. MayStart(t, op)
  BY DEF Start
<1> HIDE DEF new
<1>4. /\ call' \in [Thread -> {Idle} \cup Call \cup Apply] /\ call'[t] = new
      /\ \A u \in Thread \ {t} : call'[u] = call[u]
  BY <1>1, <1>2, Enters
<1>5. new.op # "none" /\ new.op # "apply" /\ new # Idle
  BY <1>1, CallFields, IdleOp
<1>6. TypeOK'
  BY ZenonT(60), <1>2, <1>4, AnswerTyped DEF TypeOK, db, shared, mode
<1>7. MutexInv'
  <2>1. mtx # t
    BY <1>3, IdleOp DEF MutexInv, MayStart, Free
  <2> QED
    BY <1>1, <1>2, <1>4, <2>1 DEF MutexInv, shared, InCall, TypeOK
<1>8. CallersInv'
  BY <1>1, <1>2, <1>3, <1>4, <1>5 DEF CallersInv, MayStart, Free, Alone, mode
<1>9. HandleInv'
  <2>1. AtBegin' = AtBegin
    BY <1>3, <1>4, <1>5, IdleOp DEF AtBegin, MayStart, Free
  <2> QED
    BY <1>2, <1>3, <2>1 DEF HandleInv, MayStart, db, mode
<1>10. KeyFilled' /\ BuffersInv'
  BY <1>1, <1>2, <1>4 DEF KeyFilled, BuffersInv, InCall, shared, db, mode
<1> QED
  BY <1>6, <1>7, <1>8, <1>9, <1>10

(* A call in progress that stays in progress changes nothing about who may *)
(* call, nor about applyBatch.                                             *)
LEMMA OpsKept ==
    ASSUME Inv, \A u \in Thread : call'[u].op = call[u].op,
           call' \in [Thread -> {Idle} \cup Call \cup Apply],
           \A u \in Thread : ~InCall(u) => call'[u] = call[u], UNCHANGED mode
    PROVE  /\ CallersInv'
           /\ AtBegin' = AtBegin
           /\ \A u \in Thread : Free(u)' = Free(u)
<1> USE NameAssumption DEF Inv
<1>1. \A u \in Thread : Free(u) <=> call[u].op = "none"
  BY CallKinds
<1>2. \A u \in Thread : Free(u)' <=> call'[u].op = "none"
  BY IdleOp, CallFields DEF Free, Apply
<1>3. \A u \in Thread : Free(u)' = Free(u)
  BY <1>1, <1>2 DEF Free
<1>4. AtBegin' = AtBegin
  <2>1. CASE call[Main].op = "apply"
    BY <2>1 DEF AtBegin, InCall, KeyOps
  <2>2. CASE call[Main].op # "apply"
    BY <2>2 DEF AtBegin
  <2> QED
    BY <2>1, <2>2
<1>5. CallersInv'
  BY <1>3 DEF CallersInv, Alone, mode
<1> QED
  BY <1>3, <1>4, <1>5

(* A call on its way to LMDB: it has filled _key, or _data, or locked mtx. *)
LEMMA OnItsWay ==
    ASSUME Inv, NEW t \in Thread, InCall(t), NEW at \in {"data", "lock", "mdb"}, Goto(t, at),
           UNCHANGED <<phase, db, reply, mode>>, call[t].at \in {"key", "data", "lock"},
           keyBuf' = IF call[t].at = "key" THEN [owner |-> t, key |-> call[t].key] ELSE keyBuf,
           dataBuf' \in [owner : Thread \cup {None}, val : Content],
           at = "lock" => Locks(call[t].op),
           IF call[t].at = "lock" THEN at = "mdb" /\ mtx = None /\ mtx' = t
                                  ELSE mtx' = mtx /\ (at = "mdb" => ~Locks(call[t].op))
    PROVE  Inv'
<1> USE NameAssumption DEF Inv
<1>1. at \in Stage
  BY DEF Stage
<1>2. /\ call' \in [Thread -> {Idle} \cup Call \cup Apply] /\ call'[t] \in Call
      /\ call'[t].at = at /\ call'[t].op = call[t].op /\ call'[t].key = call[t].key
      /\ call'[t].mdbKey = call[t].mdbKey /\ call'[t].raced = call[t].raced
      /\ \A u \in Thread \ {t} : call'[u] = call[u]
  BY <1>1, Moves
<1>3. call[t] \in Call /\ call[t].key \in Key
  BY CallKinds, CallFields
<1>4. TypeOK'
  BY <1>2, <1>3 DEF TypeOK, db, reply, mode
<1>5. MutexInv'
  <2>1. mtx \in Thread \cup {None}
    BY DEF TypeOK
  <2> QED
    BY <1>2, <2>1 DEF MutexInv, InCall, Locks
<1>6. CallersInv' /\ AtBegin' = AtBegin /\ \A u \in Thread : Free(u)' = Free(u)
  BY <1>2, OpsKept DEF InCall
<1>7. HandleInv'
  BY <1>6 DEF HandleInv, db, mode
<1>8. BuffersInv'
  <2>1. CASE t = Main
    BY <1>2, <2>1 DEF BuffersInv, InCall, mode
  <2>2. CASE t # Main
    BY <2>2, IdleOp DEF BuffersInv, CallersInv, InCall, mode, Free
  <2> QED
    BY <2>1, <2>2
<1>9. KeyFilled'
  BY <1>3 DEF KeyFilled
<1> QED
  BY <1>4, <1>5, <1>6, <1>7, <1>8, <1>9

(* A call fills the shared key buffer.                                     *)
LEMMA SetKeyKeeps ==
    ASSUME Inv, NEW t \in Thread, SetKey(t)
    PROVE  Inv'
<1> DEFINE at == IF Writes(call[t].op) THEN "data"
                 ELSE IF Locks(call[t].op) THEN "lock" ELSE "mdb"
<1>1. at \in {"data", "lock", "mdb"}
  OBVIOUS
<1>2. InCall(t) /\ call[t].at = "key" /\ Goto(t, at) /\ UNCHANGED <<phase, db, reply, mode>>
      /\ keyBuf' = [owner |-> t, key |-> call[t].key] /\ UNCHANGED <<dataBuf, mtx>>
  BY DEF SetKey, At, InCall
<1>3. dataBuf' \in [owner : Thread \cup {None}, val : Content]
  BY <1>2 DEF Inv, TypeOK
<1> QED
  BY <1>1, <1>2, <1>3, OnItsWay

(* A put fills the shared data buffer.                                     *)
LEMMA SetDataKeeps ==
    ASSUME Inv, NEW t \in Thread, SetData(t)
    PROVE  Inv'
<1> DEFINE at == IF Locks(call[t].op) THEN "lock" ELSE "mdb"
<1>1. at \in {"data", "lock", "mdb"}
  OBVIOUS
<1>2. InCall(t) /\ call[t].at = "data" /\ Goto(t, at) /\ UNCHANGED <<phase, db, reply, mode>>
      /\ dataBuf' = [owner |-> t, val |-> call[t].val] /\ UNCHANGED <<keyBuf, mtx>>
  BY DEF SetData, At, InCall
<1>3. dataBuf' \in [owner : Thread \cup {None}, val : Content]
  BY <1>2, CallKinds, CallFields DEF Inv
<1> QED
  BY <1>1, <1>2, <1>3, OnItsWay

(* A call takes the mutex, which is free.                                  *)
LEMMA LockKeeps ==
    ASSUME Inv, NEW t \in Thread, Lock(t)
    PROVE  Inv'
<1>1. InCall(t) /\ call[t].at = "lock" /\ Goto(t, "mdb") /\ UNCHANGED <<phase, db, reply, mode>>
      /\ mtx = None /\ mtx' = t /\ UNCHANGED <<keyBuf, dataBuf>>
  BY DEF Lock, At, InCall
<1>2. dataBuf' \in [owner : Thread \cup {None}, val : Content]
  BY <1>1 DEF Inv, TypeOK
<1> QED
  BY <1>1, <1>2, OnItsWay

(* What the buffers read as is a key, and a value or none.                 *)
LEMMA BuffersRead ==
    ASSUME Inv
    PROVE  KeyRead \subseteq Key /\ DataRead \subseteq Content
BY DEF Inv, TypeOK, KeyFilled, KeyRead, DataRead, Content

(* Into LMDB, with the buffers as they are: on its own a thread passes what*)
(* it was asked for; beside another, both are marked as racing.            *)
LEMMA MdbBeginKeeps ==
    ASSUME Inv, NEW t \in Thread, MdbBegin(t)
    PROVE  Inv'
<1> USE NameAssumption DEF Inv
<1> DEFINE others == {u \in Thread \ {t} : Inside(u)}
           entered(k, c) == [call[t] EXCEPT !.at = "in", !.mdbKey = k, !.mdbVal = c,
                                            !.raced = others # {}]
           beside(u) == [call[u] EXCEPT !.raced = TRUE]
<1>1. InCall(t) /\ call[t].at = "mdb" /\ UNCHANGED <<phase, db, shared, reply, mode>>
  BY ZenonT(60) DEF MdbBegin, At, InCall
<1>2. call[t] \in Call /\ \A u \in others : call[u] \in Call /\ call[u].at = "in"
  BY SMTT(40), <1>1, CallKinds DEF Inside, InCall
<1>3. PICK k \in KeyRead, c \in IF Writes(call[t].op) THEN DataRead ELSE {Absent} :
         call' = [u \in Thread |-> CASE u = t -> entered(k, c)
                                     [] u \in others -> beside(u)
                                     [] OTHER -> call[u]]
  BY ZenonT(60) DEF MdbBegin
<1>4. k \in Key /\ c \in Content
  BY <1>3, BuffersRead DEF Content
<1>5. /\ entered(k, c) \in Call /\ entered(k, c).op = call[t].op /\ entered(k, c).at = "in"
      /\ entered(k, c).key = call[t].key /\ entered(k, c).mdbKey = k
      /\ entered(k, c).raced = (others # {})
  BY <1>2, <1>4 DEF Call, Stage
<1>6. \A u \in others : beside(u) \in Call /\ beside(u).op = call[u].op /\ beside(u).at = "in"
  BY <1>2 DEF Call
<1>7. /\ call'[t] = entered(k, c)
      /\ \A u \in others : call'[u] = beside(u)
      /\ \A u \in Thread \ ({t} \cup others) : call'[u] = call[u]
  BY <1>3
<1> HIDE DEF entered, beside
<1>8. call' \in [Thread -> {Idle} \cup Call \cup Apply]
  <2>1. \A u \in Thread : call'[u] \in {Idle} \cup Call \cup Apply
    BY <1>5, <1>6, <1>7 DEF TypeOK
  <2> HIDE DEF others
  <2> QED
    BY <1>3, <2>1
<1>9. \A u \in Thread : call'[u].op = call[u].op
  BY <1>5, <1>6, <1>7
<1>10. \A u \in Thread \ {t} : call'[u].at = call[u].at
  BY <1>2, <1>6, <1>7
<1>11. TypeOK'
  BY <1>1, <1>8 DEF TypeOK, db, shared, reply, mode
<1>12. MutexInv'
  <2>1. mtx \in Thread \cup {None}
    BY DEF TypeOK
  <2> QED
    BY <1>1, <1>5, <1>7, <1>9, <1>10, <2>1 DEF MutexInv, InCall, Locks, shared
<1>13. CallersInv' /\ AtBegin' = AtBegin /\ \A u \in Thread : Free(u)' = Free(u)
  <2>1. \A u \in Thread : ~InCall(u) => call'[u] = call[u]
    BY <1>1, <1>7 DEF InCall, Inside
  <2> QED
    BY <1>1, <1>8, <1>9, <2>1, OpsKept
<1>14. HandleInv'
  BY <1>1, <1>13 DEF HandleInv, db, mode
<1>15. KeyFilled'
  BY <1>1 DEF KeyFilled, shared
<1>16. ASSUME threads = {Main} PROVE BuffersInv'
  <2>1. \A u \in Thread \ {Main} : Free(u)
    BY <1>16 DEF CallersInv
  <2>2. t = Main /\ others = {}
    BY <1>1, <2>1, IdleOp DEF Free, InCall, Inside
  <2>3. keyBuf = [owner |-> Main, key |-> call[Main].key]
    BY <1>1, <1>16, <2>2 DEF BuffersInv
  <2>4. k = call[Main].key
    BY <1>1, <1>3, <2>2, <2>3, IdleOp DEF KeyRead, Free, InCall
  <2> QED
    BY <1>1, <1>5, <1>7, <2>2, <2>3, <2>4 DEF BuffersInv, InCall, shared
<1>17. BuffersInv'
  BY <1>1, <1>16 DEF BuffersInv, mode
<1> QED
  BY <1>11, <1>12, <1>13, <1>14, <1>15, <1>17

(* While a thread is in a call, no applyBatch is between its two steps.    *)
LEMMA NotAtBegin ==
    ASSUME Inv, NEW t \in Thread, InCall(t)
    PROVE  ~AtBegin
BY IdleOp, NameAssumption DEF Inv, InCall, AtBegin, CallersInv, Alone, Free, KeyOps, Idle

(* A call that ends gives the mutex back, and a failed write in it may have*)
(* left the error mark.                                                    *)
LEMMA LeaveKeeps ==
    ASSUME Inv, NEW t \in Thread, InCall(t), call[t].at \in {"in", "copy"}, phase = "open",
           NEW ok \in BOOLEAN, Leave(t, ok), UNCHANGED <<phase, committed, keyBuf, dataBuf, mode>>,
           working' \in [Key -> Content], buffer' \in Content,
           promised' \in [Key -> Content \cup {None}],
           \/ UNCHANGED <<handle, working>>
           \/ handle = "live" /\ handle' = "live"
           \/ handle = "live" /\ handle' = "error" /\ errors
    PROVE  Inv'
<1> USE NameAssumption DEF Inv
<1>1. /\ call' \in [Thread -> {Idle} \cup Call \cup Apply] /\ call'[t] = Idle
      /\ \A u \in Thread \ {t} : call'[u] = call[u]
  BY Enters DEF Leave
<1>2. call[t].key \in Key
  BY CallKinds, CallFields
<1>3. result' \in [key : Key \cup {None}, ok : BOOLEAN]
  <2> DEFINE k == IF call[t].op = "get" THEN call[t].key ELSE None
  <2>1. Answer(t, k, ok) /\ k \in Key \cup {None}
    BY <1>2 DEF Leave
  <2> QED
    BY <2>1, AnswerTyped
<1>4. mtx' = IF Locks(call[t].op) THEN None ELSE mtx
  BY DEF Leave
<1>5. TypeOK'
  BY <1>1, <1>3, <1>4 DEF TypeOK, mode
<1>6. MutexInv'
  <2>1. mtx \in Thread \cup {None} /\ ~Locks(Idle.op) /\ Idle.op \notin KeyOps
    BY IdleOp DEF TypeOK
  <2>2. Locks(call[t].op) => mtx = t
    BY DEF MutexInv, Locks
  <2>3. ~Locks(call[t].op) => mtx # t
    BY DEF MutexInv
  <2>4. \A u \in Thread : Locks(call'[u].op) /\ call'[u].at \in {"mdb", "in"} => mtx' = u
    BY <1>1, <1>4, <2>1, <2>2 DEF MutexInv, Locks
  <2>5. mtx' # None => Locks(call'[mtx'].op) /\ call'[mtx'].at \in {"mdb", "in"}
    BY <1>1, <1>4, <2>1, <2>3 DEF MutexInv, Locks
  <2> QED
    BY <1>1, <2>1, <2>4, <2>5 DEF MutexInv, InCall, Locks
<1>7. CallersInv'
  BY <1>1, IdleOp DEF CallersInv, Alone, Free, mode
<1>8. HandleInv'
  <2>1. ~AtBegin /\ ~AtBegin'
    BY <1>1, NotAtBegin, IdleOp DEF AtBegin, Idle
  <2> QED
    BY <2>1 DEF HandleInv, mode
<1>9. KeyFilled'
  BY DEF KeyFilled
<1>10. BuffersInv'
  <2>1. threads = {Main} => t = Main
    BY IdleOp DEF CallersInv, Free, InCall
  <2> QED
    BY <1>1, <2>1, IdleOp DEF BuffersInv, InCall, mode
<1> QED
  BY <1>5, <1>6, <1>7, <1>8, <1>9, <1>10

(* mdb_get reads what the key buffer holds by then.                        *)
LEMMA MdbGetKeeps ==
    ASSUME Inv, NEW t \in Thread, MdbGet(t)
    PROVE  Inv'
<1> USE NameAssumption DEF Inv
<1> DEFINE found == IF call[t].raced THEN Content ELSE {working[call[t].mdbKey]}
<1>1. phase = "open" /\ InCall(t) /\ call[t].at = "in" /\ call[t].op = "get"
      /\ UNCHANGED <<phase, db, keyBuf, buffer, promised, mode>>
  BY DEF MdbGet, At, InCall
<1>2. found \subseteq Content
  BY <1>1, CallKinds, CallFields DEF TypeOK
<1>3. ASSUME NEW c \in found \ {Absent}, dataBuf' = [owner |-> t, val |-> c], Goto(t, "copy"),
             UNCHANGED <<mtx, result>>
      PROVE  Inv'
  <2>1. "copy" \in Stage /\ c \in Content
    BY <1>2, <1>3 DEF Stage
  <2>2. /\ call' \in [Thread -> {Idle} \cup Call \cup Apply]
        /\ call'[t].at = "copy" /\ call'[t].op = "get" /\ call'[t].key = call[t].key
        /\ call'[t].mdbKey = call[t].mdbKey /\ call'[t].raced = call[t].raced
        /\ \A u \in Thread \ {t} : call'[u] = call[u]
    BY <1>1, <1>3, <2>1, Moves
  <2>3. TypeOK'
    BY <1>1, <1>3, <2>1, <2>2 DEF TypeOK, db, mode
  <2>4. MutexInv'
    <3>1. mtx \in Thread \cup {None} /\ mtx # t
      BY <1>1 DEF TypeOK, MutexInv, Locks
    <3> QED
      BY <1>1, <1>3, <2>2, <3>1 DEF MutexInv, InCall, Locks
  <2>5. CallersInv' /\ AtBegin' = AtBegin /\ \A u \in Thread : Free(u)' = Free(u)
    BY <1>1, <2>2, OpsKept DEF InCall
  <2>6. HandleInv'
    BY <1>1, <2>5 DEF HandleInv, db, mode
  <2>7. KeyFilled'
    BY <1>1 DEF KeyFilled
  <2>8. ASSUME threads = {Main} PROVE BuffersInv'
    <3>1. t = Main
      BY <1>1, <2>8, IdleOp DEF CallersInv, Free, InCall
    <3>2. call[t].raced = FALSE /\ call[t].mdbKey = call[t].key
          /\ keyBuf = [owner |-> Main, key |-> call[Main].key]
      BY <1>1, <2>8, <3>1 DEF BuffersInv
    <3>3. c = working[call[t].key]
      BY <1>3, <3>2
    <3> QED
      BY <1>1, <1>3, <2>2, <3>1, <3>2, <3>3 DEF BuffersInv, db
  <2>9. BuffersInv'
    BY <1>1, <2>8 DEF BuffersInv, mode
  <2> QED
    BY <2>3, <2>4, <2>5, <2>6, <2>7, <2>9
<1>4. ASSUME Leave(t, FALSE), UNCHANGED dataBuf PROVE Inv'
  BY <1>1, <1>4, LeaveKeeps DEF TypeOK, db
<1> QED
  BY <1>3, <1>4 DEF MdbGet

(* The three ways a call ends.                                             *)
LEMMA CallEnds ==
    ASSUME Inv, NEW t \in Thread, Copy(t) \/ MdbWrite(t) \/ MdbDel(t)
    PROVE  Inv'
<1> USE DEF Inv
<1>1. CASE Copy(t)
  <2>1. phase = "open" /\ InCall(t) /\ call[t].at = "copy" /\ Leave(t, TRUE)
        /\ UNCHANGED <<phase, db, keyBuf, dataBuf, promised, mode>>
    BY <1>1 DEF Copy, At, InCall
  <2>2. buffer' \in Content
    BY <1>1, BuffersRead DEF Copy, TypeOK
  <2> QED
    BY <2>1, <2>2, LeaveKeeps DEF TypeOK, db
<1>2. CASE MdbWrite(t)
  <2>1. phase = "open" /\ InCall(t) /\ call[t].at = "in"
        /\ UNCHANGED <<phase, committed, keyBuf, dataBuf, buffer, mode>>
    BY <1>2 DEF MdbWrite, At, InCall
  <2>2. /\ call[t].mdbKey \in Key /\ call[t].mdbVal \in Content
        /\ call[t].key \in Key /\ call[t].val \in Content
    BY <2>1, CallKinds, CallFields
  <2>3. CASE handle = "live" /\ Leave(t, TRUE) /\ UNCHANGED handle
             /\ working' = [working EXCEPT ![call[t].mdbKey] = call[t].mdbVal]
             /\ Tell(call[t].key, call[t].val)
    BY <2>1, <2>2, <2>3, LeaveKeeps DEF TypeOK, Tell
  <2>4. CASE Refused /\ Leave(t, FALSE) /\ UNCHANGED <<working, promised>>
    BY <2>1, <2>4, LeaveKeeps DEF TypeOK, Refused
  <2> QED
    BY <1>2, <2>3, <2>4 DEF MdbWrite
<1>3. CASE MdbDel(t)
  <2>1. phase = "open" /\ InCall(t) /\ call[t].at = "in"
        /\ UNCHANGED <<phase, committed, keyBuf, dataBuf, buffer, mode>>
        /\ Tell(call[t].key, None)
    BY <1>3 DEF MdbDel, At, InCall
  <2>2. call[t].mdbKey \in Key /\ call[t].key \in Key /\ Absent \in Content
    BY <2>1, CallKinds, CallFields DEF Content
  <2>5. promised' \in [Key -> Content \cup {None}]
    BY <2>1, <2>2 DEF TypeOK, Tell
  <2>3. CASE handle = "live" /\ Leave(t, working[call[t].mdbKey] # Absent) /\ UNCHANGED handle
             /\ working' = [working EXCEPT ![call[t].mdbKey] = Absent]
    BY <2>1, <2>2, <2>3, <2>5, LeaveKeeps DEF TypeOK
  <2>4. CASE Refused /\ Leave(t, TRUE) /\ UNCHANGED working
    BY <2>1, <2>4, <2>5, LeaveKeeps DEF TypeOK, Refused
  <2> QED
    BY <1>3, <2>3, <2>4 DEF MdbDel
<1> QED
  BY <1>1, <1>2, <1>3

(* While the main thread is in applyBatch no thread holds the mutex, and   *)
(* none is in a call.                                                      *)
LEMMA ApplyingAlone ==
    ASSUME Inv, NEW at, Applying(at)
    PROVE  /\ call[Main].op = "apply" /\ call[Main].at = at /\ phase = "open"
           /\ ~Free(Main) /\ Main \in threads
           /\ mtx = None
           /\ \A u \in Thread \ {Main} : call[u] = Idle
<1> USE NameAssumption DEF Inv
<1>1. call[Main].op = "apply" /\ call[Main].at = at /\ phase = "open" /\ ~Free(Main)
  BY IdleOp DEF Applying, Free, Idle
<1>2. Main \in threads /\ \A u \in Thread \ {Main} : call[u] = Idle
  BY <1>1 DEF CallersInv, Alone, Free
<1>3. mtx = None
  BY <1>1, <1>2, IdleOp DEF MutexInv, TypeOK, Locks
<1> QED
  BY <1>1, <1>2, <1>3

(* A step of applyBatch: the main thread's call is new, the others' idle.  *)
LEMMA ApplyKeeps ==
    ASSUME Inv, phase = "open", mtx = None, \A u \in Thread \ {Main} : call[u] = Idle,
           Main \in threads, NEW c \in {Idle} \cup Apply, Enter(Main, c),
           UNCHANGED <<phase, shared, buffer, mode>>,
           promised' \in [Key -> Content \cup {None}],
           handle' \in {"uninit", "live", "error", "spent", "freed"},
           working' \in [Key -> Content], committed' \in [Key -> Content],
           result' \in [key : Key \cup {None}, ok : BOOLEAN],
           handle' \in {"spent", "freed"} => working' = committed',
           c.op = "apply" /\ c.at = "begin" => handle' = "spent",
           ~errors => handle' = "live" \/ (c.op = "apply" /\ c.at = "begin")
    PROVE  Inv'
<1> USE NameAssumption DEF Inv
<1>1. /\ call' \in [Thread -> {Idle} \cup Call \cup Apply] /\ call'[Main] = c
      /\ \A u \in Thread \ {Main} : call'[u] = Idle
  BY Enters
<1>2. c.op \in {"none", "apply"} /\ ~Locks(c.op) /\ c.op \notin KeyOps
  BY IdleOp DEF Apply, Locks, KeyOps
<1>3. TypeOK'
  BY <1>1 DEF TypeOK, shared, mode
<1>4. MutexInv'
  BY <1>1, <1>2, IdleOp DEF MutexInv, InCall, Locks, shared
<1>5. CallersInv'
  BY <1>1, IdleOp DEF CallersInv, Alone, Free, mode
<1>6. HandleInv'
  BY <1>1 DEF HandleInv, AtBegin, mode
<1>7. KeyFilled' /\ BuffersInv'
  BY <1>1, <1>2 DEF KeyFilled, BuffersInv, InCall, shared, mode
<1> QED
  BY <1>3, <1>4, <1>5, <1>6, <1>7

(* The steps of applyBatch: the commit, and the begin of the next          *)
(* transaction.                                                            *)
LEMMA ApplyStepKeeps ==
    ASSUME Inv, ApplyBatch \/ ApplySteps
    PROVE  Inv'
<1> USE NameAssumption
<1>1. CASE ApplyBatch
  <2> DEFINE c == [op |-> "apply", at |-> "commit"]
  <2>1. c \in Apply /\ c.op = "apply" /\ c.at = "commit" /\ Enter(Main, c)
    BY <1>1 DEF Apply, ApplyBatch
  <2> HIDE DEF c
  <2>2. MayStart(Main, "apply") /\ UNCHANGED <<phase, db, shared, buffer, promised, mode>>
        /\ Answer(Main, None, FALSE)
    BY <1>1 DEF ApplyBatch
  <2>3. phase = "open" /\ Main \in threads /\ \A u \in Thread : call[u] = Idle
    BY <2>2 DEF MayStart, Alone, Free
  <2>4. mtx = None /\ ~AtBegin
    BY <2>3, IdleOp DEF Inv, MutexInv, TypeOK, AtBegin, Locks
  <2>5. result' \in [key : Key \cup {None}, ok : BOOLEAN]
    BY <2>2, AnswerTyped DEF Inv
  <2>6. ~errors => handle = "live"
    BY <2>3, <2>4 DEF Inv, HandleInv
  <2>7. /\ handle \in {"spent", "freed"} => working = committed
        /\ working \in [Key -> Content] /\ committed \in [Key -> Content]
        /\ handle \in {"uninit", "live", "error", "spent", "freed"}
        /\ promised \in [Key -> Content \cup {None}]
    BY DEF Inv, HandleInv, TypeOK
  <2> QED
    BY <2>1, <2>2, <2>3, <2>4, <2>5, <2>6, <2>7, ApplyKeeps DEF db
<1>2. CASE ApplyCommit
  <2> DEFINE c == [call[Main] EXCEPT !.at = "begin"]
  <2>1. Applying("commit") /\ handle = "live" /\ Commit(TRUE) /\ Goto(Main, "begin")
        /\ UNCHANGED <<phase, shared, reply, mode>>
    BY <1>2 DEF ApplyCommit
  <2>2. call[Main] \in Apply
    BY <2>1, ApplyingAlone, CallKinds DEF Inv
  <2>3. c \in Apply /\ c.op = "apply" /\ c.at = "begin" /\ Enter(Main, c)
    BY <2>1, <2>2 DEF Apply, Goto, Enter
  <2> HIDE DEF c
  <2>4. handle' = "spent" /\ working' = committed' /\ committed' \in [Key -> Content]
        /\ result' \in [key : Key \cup {None}, ok : BOOLEAN]
        /\ promised' \in [Key -> Content \cup {None}]
    BY <2>1 DEF Commit, Inv, TypeOK, reply
  <2> QED
    BY <2>1, <2>3, <2>4, ApplyingAlone, ApplyKeeps DEF reply
<1>3. CASE ApplyFails
  <2>1. Applying("commit") /\ Commit(FALSE) /\ Enter(Main, Idle) /\ Answer(Main, None, FALSE)
        /\ handle \in {"live", "error", "spent"} /\ (handle = "live" => errors)
        /\ promised' = Nothing /\ UNCHANGED <<phase, shared, buffer, mode>>
    BY <1>3 DEF ApplyFails
  <2>2. handle' \in {"spent", "freed"} /\ working' = committed' /\ committed' \in [Key -> Content]
        /\ result' \in [key : Key \cup {None}, ok : BOOLEAN]
        /\ promised' \in [Key -> Content \cup {None}]
    BY <2>1, AnswerTyped DEF Commit, Inv, TypeOK, Nothing
  <2>3. errors
    <3>1. ~AtBegin
      BY <2>1, ApplyingAlone DEF AtBegin
    <3> QED
      BY <2>1, <3>1, ApplyingAlone DEF Inv, HandleInv
  <2> QED
    BY <2>1, <2>2, <2>3, ApplyingAlone, ApplyKeeps, IdleOp
<1>4. CASE ApplyBegin
  <2>1. Applying("begin") /\ Enter(Main, Idle) /\ UNCHANGED <<phase, committed, working, shared, buffer, mode>>
        /\ (handle' = "live" \/ (errors /\ UNCHANGED handle))
    BY <1>4 DEF ApplyBegin
  <2>2. /\ result' \in [key : Key \cup {None}, ok : BOOLEAN]
        /\ promised' \in [Key -> Content \cup {None}]
    BY <1>4, AnswerTyped DEF ApplyBegin, Inv, Nothing
  <2>3. /\ handle \in {"spent", "freed"} => working = committed
        /\ working \in [Key -> Content] /\ committed \in [Key -> Content]
        /\ handle \in {"uninit", "live", "error", "spent", "freed"}
    BY DEF Inv, HandleInv, TypeOK
  <2> QED
    BY <2>1, <2>2, <2>3, ApplyingAlone, ApplyKeeps, IdleOp
<1> QED
  BY <1>1, <1>2, <1>3, <1>4 DEF ApplySteps

(* The end: close() ends the transaction, or the process dies.             *)
LEMMA EndKeeps ==
    ASSUME Inv, Delete \/ Crash
    PROVE  Inv'
<1> USE NameAssumption DEF Inv
<1>1. CASE Delete
  <2>1. phase = "open" /\ phase' = "deleted" /\ handle' = "spent" /\ working' = committed'
        /\ committed' \in {working, committed} /\ UNCHANGED <<shared, call, reply, mode>>
    BY <1>1 DEF Delete, Commit, Closing
  <2>2. TypeOK'
    BY <2>1 DEF TypeOK, shared, reply, mode
  <2>3. MutexInv' /\ CallersInv' /\ KeyFilled'
    BY <2>1 DEF MutexInv, CallersInv, KeyFilled, InCall, Free, Alone, shared, mode
  <2>4. HandleInv'
    BY <2>1 DEF HandleInv, AtBegin
  <2>5. BuffersInv'
    BY <1>1, <2>1, IdleOp DEF Delete, Closing, Free, BuffersInv, InCall
  <2> QED
    BY <2>2, <2>3, <2>4, <2>5
<1>2. CASE Crash
  <2>1. phase' = "crashed" /\ phase = "open" /\ UNCHANGED <<db, shared, call, reply, mode>>
    BY <1>2 DEF Crash, Applying, At, Closing
  <2>2. TypeOK'
    BY <2>1 DEF TypeOK, db, shared, reply, mode
  <2>3. MutexInv' /\ CallersInv' /\ KeyFilled' /\ BuffersInv'
    BY <2>1 DEF MutexInv, CallersInv, KeyFilled, BuffersInv, InCall, Free, Alone, db, shared, mode
  <2>4. ASSUME ~errors, threads = {Main} PROVE FALSE
    <3>1. \A u \in Thread \ {Main} : Free(u) /\ ~InCall(u)
      BY <2>4, IdleOp DEF CallersInv, Free, InCall
    <3>2. handle = "live" \/ (AtBegin /\ handle = "spent")
      BY <2>1, <2>4 DEF HandleInv
    <3>3. ~(handle \in {"uninit", "freed"})
      BY <3>2
    <3>4. ~(handle \in {"uninit", "spent", "freed"} /\ Closing)
      BY <3>2, IdleOp DEF Closing, Free, AtBegin, Idle
    <3>5. PICK t \in Thread : Inside(t) /\ call[t].op = "get" /\ call[t].raced
      BY <1>2, <3>3, <3>4 DEF Crash
    <3> QED
      BY <2>4, <3>1, <3>5 DEF BuffersInv, InCall, Inside
  <2>5. HandleInv'
    BY <2>1, <2>4 DEF HandleInv, AtBegin, Free, db, mode
  <2> QED
    BY <2>2, <2>3, <2>5
<1> QED
  BY <1>1, <1>2

-----------------------------------------------------------------------------
(* The invariant, and what it says.                                        *)

(* The next-state relation, one disjunct per lemma above.                  *)
LEMMA NextCases ==
    ASSUME Next
    PROVE  \/ Open \/ OpenFails
           \/ \E t \in Thread, op \in KeyOps, k \in Key, c \in Content : Start(t, op, k, c)
           \/ \E t \in Thread : Steps(t)
           \/ ApplyBatch \/ ApplySteps
           \/ Delete \/ Crash
BY NameAssumption DEF Next, Get, Put, Del, PutBatch, DelBatch, KeyOps, Content

(* Every step keeps the invariant.                                         *)
LEMMA InvStep == Inv /\ [Next]_vars => Inv'
<1> SUFFICES ASSUME Inv, [Next]_vars PROVE Inv'
  OBVIOUS
<1>1. CASE UNCHANGED vars
  <2>1. UNCHANGED <<phase, handle, committed, working, keyBuf, dataBuf, mtx, call, result,
                    buffer, promised, threads, errors>>
    BY <1>1 DEF vars, db, shared, reply, mode
  <2>2. TypeOK' /\ MutexInv'
    BY <2>1 DEF Inv, TypeOK, MutexInv, InCall
  <2>3. CallersInv' /\ HandleInv' /\ KeyFilled' /\ BuffersInv'
    BY <2>1 DEF Inv, CallersInv, HandleInv, KeyFilled, BuffersInv, InCall, Free, Alone, AtBegin
  <2> QED
    BY <2>2, <2>3 DEF Inv
<1>2. ASSUME NEW t \in Thread, Steps(t) PROVE Inv'
  BY <1>2, SetKeyKeeps, SetDataKeeps, LockKeeps, MdbBeginKeeps, MdbGetKeeps, CallEnds DEF Steps
<1> QED
  BY <1>1, <1>2, NextCases, OpenKeeps, StartKeeps, ApplyStepKeeps, EndKeeps

(* The invariant holds at every step.                                      *)
LEMMA InvHolds == Spec => []Inv
<1>1. Init => Inv
  <2> SUFFICES ASSUME Init PROVE Inv
    OBVIOUS
  <2> USE NameAssumption, IdleOp
  <2>1. \A t \in Thread : call[t] = Idle
    BY DEF Init
  <2>2. TypeOK
    BY DEF Init, TypeOK, Content, Nothing
  <2>3. MutexInv /\ CallersInv /\ KeyFilled /\ BuffersInv
    BY <2>1 DEF Init, MutexInv, CallersInv, KeyFilled, BuffersInv, InCall, Free, Alone, Locks
  <2>4. HandleInv
    BY <2>1 DEF Init, HandleInv, AtBegin, Free, Idle
  <2> QED
    BY <2>2, <2>3, <2>4 DEF Inv
<1> QED
  BY <1>1, InvStep, PTL DEF Spec

(* No two writers are inside LMDB together, and the mutex is held by one   *)
(* that is between lock() and unlock(): batched writes and deletes, which  *)
(* take no lock, are made while no worker calls.                           *)
THEOREM WritersTakeTurns == Spec => []WritersExclude
<1>1. Inv => WritersExclude
  <2> SUFFICES ASSUME Inv PROVE WritersExclude
    OBVIOUS
  <2> USE NameAssumption DEF Inv
  <2>1. ASSUME NEW t \in Thread, NEW u \in Thread, Inside(t), Inside(u), t # u
        PROVE  "get" \in {call[t].op, call[u].op}
    <3>1. t # Main /\ u # Main
      BY <2>1, IdleOp DEF CallersInv, Alone, Free, Inside
    <3>2. call[t].op \in {"get", "put"} /\ call[u].op \in {"get", "put"}
      BY <2>1, <3>1 DEF CallersInv, Inside, KeyOps
    <3> QED
      BY <2>1, <3>2 DEF MutexInv, Inside, Locks
  <2> QED
    BY <2>1 DEF WritersExclude, MutexInv
<1> QED
  BY <1>1, InvHolds, PTL

(* After an applyBatch that returned true the transaction has nothing      *)
(* pending, and one that failed has left nothing behind.                   *)
THEOREM AppliedLeavesNothing == Spec => []AppliedIsCommitted
<1>1. Inv => AppliedIsCommitted
  BY DEF Inv, HandleInv, AppliedIsCommitted, Applying, AtBegin
<1> QED
  BY <1>1, InvHolds, PTL

(* One thread on its own crashes only where LMDB met an error.             *)
THEOREM OneThreadIsSafe == Spec => []NoCrash
<1>1. Inv => NoCrash
  BY DEF Inv, HandleInv, NoCrash
<1> QED
  BY <1>1, InvHolds, PTL

-----------------------------------------------------------------------------
(* What a put that returned true has promised.                             *)

(* A thread on its own finds its own value in _data, up to mdb_put: what   *)
(* LMDB is given is what was asked for.                                    *)
ValueInv ==
    threads = {Main} /\ InCall(Main) /\ Writes(call[Main].op) =>
       /\ call[Main].at \in {"lock", "mdb", "in"} =>
             dataBuf = [owner |-> Main, val |-> call[Main].val]
       /\ call[Main].at = "in" => call[Main].mdbVal = call[Main].val

(* The transaction holds what was promised; nothing is to several threads. *)
Promises ==
    /\ threads # {Main} => promised = Nothing
    /\ phase \in {"new", "open"} =>
          \A k \in Key : promised[k] # None => working[k] = promised[k]

(* Into LMDB: the thread on its own passes its own value.                  *)
LEMMA MdbBeginValue ==
    ASSUME Inv, ValueInv, MdbBegin(Main), threads = {Main}
    PROVE  ValueInv'
<1> USE NameAssumption DEF Inv
<1> DEFINE others == {u \in Thread \ {Main} : Inside(u)}
           entered(k, c) == [call[Main] EXCEPT !.at = "in", !.mdbKey = k, !.mdbVal = c,
                                               !.raced = others # {}]
<1>1. InCall(Main) /\ call[Main].at = "mdb" /\ UNCHANGED <<shared, mode>>
  BY ZenonT(60) DEF MdbBegin, At, InCall
<1>2. call[Main] \in Call
  BY <1>1, CallKinds
<1>3. PICK k \in KeyRead, c \in IF Writes(call[Main].op) THEN DataRead ELSE {Absent} :
         call'[Main] = entered(k, c)
  BY ZenonT(60) DEF MdbBegin
<1>4. entered(k, c).op = call[Main].op /\ entered(k, c).val = call[Main].val
      /\ entered(k, c).at = "in" /\ entered(k, c).mdbVal = c
  BY <1>2 DEF Call
<1> HIDE DEF entered
<1>5. ASSUME Writes(call[Main].op)
      PROVE  c = call[Main].val /\ dataBuf = [owner |-> Main, val |-> call[Main].val]
  <2>1. dataBuf = [owner |-> Main, val |-> call[Main].val]
    BY <1>1, <1>5 DEF ValueInv
  <2>2. DataRead = {call[Main].val}
    BY <1>1, <2>1, IdleOp DEF DataRead, Free, InCall
  <2> QED
    BY <1>3, <1>5, <2>1, <2>2
<1> QED
  BY <1>1, <1>3, <1>4, <1>5 DEF ValueInv, shared

(* Every step keeps the value of a put on its way into LMDB.               *)
LEMMA ValueStep == Inv /\ ValueInv /\ [Next]_vars => ValueInv'
<1> SUFFICES ASSUME Inv, ValueInv, [Next]_vars PROVE ValueInv'
  OBVIOUS
<1> USE NameAssumption DEF Inv
<1>1. UNCHANGED mode
  BY NextCases DEF vars, Open, OpenFails, Start, Steps, SetKey, SetData, Lock, MdbBegin, MdbGet,
     Copy, MdbWrite, MdbDel, ApplyBatch, ApplySteps, ApplyCommit, ApplyFails, ApplyBegin,
     Delete, Crash
<1> SUFFICES ASSUME threads = {Main} PROVE ValueInv'
  BY <1>1 DEF ValueInv, mode
<1>2. CASE UNCHANGED <<call, dataBuf>>
  BY <1>1, <1>2 DEF ValueInv, InCall, mode
<1>3. ASSUME NEW t \in Thread, NEW op \in KeyOps, NEW k \in Key, NEW c \in Content,
             Start(t, op, k, c)
      PROVE  ValueInv'
  <2>1. t = Main
    BY <1>3 DEF Start, MayStart
  <2>2. call'[Main].at = "key"
    BY <1>3, <2>1 DEF Start, Enter, TypeOK
  <2> QED
    BY <2>2 DEF ValueInv
<1>4. ASSUME NEW t \in Thread, Steps(t) PROVE ValueInv'
  <2>1. InCall(t)
    BY <1>4 DEF Steps, SetKey, SetData, Lock, MdbBegin, MdbGet, Copy, MdbWrite, MdbDel, At, InCall
  <2>2. t = Main
    BY <2>1, IdleOp DEF CallersInv, Free, InCall
  <2>3. ASSUME NEW at \in Stage, Goto(Main, at)
        PROVE  /\ call'[Main].at = at /\ call'[Main].op = call[Main].op
               /\ call'[Main].val = call[Main].val
    <3>1. call[Main] \in Call /\ call'[Main] = [call[Main] EXCEPT !.at = at]
      BY <2>1, <2>2, <2>3, CallKinds, Moves
    <3> QED
      BY <3>1 DEF Call
  <2>4. CASE SetKey(Main)
    <3> DEFINE at == IF Writes(call[Main].op) THEN "data"
                     ELSE IF Locks(call[Main].op) THEN "lock" ELSE "mdb"
    <3>1. Goto(Main, at) /\ at \in Stage
      BY <2>4 DEF SetKey, Stage
    <3> QED
      BY <2>3, <3>1 DEF ValueInv
  <2>5. CASE SetData(Main)
    <3> DEFINE at == IF Locks(call[Main].op) THEN "lock" ELSE "mdb"
    <3>1. Goto(Main, at) /\ at \in Stage /\ at # "in"
          /\ dataBuf' = [owner |-> Main, val |-> call[Main].val]
      BY <2>5 DEF SetData, Stage
    <3> QED
      BY <2>3, <3>1 DEF ValueInv
  <2>6. CASE Lock(Main)
    <3>1. Goto(Main, "mdb") /\ call[Main].at = "lock" /\ UNCHANGED dataBuf
      BY <2>6 DEF Lock, At
    <3> QED
      BY <2>1, <2>2, <2>3, <3>1 DEF ValueInv, Stage
  <2>7. CASE MdbBegin(Main)
    BY <2>7, MdbBeginValue
  <2>8. CASE MdbGet(Main) /\ Goto(Main, "copy")
    BY <2>3, <2>8 DEF MdbGet, At, ValueInv, Writes, Stage
  <2>9. ASSUME call'[Main] = Idle PROVE ValueInv'
    BY <2>9, IdleOp DEF ValueInv, InCall
  <2>10. ASSUME NEW ok, Leave(Main, ok) PROVE ValueInv'
    BY <2>9, <2>10, Enters DEF Leave
  <2> QED
    BY <1>4, <2>2, <2>4, <2>5, <2>6, <2>7, <2>8, <2>10 DEF Steps, MdbGet, Copy, MdbWrite, MdbDel
<1>5. CASE ApplyBatch \/ ApplySteps
  <2>1. call'[Main].op \notin KeyOps
    <3>1. CASE ApplyBatch
      BY <3>1 DEF ApplyBatch, Enter, TypeOK, KeyOps
    <3>2. CASE ApplyCommit
      <4>1. call[Main] \in Apply /\ call' = [call EXCEPT ![Main].at = "begin"]
        BY <3>2, ApplyingAlone, CallKinds DEF ApplyCommit, Goto
      <4> QED
        BY <4>1 DEF TypeOK, Apply, KeyOps
    <3>3. CASE ApplyFails \/ ApplyBegin
      BY <3>3, Enters, IdleOp DEF ApplyFails, ApplyBegin
    <3> QED
      BY <1>5, <3>1, <3>2, <3>3 DEF ApplySteps
  <2> QED
    BY <2>1 DEF ValueInv, InCall
<1> QED
  BY <1>2, <1>3, <1>4, <1>5, NextCases DEF vars, shared, Open, OpenFails, Delete, Crash

(* Every step keeps what was promised, or an applyBatch that fails gives it *)
(* up.                                                                     *)
LEMMA PromiseStep == Inv /\ ValueInv /\ Promises /\ [Next]_vars => Promises'
<1> SUFFICES ASSUME Inv, ValueInv, Promises, [Next]_vars PROVE Promises'
  OBVIOUS
<1> USE NameAssumption DEF Inv
<1>1. ASSUME UNCHANGED <<working, promised, threads>>, phase \in {"new", "open"}
      PROVE  Promises'
  BY <1>1 DEF Promises
<1>2. ASSUME promised' = Nothing PROVE Promises'
  BY <1>2 DEF Promises, Nothing
<1>3. CASE UNCHANGED vars
  BY <1>3 DEF vars, db, reply, mode, Promises
<1>4. CASE Open \/ OpenFails \/ ApplyBatch \/ Crash
  BY <1>1, <1>4 DEF Open, OpenFails, ApplyBatch, MayStart, Crash, Applying, At, Closing,
                    db, reply, mode
<1>5. ASSUME NEW t \in Thread, NEW op \in KeyOps, NEW k \in Key, NEW c \in Content,
             Start(t, op, k, c)
      PROVE  Promises'
  BY <1>1, <1>5 DEF Start, MayStart, db, mode
<1>6. ASSUME NEW t \in Thread,
             SetKey(t) \/ SetData(t) \/ Lock(t) \/ MdbBegin(t) \/ MdbGet(t) \/ Copy(t)
      PROVE  Promises'
  BY <1>1, <1>6 DEF SetKey, SetData, Lock, MdbBegin, MdbGet, Copy, At, db, reply, mode
<1>7. ASSUME NEW t \in Thread, MdbWrite(t) \/ MdbDel(t) PROVE Promises'
  <2>1. phase = "open" /\ InCall(t) /\ call[t].at = "in" /\ UNCHANGED <<phase, mode>>
    BY <1>7 DEF MdbWrite, MdbDel, At, InCall
  <2>2. /\ call[t].key \in Key /\ call[t].mdbKey \in Key /\ call[t].val \in Content
        /\ working \in [Key -> Content] /\ promised \in [Key -> Content \cup {None}]
    BY <2>1, CallKinds, CallFields DEF TypeOK
  <2>3. CASE threads # {Main}
    <3>1. promised' = Nothing
      BY <1>7, <2>1, <2>3 DEF MdbWrite, MdbDel, Tell, Promises, mode
    <3> QED
      BY <1>2, <3>1
  <2>4. CASE threads = {Main}
    <3>1. t = Main
      BY <2>1, <2>4, IdleOp DEF CallersInv, Free, InCall
    <3>2. call[t].mdbKey = call[t].key
      BY <2>1, <2>4, <3>1 DEF BuffersInv
    <3>3. CASE MdbWrite(t)
      <4>1. call[t].mdbVal = call[t].val
        BY <2>1, <2>4, <3>1, <3>3 DEF ValueInv, MdbWrite
      <4>2. CASE UNCHANGED <<working, promised>>
        BY <1>1, <2>1, <4>2 DEF mode
      <4>3. CASE /\ working' = [working EXCEPT ![call[t].mdbKey] = call[t].mdbVal]
                 /\ Tell(call[t].key, call[t].val)
        BY <2>1, <2>2, <2>4, <3>2, <4>1, <4>3 DEF Promises, Tell, mode
      <4> QED
        BY <3>3, <4>2, <4>3 DEF MdbWrite
    <3>4. CASE MdbDel(t)
      <4>1. Tell(call[t].key, None) /\ working' \in {working, [working EXCEPT ![call[t].mdbKey] = Absent]}
        BY <3>4 DEF MdbDel
      <4> QED
        BY <2>1, <2>2, <2>4, <3>2, <4>1 DEF Promises, Tell, mode
    <3> QED
      BY <1>7, <3>3, <3>4
  <2> QED
    BY <2>3, <2>4
<1>8. CASE ApplyCommit
  BY <1>1, <1>8 DEF ApplyCommit, Commit, Applying, reply, mode
<1>9. CASE ApplyFails \/ ApplyBegin
  BY <1>2, <1>9 DEF ApplyFails, ApplyBegin
<1>10. CASE Delete
  BY <1>10 DEF Delete, Promises, Nothing, reply, mode
<1> QED
  BY <1>3, <1>4, <1>5, <1>6, <1>7, <1>8, <1>9, <1>10, NextCases DEF Steps, ApplySteps

(* What put has answered with true is kept until applyBatch has committed  *)
(* it or returns false, whatever LMDB answers to this or any other call.   *)
THEOREM PromisedIsKept == Spec => []PutsStay
<1>1. Init => ValueInv /\ Promises
  <2> SUFFICES ASSUME Init PROVE ValueInv /\ Promises
    OBVIOUS
  <2>1. call[Main] = Idle
    BY NameAssumption DEF Init
  <2>2. ValueInv
    BY <2>1, IdleOp DEF ValueInv, InCall
  <2>3. \A k \in Key : promised[k] = None
    BY DEF Init, Nothing
  <2>4. Promises
    BY <2>3 DEF Init, Promises
  <2> QED
    BY <2>2, <2>4
<1>2. Inv /\ Promises => PutsStay
  BY DEF Inv, HandleInv, TypeOK, Promises, PutsStay, Applying, AtBegin
<1> QED
  BY <1>1, <1>2, InvHolds, ValueStep, PromiseStep, PTL DEF Spec

-----------------------------------------------------------------------------
(* The adapter implements StateDBSpec, as long as LMDB meets no error.     *)

(* A step that changes nothing in the store and after which no get has just*)
(* been answered.                                                          *)
LEMMA Silent ==
    ASSUME UNCHANGED working, answer' = None
    PROVE  StateDB!Next
<1>1. StateDB!NoEffect
  BY DEF StateDB!NoEffect, Nothing
<1> QED
  BY <1>1 DEF StateDB!Next

(* While a call is under way no get has just been answered.                *)
LEMMA NoAnswerYet ==
    ASSUME Inv, NEW t \in Thread, call'[t] # Idle, t \in threads, UNCHANGED mode
    PROVE  answer' = None
BY DEF answer, Free, mode

(* A thread in a call on the database, seen before and after it moves on.  *)
LEMMA OnItsWayIsSilent ==
    ASSUME Inv, NEW t \in Thread, SetKey(t) \/ SetData(t) \/ Lock(t) \/ MdbBegin(t)
    PROVE  StateDB!Next
<1> USE NameAssumption DEF Inv
<1>1. InCall(t) /\ UNCHANGED <<db, mode>>
  BY DEF SetKey, SetData, Lock, MdbBegin, At, InCall
<1>2. t \in threads
  BY <1>1, IdleOp DEF CallersInv, InCall, Free
<1>3. call[t] \in Call
  BY <1>1, CallKinds
<1>4. call'[t] # Idle
  <2>1. CASE SetKey(t) \/ SetData(t) \/ Lock(t)
    <3>1. PICK at \in Stage : Goto(t, at)
      BY <2>1 DEF SetKey, SetData, Lock, Stage
    <3> QED
      BY ZenonT(60), <1>1, <3>1, Moves, CallFields, IdleOp
  <2>2. CASE MdbBegin(t)
    <3> DEFINE others == {u \in Thread \ {t} : Inside(u)}
               entered(k, c) == [call[t] EXCEPT !.at = "in", !.mdbKey = k, !.mdbVal = c,
                                                !.raced = others # {}]
    <3>1. PICK k, c : call'[t] = entered(k, c)
      BY ZenonT(60), <2>2 DEF MdbBegin
    <3>2. entered(k, c).op = call[t].op
      BY <1>3 DEF Call
    <3> QED
      BY ZenonT(60), <1>1, <3>1, <3>2, IdleOp DEF InCall
  <2> QED
    BY <2>1, <2>2
<1> QED
  BY <1>1, <1>2, <1>4, NoAnswerYet, Silent DEF db

(* What the end of a call answers: a get of a single thread its key, with  *)
(* what the main thread was given; everything else nothing.                *)
LEMMA LeaveAnswers ==
    ASSUME Inv, NEW t \in Thread, InCall(t), NEW ok \in BOOLEAN, Leave(t, ok), UNCHANGED mode
    PROVE  /\ call[t].op # "get" => answer' = None
           /\ threads # {Main} => answer' = None
           /\ threads = {Main} /\ call[t].op = "get"
                => t = Main /\ answer' = <<call[t].key, IF ok THEN buffer' ELSE Absent>>
<1> USE NameAssumption DEF Inv
<1>1. t \in threads /\ call[t].key \in Key
  BY IdleOp, CallKinds, CallFields DEF CallersInv, InCall, Free
<1>2. call'[t] = Idle
  BY Enters DEF Leave
<1>3. t = Main => result' = [key |-> IF call[t].op = "get" THEN call[t].key ELSE None, ok |-> ok]
  BY DEF Leave, Answer
<1>4. threads # {Main} => answer' = None
  BY DEF answer, mode
<1>5. ASSUME threads = {Main}
      PROVE  t = Main /\ answer' = IF call[t].op = "get"
                                   THEN <<call[t].key, IF ok THEN buffer' ELSE Absent>> ELSE None
  <2>1. t = Main
    BY <1>1, <1>5
  <2>2. Free(Main)' /\ threads' = {Main}
    BY <1>2, <1>5, <2>1 DEF Free, mode
  <2>3. CASE call[t].op = "get"
    <3>1. result'.key = call[t].key /\ result'.ok = ok /\ result'.key # None
      BY <1>1, <1>3, <2>1, <2>3
    <3> QED
      BY <2>1, <2>2, <2>3, <3>1 DEF answer
  <2>4. CASE call[t].op # "get"
    <3>1. result'.key = None
      BY <1>3, <2>1, <2>4
    <3> QED
      BY <2>1, <2>4, <3>1 DEF answer
  <2> QED
    BY <2>3, <2>4
<1> QED
  BY <1>4, <1>5

(* A get by the only thread answers what the store holds for its key.      *)
LEMMA GetIsGet ==
    ASSUME Inv, NEW t \in Thread, MdbGet(t) \/ Copy(t), ~errors
    PROVE  StateDB!Next
<1> USE NameAssumption DEF Inv
<1>1. phase = "open" /\ InCall(t) /\ call[t].op = "get" /\ UNCHANGED <<db, mode>>
  BY DEF MdbGet, Copy, At, InCall, MutexInv
<1>2. handle = "live" /\ t \in threads
  BY <1>1, NotAtBegin, IdleOp DEF HandleInv, CallersInv, InCall, Free
<1>3. call[t].key \in Key /\ call[t].key # None
  BY <1>1, CallKinds, CallFields
<1>4. ASSUME NEW ok \in BOOLEAN, Leave(t, ok), threads = {Main},
             (IF ok THEN buffer' ELSE Absent) = working[call[t].key]
      PROVE  StateDB!Next
  <2>1. StateDB!Get(call[t].key)
    BY <1>1, <1>4, LeaveAnswers DEF StateDB!Get, Nothing, db
  <2> QED
    BY <1>3, <2>1 DEF StateDB!Next
<1>5. ASSUME threads = {Main}
      PROVE  /\ t = Main /\ call[t].raced = FALSE
             /\ call[t].at \in {"in", "copy"} => call[t].mdbKey = call[t].key
             /\ call[t].at = "copy" => dataBuf = [owner |-> Main, val |-> working[call[t].key]]
  BY <1>1, <1>2, <1>5 DEF BuffersInv
<1>6. ASSUME NEW ok \in BOOLEAN, Leave(t, ok), threads # {Main} PROVE StateDB!Next
  BY <1>1, <1>6, LeaveAnswers, Silent DEF db
<1>7. CASE MdbGet(t)
  <2>1. call[t].at = "in"
    BY <1>7 DEF MdbGet, At
  <2>2. CASE Goto(t, "copy")
    <3>1. call'[t] # Idle
      BY <1>1, <2>2, Moves, CallFields, IdleOp DEF Stage
    <3> QED
      BY <1>1, <1>2, <3>1, NoAnswerYet, Silent DEF db
  <2>3. CASE Leave(t, FALSE) /\ ~Goto(t, "copy")
    <3>1. Absent \in IF call[t].raced THEN Content ELSE {working[call[t].mdbKey]}
      BY <1>2, <1>7, <2>3 DEF MdbGet
    <3>2. threads = {Main} => working[call[t].key] = Absent
      BY <1>5, <2>1, <3>1
    <3> QED
      BY <1>4, <1>6, <2>3, <3>2
  <2> QED
    BY <1>7, <2>2, <2>3 DEF MdbGet
<1>8. CASE Copy(t)
  <2>1. call[t].at = "copy" /\ Leave(t, TRUE)
    BY <1>8 DEF Copy, At
  <2>2. ASSUME threads = {Main} PROVE buffer' = working[call[t].key]
    <3>1. t = Main /\ dataBuf = [owner |-> Main, val |-> working[call[t].key]]
      BY <1>5, <2>1, <2>2
    <3>2. ~Free(Main) /\ Main # None
      BY <1>1, <3>1, IdleOp DEF Free, InCall
    <3>3. DataRead = {working[call[t].key]}
      BY <3>1, <3>2 DEF DataRead
    <3> QED
      BY <1>8, <3>1, <3>3 DEF Copy
  <2> QED
    BY <1>4, <1>6, <2>1, <2>2
<1> QED
  BY <1>7, <1>8

(* A write is made at once, or refused without an effect.                  *)
LEMMA WriteIsWrite ==
    ASSUME Inv, NEW t \in Thread, MdbWrite(t) \/ MdbDel(t)
    PROVE  StateDB!Next
<1> USE NameAssumption DEF Inv
<1>1. InCall(t) /\ call[t].op # "get" /\ UNCHANGED mode
  BY DEF MdbWrite, MdbDel, At, InCall, Writes
<1>2. call[t].mdbKey \in Key /\ call[t].mdbVal \in Content /\ Absent \in Content
  BY <1>1, CallKinds, CallFields DEF Content
<1>3. PICK ok \in BOOLEAN : Leave(t, ok)
  BY DEF MdbWrite, MdbDel
<1>4. answer' = None
  BY <1>1, <1>3, LeaveAnswers
<1>5. CASE UNCHANGED working
  BY <1>4, <1>5, Silent
<1>6. ASSUME NEW c \in Content, working' = [working EXCEPT ![call[t].mdbKey] = c]
      PROVE  StateDB!Next
  <2>1. StateDB!Write(call[t].mdbKey, c)
    BY <1>4, <1>6 DEF StateDB!Write, Nothing
  <2>2. c \in StateDB!Content
    BY <1>6 DEF Content, StateDB!Content
  <2> QED
    BY <1>2, <2>1, <2>2 DEF StateDB!Next
<1> QED
  BY <1>2, <1>5, <1>6 DEF MdbWrite, MdbDel

(* Every step is one of the contract's, or changes nothing it is about, as *)
(* long as LMDB meets no error.                                            *)
LEMMA RefinementStep ==
    ASSUME Inv, [Next]_vars
    PROVE  [~errors => StateDB!Next]_(StateDB!vars)
<1> USE NameAssumption
<1>1. CASE UNCHANGED vars \/ Crash
  BY <1>1 DEF vars, Crash, db, shared, reply, mode, StateDB!vars, Nothing, answer, Free
<1>2. CASE Open
  <2>1. result'.key = None /\ UNCHANGED working
    BY <1>2 DEF Open, Answer
  <2> QED
    BY <2>1, Silent DEF answer
<1>3. CASE OpenFails
  BY <1>3 DEF OpenFails
<1>4. ASSUME NEW t \in Thread, NEW op \in KeyOps, NEW k \in Key, NEW c \in Content,
             Start(t, op, k, c)
      PROVE  StateDB!Next
  <2>1. t \in threads /\ UNCHANGED <<working, mode>>
    BY <1>4 DEF Start, MayStart, db
  <2>2. call'[t].op = op
    BY <1>4 DEF Start, Enter, Inv, TypeOK
  <2> QED
    BY <2>1, <2>2, NoAnswerYet, Silent, IdleOp
<1>5. ASSUME NEW t \in Thread, Steps(t), ~errors PROVE StateDB!Next
  BY <1>5, OnItsWayIsSilent, GetIsGet, WriteIsWrite DEF Steps
<1>6. CASE ApplyBatch
  <2>1. call'[Main].op = "apply" /\ Main \in threads /\ UNCHANGED <<working, mode>>
    BY <1>6 DEF ApplyBatch, MayStart, Enter, db, Inv, TypeOK
  <2> QED
    BY <2>1, NoAnswerYet, Silent, IdleOp DEF Idle
<1>7. ASSUME ApplySteps, ~errors PROVE StateDB!Next
  <2>1. CASE ApplyCommit
    <3>1. call[Main] \in Apply /\ Main \in threads /\ UNCHANGED <<working, mode>>
          /\ call' = [call EXCEPT ![Main].at = "begin"]
      BY <2>1, ApplyingAlone, CallKinds DEF ApplyCommit, Commit, Goto, Inv
    <3>2. call'[Main].op = "apply"
      BY <3>1 DEF Inv, TypeOK, Apply
    <3> QED
      BY <3>1, <3>2, NoAnswerYet, Silent DEF Idle
  <2>2. CASE ApplyFails
    BY <1>7, <2>2, ApplyingAlone DEF ApplyFails, Inv, HandleInv, AtBegin
  <2>3. CASE ApplyBegin
    <3>1. result'.key = None /\ UNCHANGED working
      BY <2>3 DEF ApplyBegin, Answer
    <3> QED
      BY <3>1, Silent DEF answer
  <2> QED
    BY <1>7, <2>1, <2>2, <2>3 DEF ApplySteps
<1>8. ASSUME Delete, ~errors PROVE UNCHANGED StateDB!vars
  <2>1. ~AtBegin
    BY <1>8, IdleOp DEF Delete, Closing, Free, AtBegin, Idle
  <2>2. handle = "live"
    BY <1>8, <2>1 DEF Delete, Closing, Inv, HandleInv
  <2>3. UNCHANGED <<working, call, reply, mode>>
    BY <1>8, <2>2 DEF Delete, Commit
  <2> QED
    BY <2>3 DEF StateDB!vars, Nothing, answer, Free, reply, mode
<1> QED
  BY <1>1, <1>2, <1>3, <1>4, <1>5, <1>6, <1>7, <1>8, NextCases

(* As long as LMDB meets no error, whatever the adapter's threads do is    *)
(* what a StateDB that writes its batches at once may do, and where one    *)
(* thread uses it, so is what every get returns.                           *)
THEOREM LmdbIsAStateDB == Spec => ImplementsStateDB
<1>1. Init => StateDB!Init
  BY NameAssumption DEF Init, StateDB!Init, StateDB!Content, Content, Nothing, answer
<1> QED
  BY <1>1, InvHolds, RefinementStep, PTL DEF Spec, ImplementsStateDB
=============================================================================

-------------------------- MODULE LmdbLocks_proofs --------------------------
(***************************************************************************)
(* Proofs about LmdbLocks, for any number of processes, threads and slots, *)
(* and any bound on opens, transactions and checks.                        *)
(***************************************************************************)
EXTENDS LmdbLocks, Extrema, TLAPS

-----------------------------------------------------------------------------
(* The inductive invariant, in parts.                                      *)

Place == {"idle", "claim", "reset", "own", "load", "store", "verify", "reading",
          "check", "dead", "clear", "begin", "write", "scan", "compare", "publish"}

Claiming   == {"claim", "reset", "own"}
InRead     == {"load", "store", "verify", "reading"}
Checking   == {"check", "dead", "clear"}
WritePlace == {"begin", "write", "scan", "compare", "publish"}

Shape ==
    /\ TypeOK
    /\ pc \in [Thread -> Place]
    /\ notls \in [Proc -> BOOLEAN]
    /\ pidOf \in [Thread -> Proc]
    /\ {opens, begun, checks} \subseteq Nat

(* The lock on the first byte: exclusive from the erasing of the mutexes to*)
(* the initialised region, and then one process has it at all.             *)
FileLocks ==
    /\ \A p \in Proc :
          /\ flock[p] = "none" <=> env[p] \in {"closed", "wait"}
          /\ env[p] \in {"erase", "mutexes", "region"} => flock[p] = "excl"
          /\ env[p] \in {"attach", "open", "closing"} => flock[p] = "shared"
    /\ \A p, q \in Proc : p # q /\ flock[p] = "excl" => flock[q] = "none"

(* The threads of a process that has not opened the environment do nothing.*)
IdleOutside ==
    \A t \in Thread : env[pidOf[t]] # "open" => pc[t] = "idle" /\ slot[t] = NoSlot

(* The writer mutex is held by a thread in a write transaction, or by one  *)
(* that is repairing it.                                                   *)
WriterPlaces ==
    \A t \in Thread : wmutex = t => pc[t] \in Checking \cup WritePlace

SlotInv ==
    /\ \A t \in Thread :
          slot[t] # NoSlot => /\ slot[t] <= numreaders
                              /\ reader[slot[t]].pid = pidOf[t]
                              /\ pidOf[t] \in pidlock
                              /\ pc[t] \in InRead \/ reader[slot[t]].txnid = NoTxnid
    /\ \A t, u \in Thread : slot[t] = slot[u] /\ t # u => slot[t] = NoSlot

(* A thread that claims a slot has its process's pid locked, and the slot  *)
(* it is about to own is nobody's; a reader's txnid is in its slot.        *)
ReaderInv ==
    \A t \in Thread :
       /\ pc[t] \in Claiming => pidOf[t] \in pidlock /\ slot[t] = NoSlot
       /\ pc[t] = "own" => /\ local[t].at \in 1 .. numreaders
                            /\ reader[local[t].at].pid = NoPid /\ reader[local[t].at].txnid = NoTxnid
       /\ pc[t] \in InRead => slot[t] # NoSlot
       /\ pc[t] \in {"verify", "reading"} => reader[slot[t]].txnid = local[t].snap

(* The loops over the table stay inside it.                                *)
Ranges ==
    \A t \in Thread :
       /\ pc[t] \in {"idle", "claim", "reset"} => local[t] = NoLocal
       /\ pc[t] = "check" => local[t].at >= 1
       /\ pc[t] \in {"dead", "clear", "compare"} => local[t].at \in 1 .. MaxReaders
       /\ pc[t] = "scan" => local[t].at \in 0 .. MaxReaders
       /\ pc[t] \in {"write", "scan", "compare", "publish"} => local[t].snap >= 1

(* No txnid is larger than the number of transactions begun, and while one *)
(* of them has still to commit all are smaller.                            *)
MetaBound ==
    /\ begun <= MaxTxns
    /\ meta <= begun /\ mti_txnid <= begun /\ \A p \in Proc : header[p] <= begun
    /\ \A t \in Thread : wmutex = t /\ pc[t] # "publish" =>
          meta < begun /\ mti_txnid < begun /\ \A p \in Proc : header[p] < begun
    /\ \A t \in Thread : pc[t] \in {"write", "scan", "compare"} => local[t].snap <= begun
    /\ \A t \in Thread : pc[t] = "publish" => local[t].snap = meta

(* Where mti_txnid may differ from the data file: a writer is between the  *)
(* two, or was killed there, or the region has just been initialised.      *)
Unsettled ==
    wmutex \in {Dead, Lost, Stuck} \/ \E t \in Thread : wmutex = t /\ pc[t] = "publish"

TxnidInv ==
    ~setBack =>
       /\ \/ mti_txnid = meta
          \/ Unsettled
          \/ \A p \in Proc : env[p] \notin {"share", "open", "closing"}
       /\ \A p \in Proc : /\ header[p] <= meta
                          /\ env[p] = "txnid" /\ header[p] < meta =>
                                header[p] < mti_txnid \/ Unsettled
       /\ \A t \in Thread : pc[t] \in {"write", "scan", "compare"} => local[t].snap = meta + 1

(* What the check has still to clear is ahead of it, or what it is about to*)
(* clear.                                                                  *)
CheckInv ==
    \A t \in Thread :
       /\ local[t].left \cap pidlock = {} /\ pidOf[t] \notin local[t].left
       /\ pc[t] \in Checking =>
             \A s \in 1 .. numreaders : reader[s].pid \in local[t].left =>
                /\ s \in local[t].at .. local[t].num
                /\ reader[s].pid \in local[t].pids
                      => pc[t] \in {"dead", "clear"} /\ reader[s].pid = local[t].pid
                /\ s = local[t].at /\ pc[t] \in {"dead", "clear"} => reader[s].pid = local[t].pid

(* A reader is either ahead of the scan or not older than what it has found.*)
OldestInv ==
    /\ \A w \in Thread :
          /\ pc[w] \in Checking \cup {"begin", "write"} => local[w].oldest = 0
          /\ ~setBack /\ pc[w] = "write" => local[w].snap - 1 <= mti_txnid
          /\ ~setBack /\ pc[w] \in {"scan", "compare", "publish"} => local[w].oldest <= mti_txnid
    /\ \A w, r \in Thread :
          ~setBack /\ pc[r] = "reading" =>
             /\ pc[w] \in {"scan", "compare"} =>
                   slot[r] <= local[w].at \/ local[w].oldest <= local[r].snap
             /\ pc[w] = "publish" => local[w].oldest <= local[r].snap

Inv ==
    /\ Shape /\ FileLocks /\ IdleOutside /\ MutexesHeld /\ WriterPlaces
    /\ SlotInv /\ ReaderInv /\ Ranges /\ MetaBound /\ TxnidInv /\ CheckInv /\ OldestInv

-----------------------------------------------------------------------------
(* The lock on the first byte of the lock file.                            *)

(* The byte is locked as each process's place says, and exclusively by     *)
(* one.                                                                    *)
LEMMA FileLocksStep == Inv /\ [Next]_vars => FileLocks'
<1> SUFFICES ASSUME Inv, [Next]_vars PROVE FileLocks'
  OBVIOUS
<1> USE DEF Inv, FileLocks, At
<1>0. flock \in [Proc -> {"none", "shared", "excl"}] /\ DOMAIN env = Proc
  BY DEF Shape, TypeOK
<1>1. ASSUME UNCHANGED <<flock, env>> PROVE FileLocks'
  BY <1>1
<1>2. ASSUME NEW p \in Proc, EnvNext(p) PROVE FileLocks'
  <2>1. CASE Open(p)
    BY <1>0, <2>1 DEF Open
  <2>2. CASE WaitShared(p)
    BY <1>0, <2>2 DEF WaitShared
  <2>3. CASE EraseMutexes(p) \/ InitMutexes(p) \/ InitRegion(p) \/ Attach(p) \/ ReadHeader(p)
             \/ SetTxnid(p) \/ Close(p)
    BY <1>0, <2>3 DEF EraseMutexes, InitMutexes, InitRegion, Attach, ReadHeader, SetTxnid, Close,
                      fcntl
  <2>4. CASE ShareLock(p)
    BY <1>0, <2>4 DEF ShareLock
  <2>5. CASE OpenFails(p) \/ CloseLocks(p) \/ Die(p)
    BY <1>0, <2>5 DEF OpenFails, CloseLocks, Die
  <2>6. CASE CloseSlot(p)
    BY <1>1, <2>6 DEF CloseSlot, fcntl
  <2> QED
    BY <1>2, <2>1, <2>2, <2>3, <2>4, <2>5, <2>6 DEF EnvNext
<1>3. ASSUME NEW t \in Thread, ReaderNext(t) \/ CheckNext(t) \/ WriterNext(t) PROVE FileLocks'
  <2>1. UNCHANGED <<flock, env>>
    <3>1. CASE ReaderNext(t)
      BY SMTT(40), <3>1 DEF ReaderNext, BeginRead, LockClaim, LockClaimFails, ResetSlot, ReadersFull,
                  OwnSlot, LoadTxnid, StoreTxnid, VerifyTxnid, EndRead, GiveSlot, fcntl, envs
    <3>2. CASE CheckNext(t)
      BY SMTT(40), <3>2 DEF CheckNext, ReaderCheck, CheckFails, CheckSlot, LockCheck, LockCheckFails,
                  ClearSlots, CheckReturns, fcntl, envs
    <3>3. CASE WriterNext(t)
      BY SMTT(40), <3>3 DEF WriterNext, LockWriter, RepairWriter, BeginWrite, FindOldest, ScanPid,
                  ScanTxnid, WriteMeta, Publish, Abort, fcntl, envs
    <3> QED
      BY <1>3, <3>1, <3>2, <3>3
  <2> QED
    BY SMTT(40), <1>1, <2>1
<1>4. CASE UNCHANGED vars
  BY SMTT(40), <1>1, <1>4 DEF vars, fcntl, envs
<1> QED
  BY <1>2, <1>3, <1>4 DEF Next

-----------------------------------------------------------------------------
(* What a step leaves alone.                                               *)

(* No step changes the flags or moves a thread to another process, and each*)
(* action of a thread is one of a process that has the environment open and*)
(* leaves the other threads, their slots and their locals as they are, but *)
(* for the dead processes a check has still to find.                       *)
Kept(u) ==
    /\ pc'[u] = pc[u] /\ slot'[u] = slot[u]
    /\ local'[u].snap = local[u].snap /\ local'[u].at = local[u].at /\ local'[u].num = local[u].num
    /\ local'[u].oldest = local[u].oldest /\ local'[u].pids = local[u].pids
    /\ local'[u].pid = local[u].pid

(* The flags never change, and each thread stays in its process.           *)
LEMMA FixedStep == [Next]_vars => UNCHANGED fixed
<1> SUFFICES ASSUME [Next]_vars PROVE UNCHANGED fixed
  OBVIOUS
<1>1. ASSUME NEW p \in Proc, EnvNext(p) PROVE UNCHANGED fixed
  BY ZenonT(60), <1>1 DEF envs, EnvNext, Open, WaitShared, EraseMutexes, InitMutexes, InitRegion, Attach,
       ReadHeader, SetTxnid, ShareLock, OpenFails, Close, CloseSlot, CloseLocks, Die
<1>2. ASSUME NEW t \in Thread, ReaderNext(t) PROVE UNCHANGED fixed
  BY ZenonT(60), <1>2 DEF envs, ReaderNext, BeginRead, LockClaim, LockClaimFails, ResetSlot,
       ReadersFull, OwnSlot, LoadTxnid, StoreTxnid, VerifyTxnid, EndRead, GiveSlot
<1>3. ASSUME NEW t \in Thread, CheckNext(t) PROVE UNCHANGED fixed
  BY ZenonT(60), <1>3 DEF envs, CheckNext, ReaderCheck, CheckFails, CheckSlot, LockCheck, LockCheckFails,
       ClearSlots, CheckReturns
<1>4. ASSUME NEW t \in Thread, WriterNext(t) PROVE UNCHANGED fixed
  BY ZenonT(60), <1>4 DEF envs, WriterNext, LockWriter, RepairWriter, BeginWrite, FindOldest, ScanPid,
       ScanTxnid, WriteMeta, Publish, Abort
<1> QED
  BY ZenonT(60), <1>1, <1>2, <1>3, <1>4 DEF Next, vars, envs

(* A thread acts only in a process that has the environment open.          *)
LEMMA ThreadOpen ==
    ASSUME Inv, NEW t \in Thread, ReaderNext(t) \/ CheckNext(t) \/ WriterNext(t)
    PROVE  /\ env[pidOf[t]] = "open"
           /\ UNCHANGED <<env, fixed, flock, header, setBack, robust, magic, opens>>
<1>1. env[pidOf[t]] # "open" => pc[t] = "idle" /\ slot[t] = NoSlot
  BY DEF Inv, IdleOutside
<1> QED
  BY ZenonT(60), <1>1 DEF ReaderNext, CheckNext, WriterNext, BeginRead, LockClaim, LockClaimFails, ResetSlot,
              ReadersFull, OwnSlot, LoadTxnid, StoreTxnid, VerifyTxnid, EndRead, GiveSlot,
              ReaderCheck, CheckFails, CheckSlot, LockCheck, LockCheckFails, ClearSlots,
              CheckReturns, LockWriter, RepairWriter, BeginWrite, FindOldest, ScanPid, ScanTxnid,
              WriteMeta, Publish, Abort, fcntl, envs, Checked, Writing, region, mutexes, fixed, bounds

(* A thread's step leaves the other threads alone.                         *)
LEMMA ThreadKeeps ==
    ASSUME Inv, NEW t \in Thread, ReaderNext(t) \/ CheckNext(t) \/ WriterNext(t),
           NEW u \in Thread, u # t
    PROVE  Kept(u)
<1>1. pc \in [Thread -> Place] /\ slot \in [Thread -> Slot \cup {NoSlot}] /\ local \in [Thread -> Locals]
  BY DEF Inv, Shape, TypeOK
<1>2. CASE ReaderNext(t)
  BY <1>1, <1>2 DEF ReaderNext, BeginRead, LockClaim, LockClaimFails, ResetSlot,
              ReadersFull, OwnSlot, LoadTxnid, StoreTxnid, VerifyTxnid, EndRead, GiveSlot,
              Kept, Goto, LockReaders, Locals, threads
<1>3. CASE CheckNext(t)
  BY ZenonT(60), <1>1, <1>3 DEF CheckNext,
              ReaderCheck, CheckFails, CheckSlot, LockCheck, LockCheckFails, ClearSlots,
              CheckReturns, Kept, Goto, LockReaders, StartCheck, CheckEnds, Locals, threads
<1>4. CASE WriterNext(t)
  BY <1>1, <1>4 DEF WriterNext, LockWriter, RepairWriter, BeginWrite, FindOldest, ScanPid, ScanTxnid,
              WriteMeta, Publish, Abort, Kept, Goto, StartCheck, EndWrite, Locals, threads
<1> QED
  BY <1>2, <1>3, <1>4

-----------------------------------------------------------------------------
(* The threads of a process that has not opened the environment.           *)

(* A process that closes or dies leaves none of its threads in a call.     *)
LEMMA IdleOutsideStep == Inv /\ [Next]_vars => IdleOutside'
<1> SUFFICES ASSUME Inv, [Next]_vars PROVE IdleOutside'
  OBVIOUS
<1>0. /\ IdleOutside /\ UNCHANGED pidOf /\ DOMAIN env = Proc /\ pidOf \in [Thread -> Proc]
      /\ pc \in [Thread -> Place] /\ slot \in [Thread -> Slot \cup {NoSlot}]
  BY FixedStep DEF Inv, Shape, TypeOK, fixed
<1>1. ASSUME NEW p \in Proc, EnvNext(p) PROVE IdleOutside'
  <2>1. CASE Close(p) \/ Die(p)
    BY <1>0, <2>1 DEF IdleOutside, Close, Die, At, Of, threads
  <2>2. CASE CloseSlot(p)
    BY <1>0, <2>2 DEF IdleOutside, CloseSlot, threads
  <2>3. CASE ~(Close(p) \/ Die(p) \/ CloseSlot(p))
    <3>1. UNCHANGED <<pc, slot>> /\ env[p] # "open" /\ \A q \in Proc \ {p} : env'[q] = env[q]
      BY <1>0, <1>1, <2>3 DEF EnvNext, Open, WaitShared, EraseMutexes, InitMutexes, InitRegion, Attach,
           ReadHeader, SetTxnid, ShareLock, OpenFails, CloseLocks, At, threads
    <3> QED
      BY <1>0, <3>1 DEF IdleOutside
  <2> QED
    BY <2>1, <2>2, <2>3
<1>2. ASSUME NEW t \in Thread, ReaderNext(t) \/ CheckNext(t) \/ WriterNext(t) PROVE IdleOutside'
  BY <1>0, <1>2, ThreadOpen, ThreadKeeps DEF IdleOutside, Kept
<1>3. CASE UNCHANGED vars
  BY <1>0, <1>3 DEF IdleOutside, vars, envs, threads
<1> QED
  BY <1>1, <1>2, <1>3 DEF Next

-----------------------------------------------------------------------------
(* The mutexes.                                                            *)

(* No step takes a mutex from the thread that holds it.                    *)
LEMMA MutexesStep == Inv /\ [Next]_vars => MutexesHeld' /\ WriterPlaces'
<1> SUFFICES ASSUME Inv, [Next]_vars PROVE MutexesHeld' /\ WriterPlaces'
  OBVIOUS
<1> USE DEF Checking, WritePlace
<1>0. /\ MutexesHeld /\ WriterPlaces /\ IdleOutside /\ FileLocks
      /\ UNCHANGED pidOf /\ pidOf \in [Thread -> Proc]
      /\ pc \in [Thread -> Place] /\ DOMAIN env = Proc
      /\ Thread \cap {Free, Dead, Lost, Stuck} = {}
  BY FixedStep, Assumptions DEF Inv, Shape, TypeOK, fixed
<1>1. ASSUME UNCHANGED <<rmutex, wmutex, pc>> PROVE MutexesHeld' /\ WriterPlaces'
  BY <1>0, <1>1 DEF MutexesHeld, WriterPlaces
<1>2. ASSUME NEW p \in Proc, EnvNext(p) PROVE MutexesHeld' /\ WriterPlaces'
  <2>1. CASE EraseMutexes(p)
    <3>1. \A t \in Thread : env[pidOf[t]] # "open"
      BY <1>0, <2>1 DEF EraseMutexes, FileLocks
    <3>2. \A t \in Thread : pc[t] = "idle"
      BY <1>0, <3>1 DEF IdleOutside
    <3> QED
      BY <1>0, <2>1, <3>2 DEF EraseMutexes, MutexesHeld, WriterPlaces, threads
  <2>2. CASE Die(p)
    BY <1>0, <2>2 DEF Die, Orphan, Of, MutexesHeld, WriterPlaces
  <2>3. CASE ~(EraseMutexes(p) \/ Die(p))
    <3>1. UNCHANGED <<rmutex, wmutex, pc>>
      BY <1>2, <2>3 DEF EnvNext, Open, WaitShared, InitMutexes, InitRegion, Attach, ReadHeader,
           SetTxnid, ShareLock, OpenFails, Close, CloseSlot, CloseLocks, threads, mutexes
    <3> QED
      BY <1>1, <3>1
  <2> QED
    BY <2>1, <2>2, <2>3
<1>3. ASSUME NEW t \in Thread, ReaderNext(t) \/ CheckNext(t) \/ WriterNext(t)
      PROVE  MutexesHeld' /\ WriterPlaces'
  <2>1. \A u \in Thread \ {t} : pc'[u] = pc[u]
    BY <1>3, ThreadKeeps DEF Kept
  <2>2. CASE ReaderNext(t)
    BY SMTT(40), <1>0, <2>1, <2>2 DEF ReaderNext, BeginRead, LockClaim, LockClaimFails, ResetSlot,
          ReadersFull, OwnSlot, LoadTxnid, StoreTxnid, VerifyTxnid, EndRead, GiveSlot,
          Goto, LockReaders, LockReadersFails, mutexes, MutexesHeld, WriterPlaces
  <2>3. CASE CheckNext(t)
    <3>1. CASE ReaderCheck(t) \/ CheckFails(t) \/ CheckReturns(t)
      BY SMTT(40), <1>0, <2>1, <3>1 DEF ReaderCheck, CheckFails, CheckReturns, Goto, StartCheck, CheckEnds,
            mutexes, MutexesHeld, WriterPlaces
    <3>2. CASE LockCheck(t) \/ LockCheckFails(t)
      BY SMTT(40), <1>0, <2>1, <3>2 DEF LockCheck, LockCheckFails, Goto, LockReaders, LockReadersFails,
            CheckEnds, mutexes, MutexesHeld, WriterPlaces
    <3>3. CASE CheckSlot(t) \/ ClearSlots(t)
      BY SMTT(40), <1>0, <2>1, <3>3 DEF CheckSlot, ClearSlots, Goto, mutexes, MutexesHeld, WriterPlaces
    <3> QED
      BY <2>3, <3>1, <3>2, <3>3 DEF CheckNext
  <2>4. CASE WriterNext(t)
    BY <1>0, <2>1, <2>4 DEF WriterNext, LockWriter, RepairWriter, BeginWrite, FindOldest, ScanPid,
          ScanTxnid, WriteMeta, Publish, Abort, Goto, StartCheck, EndWrite, Writing,
          mutexes, MutexesHeld, WriterPlaces
  <2> QED
    BY <1>3, <2>2, <2>3, <2>4
<1>4. CASE UNCHANGED vars
  BY <1>1, <1>4 DEF vars, mutexes, threads
<1> QED
  BY <1>2, <1>3, <1>4 DEF Next

-----------------------------------------------------------------------------
(* The reader table.                                                       *)

Table == [Slot -> [pid : Proc \cup {NoPid}, txnid : 0 .. NoTxnid]]

(* What the actions that loop over it, or pick a slot of it, do to the table.*)
LEMMA CloseSlotTable ==
    ASSUME Inv, NEW p \in Proc, CloseSlot(p)
    PROVE  /\ closeReaders[p] \in Slot
           /\ reader' \in Table
           /\ \A s \in Slot : /\ reader'[s].txnid = reader[s].txnid
                              /\ reader'[s].pid = IF s = closeReaders[p] /\ reader[s].pid = p
                                                  THEN NoPid ELSE reader[s].pid
<1> DEFINE i == closeReaders[p]
           q == IF reader[i].pid = p THEN NoPid ELSE reader[i].pid
<1>1. reader \in Table /\ i \in Slot
  BY SMTT(40) DEF Inv, Shape, TypeOK, Table, CloseSlot, Slot
<1>2. q \in Proc \cup {NoPid}
  BY <1>1 DEF Table
<1>3. reader' = [reader EXCEPT ![i].pid = q]
  BY Zenon DEF CloseSlot
<1> HIDE DEF i, q
<1>4. reader' \in Table /\ \A s \in Slot : /\ reader'[s].txnid = reader[s].txnid
                              /\ reader'[s].pid = IF s = i THEN q ELSE reader[s].pid
  BY <1>1, <1>2, <1>3 DEF Table
<1> QED
  BY <1>1, <1>4 DEF i, q

(* What closing the environment leaves of the table.                       *)
LEMMA SweptTable ==
    ASSUME Inv, NEW p \in Proc
    PROVE  /\ Swept(p) \in Table
           /\ \A s \in Slot : /\ Swept(p)[s].txnid = reader[s].txnid
                              /\ Swept(p)[s].pid = IF s <= numreaders /\ Gone(reader[s].pid, p)
                                                   THEN NoPid ELSE reader[s].pid
<1>1. reader \in Table
  BY DEF Inv, Shape, TypeOK, Table
<1> QED
  BY <1>1 DEF Swept, Table

(* What a check leaves of the table.                                       *)
LEMMA ClearSlotsTable ==
    ASSUME Inv, NEW t \in Thread, ClearSlots(t)
    PROVE  /\ reader' \in Table
           /\ \A s \in Slot :
                 /\ reader'[s].txnid = reader[s].txnid
                 /\ reader'[s].pid = IF /\ s \in local[t].at .. local[t].num
                                        /\ reader[s].pid = local[t].pid
                                        /\ reader[s].pid \notin pidlock
                                     THEN NoPid ELSE reader[s].pid
<1>1. reader \in Table
  BY DEF Inv, Shape, TypeOK, Table
<1> QED
  BY <1>1 DEF ClearSlots, Table

(* The slot that is reset is the first one that is free.                   *)
LEMMA ResetSlotTable ==
    ASSUME Inv, NEW t \in Thread, ResetSlot(t)
    PROVE  \E s \in Slot :
              /\ reader[s].pid = NoPid \/ s = numreaders + 1
              /\ s <= numreaders + 1
              /\ reader' = [reader EXCEPT ![s] = Blank]
              /\ numreaders' = IF s > numreaders THEN s ELSE numreaders
              /\ closeReaders' = [closeReaders EXCEPT ![pidOf[t]] = numreaders']
              /\ local' = [local EXCEPT ![t].at = s]
<1> DEFINE N == IF Unused = {} THEN numreaders + 1 ELSE Min(Unused)
<1>1. numreaders \in 0 .. MaxReaders /\ MaxReaders \in Nat /\ NoPid \notin Proc
  BY Assumptions DEF Inv, Shape, TypeOK
<1>2. PICK s \in {N} : /\ s <= MaxReaders
                       /\ reader' = [reader EXCEPT ![s] = Blank]
                       /\ numreaders' = Max({numreaders, s})
                       /\ closeReaders' = [closeReaders EXCEPT ![pidOf[t]] = numreaders']
                       /\ local' = [local EXCEPT ![t].at = s]
  BY Zenon DEF ResetSlot
<1>3. /\ s \in Slot /\ s <= numreaders + 1
      /\ reader[s].pid = NoPid \/ s = numreaders + 1
      /\ Max({numreaders, s}) = IF s > numreaders THEN s ELSE numreaders
  <2>1. CASE Unused = {}
    <3>1. s = numreaders + 1 /\ s \in Slot
      BY <1>1, <1>2, <2>1 DEF Slot
    <3> QED
      BY <1>1, <3>1, MaxOfTwo
  <2>2. CASE Unused # {}
    <3>1. Unused \in SUBSET (0 .. numreaders) /\ numreaders \in Nat
      BY <1>1 DEF Unused
    <3>2. s \in Unused
      BY <1>2, <2>2, <3>1, MinOfSome
    <3>3. s \in 1 .. numreaders /\ s \in Slot /\ reader[s].pid = NoPid
      BY <1>1, <3>2 DEF Unused, Slot
    <3> QED
      BY <1>1, <3>3, MaxOfTwo
  <2> QED
    BY <2>1, <2>2
<1> HIDE DEF N
<1> QED
  BY <1>2, <1>3, Zenon

(* The table keeps its type.                                               *)
LEMMA TableTyped == Inv /\ [Next]_vars => reader' \in Table /\ numreaders' \in 0 .. MaxReaders
<1> SUFFICES ASSUME Inv, [Next]_vars PROVE reader' \in Table /\ numreaders' \in 0 .. MaxReaders
  OBVIOUS
<1>0. /\ reader \in Table /\ numreaders \in 0 .. MaxReaders /\ MaxReaders \in Nat \ {0} /\ MaxTxns \in Nat
      /\ slot \in [Thread -> Slot \cup {NoSlot}] /\ pidOf \in [Thread -> Proc] /\ local \in [Thread -> Locals]
  BY Assumptions DEF Inv, Shape, TypeOK, Table
<1>1. ASSUME NEW p \in Proc, EnvNext(p) PROVE reader' \in Table /\ numreaders' \in 0 .. MaxReaders
  <2>1. CASE CloseSlot(p)
    BY <1>0, <2>1, CloseSlotTable DEF CloseSlot
  <2>2. CASE ~CloseSlot(p)
    BY <1>0, <1>1, <2>2 DEF EnvNext, Open, WaitShared, EraseMutexes, InitMutexes, InitRegion, Attach,
         ReadHeader, SetTxnid, ShareLock, OpenFails, Close, CloseLocks, Die, region
  <2> QED
    BY <2>1, <2>2
<1>2. ASSUME NEW t \in Thread, ReaderNext(t) PROVE reader' \in Table /\ numreaders' \in 0 .. MaxReaders
  <2>1. CASE LockClaim(t)
    BY <1>0, <2>1, SweptTable DEF LockClaim, LockReaders
  <2>2. CASE ResetSlot(t)
    <3>1. Blank \in [pid : Proc \cup {NoPid}, txnid : 0 .. NoTxnid]
      BY <1>0 DEF Blank, NoTxnid
    <3>2. PICK s \in Slot : /\ reader' = [reader EXCEPT ![s] = Blank]
                            /\ numreaders' = IF s > numreaders THEN s ELSE numreaders
      BY <2>2, ResetSlotTable, Zenon
    <3> QED
      BY <1>0, <3>1, <3>2 DEF Table, Slot
  <2>3. CASE OwnSlot(t)
    BY ZenonT(60), <1>0, <2>3 DEF OwnSlot, Table
  <2>4. CASE StoreTxnid(t)
    BY ZenonT(60), <1>0, <2>4 DEF StoreTxnid, Table, Locals, NoTxnid
  <2>5. CASE EndRead(t) \/ GiveSlot(t)
    BY <1>0, <2>5 DEF EndRead, GiveSlot, Table, NoTxnid
  <2>6. CASE ~(LockClaim(t) \/ ResetSlot(t) \/ OwnSlot(t) \/ StoreTxnid(t) \/ EndRead(t) \/ GiveSlot(t))
    BY <1>0, <1>2, <2>6 DEF ReaderNext, BeginRead, LockClaimFails, ReadersFull, LoadTxnid, VerifyTxnid, region
  <2> QED
    BY <2>1, <2>2, <2>3, <2>4, <2>5, <2>6
<1>3. ASSUME NEW t \in Thread, CheckNext(t) \/ WriterNext(t)
      PROVE  reader' \in Table /\ numreaders' \in 0 .. MaxReaders
  <2>1. CASE LockCheck(t)
    BY <1>0, <2>1, SweptTable DEF LockCheck, LockReaders
  <2>2. CASE ClearSlots(t)
    BY <1>0, <2>2, ClearSlotsTable DEF ClearSlots
  <2>3. CASE ~(LockCheck(t) \/ ClearSlots(t))
    BY ZenonT(60), <1>0, <1>3, <2>3 DEF CheckNext, WriterNext, ReaderCheck, CheckFails, CheckSlot, LockCheckFails,
         CheckReturns, LockWriter, RepairWriter, BeginWrite, FindOldest, ScanPid, ScanTxnid,
         WriteMeta, Publish, Abort, region
  <2> QED
    BY <2>1, <2>2, <2>3
<1>4. CASE UNCHANGED vars
  BY <1>0, <1>4 DEF vars, region
<1> QED
  BY <1>1, <1>2, <1>3, <1>4 DEF Next

-----------------------------------------------------------------------------
(* The local variables of a thread.                                        *)

(* What the actions that set more than one of them, or one from its value  *)
(* before, make of them.                                                   *)
Snap(t, x)   == local'[t].snap = x
Loop(t, i, n) == local'[t].at = i /\ local'[t].num = n
Seen(t, P, q) == local'[t].pids = P /\ local'[t].pid = q

(* The fields of a thread's locals.                                        *)
LEMMA LocalFacts ==
    ASSUME Inv
    PROVE  /\ local \in [Thread -> [snap : 0 .. MaxTxns + 1, at : 0 .. MaxReaders + 1, num : 0 .. MaxReaders,
                    oldest : 0 .. MaxTxns, pids : SUBSET Proc, pid : Proc \cup {NoPid}, left : SUBSET Proc]]
           /\ MaxReaders \in Nat \ {0} /\ MaxTxns \in Nat /\ numreaders \in 0 .. MaxReaders
           /\ mti_txnid \in 0 .. MaxTxns /\ reader \in Table
           /\ pc \in [Thread -> Place] /\ slot \in [Thread -> Slot \cup {NoSlot}] /\ pidOf \in [Thread -> Proc]
BY Assumptions DEF Inv, Shape, TypeOK, Locals, Table

(* What mdb_reader_check0 starts with.                                     *)
LEMMA StartCheckLocal ==
    ASSUME Inv, NEW t \in Thread, StartCheck(t)
    PROVE  /\ local' \in [Thread -> Locals]
           /\ Loop(t, 1, numreaders) /\ Snap(t, local[t].snap) /\ Seen(t, local[t].pids, local[t].pid)
           /\ local'[t].oldest = local[t].oldest
           /\ local'[t].left = {q \in Proc : /\ Gone(q, pidOf[t])
                                             /\ \E s \in 1 .. numreaders : reader[s].pid = q}
<1> DEFINE L == {q \in Proc : /\ Gone(q, pidOf[t]) /\ \E s \in 1 .. numreaders : reader[s].pid = q}
           i == 1
<1>1. local' = [local EXCEPT ![t].at = i, ![t].num = numreaders, ![t].left = L]
  BY DEF StartCheck
<1>2. L \subseteq Proc /\ i \in 0 .. MaxReaders + 1
  BY LocalFacts
<1> HIDE DEF L, i
<1>3. local' \in [Thread -> Locals]
  <2> DEFINE S == 0 .. MaxTxns + 1  A == 0 .. MaxReaders + 1  N == 0 .. MaxReaders
             O == 0 .. MaxTxns      P == SUBSET Proc          Q == Proc \cup {NoPid}
             T == [snap : S, at : A, num : N, oldest : O, pids : P, pid : Q, left : P]
  <2>1. Locals = T /\ local \in [Thread -> T] /\ i \in A /\ numreaders \in N /\ L \in P
    BY <1>2, LocalFacts DEF Locals
  <2> HIDE DEF S, A, N, O, P, Q
  <2> QED
    BY ZenonT(60), <1>1, <2>1
<1>4. Loop(t, i, numreaders) /\ Snap(t, local[t].snap) /\ Seen(t, local[t].pids, local[t].pid)
      /\ local'[t].oldest = local[t].oldest /\ local'[t].left = L
  BY <1>1, <1>2, LocalFacts DEF Locals, Loop, Snap, Seen
<1> QED
  BY <1>3, <1>4 DEF L, i

(* What it keeps of a slot it has looked at.                               *)
LEMMA CheckSlotLocal ==
    ASSUME Inv, NEW t \in Thread, CheckSlot(t)
    PROVE  LET q == reader[local[t].at].pid
               b == Gone(q, pidOf[t]) /\ q \notin local[t].pids
           IN  /\ local' \in [Thread -> Locals] /\ local[t].at \in Slot /\ q \in Proc \cup {NoPid}
               /\ pc[t] = "check" /\ pc' = IF b THEN [pc EXCEPT ![t] = "dead"] ELSE pc
               /\ Loop(t, IF b THEN local[t].at ELSE local[t].at + 1, local[t].num)
               /\ Seen(t, local[t].pids \cup (IF b THEN {q} ELSE {q} \ {NoPid, pidOf[t]}),
                          IF b THEN q ELSE local[t].pid)
               /\ Snap(t, local[t].snap) /\ UNCHANGED <<local[t].oldest, local[t].left>>
<1> DEFINE q == reader[local[t].at].pid
           b == Gone(q, pidOf[t]) /\ q \notin local[t].pids
           P == local[t].pids \cup {q}
           R == local[t].pids \cup ({q} \ {NoPid, pidOf[t]})
           i == local[t].at + 1
<1>1. pc[t] = "check" /\ local[t].at \in Slot /\ local[t].at <= local[t].num
  BY LocalFacts DEF CheckSlot, Inv, Ranges, Slot
<1>2. q \in Proc \cup {NoPid} /\ i \in 0 .. MaxReaders + 1
  BY <1>1, LocalFacts DEF Table
<1>3. /\ b  => P \subseteq Proc /\ local' = [local EXCEPT ![t].pids = P, ![t].pid = q]
               /\ pc' = [pc EXCEPT ![t] = "dead"]
      /\ ~b => local' = [local EXCEPT ![t].pids = R, ![t].at = i] /\ pc' = pc
  <2>1. b  => local' = [local EXCEPT ![t].pids = P, ![t].pid = q] /\ pc' = [pc EXCEPT ![t] = "dead"]
    BY Zenon DEF CheckSlot, Goto
  <2>2. ~b => local' = [local EXCEPT ![t].pids = R, ![t].at = i] /\ pc' = pc
    BY Zenon DEF CheckSlot
  <2>3. b => P \subseteq Proc
    BY <1>2, LocalFacts DEF Gone
  <2> QED
    BY <2>1, <2>2, <2>3
<1>4. R \subseteq Proc
  BY <1>2, LocalFacts
<1>5. CASE b
  <2> HIDE DEF b, P, R, i, q
  <2>1. q \in Proc \cup {NoPid} /\ P \subseteq Proc
    BY <1>2, <1>3, <1>5
  <2>2. local' \in [Thread -> Locals] /\ Loop(t, local[t].at, local[t].num) /\ Seen(t, P, q)
        /\ Snap(t, local[t].snap) /\ UNCHANGED <<local[t].oldest, local[t].left>>
    BY <1>3, <1>5, <2>1, LocalFacts DEF Locals, Loop, Snap, Seen
  <2> USE DEF b, P, q
  <2> QED
    BY <1>1, <1>2, <1>3, <1>5, <2>2, Zenon
<1>6. CASE ~b
  <2> HIDE DEF b, P, R, i, q
  <2>1. local' \in [Thread -> Locals] /\ Loop(t, i, local[t].num) /\ Seen(t, R, local[t].pid)
        /\ Snap(t, local[t].snap) /\ UNCHANGED <<local[t].oldest, local[t].left>>
    BY <1>2, <1>3, <1>4, <1>6, LocalFacts DEF Locals, Loop, Snap, Seen
  <2> USE DEF b, R, i, q
  <2> QED
    BY <1>1, <1>2, <1>3, <1>6, <2>1, Zenon
<1> QED
  BY <1>5, <1>6

(* What it keeps once it has the mutex.                                    *)
LEMMA LockCheckLocal ==
    ASSUME Inv, NEW t \in Thread, LockCheck(t)
    PROVE  /\ local' \in [Thread -> Locals]
           /\ Loop(t, local[t].at, IF rmutex = Dead THEN 0 ELSE local[t].num)
           /\ Snap(t, local[t].snap) /\ Seen(t, local[t].pids, local[t].pid)
           /\ UNCHANGED <<local[t].oldest, local[t].left>>
<1> DEFINE n == IF rmutex = Dead THEN 0 ELSE local[t].num
<1>1. local' = [local EXCEPT ![t].num = n]
  BY Zenon DEF LockCheck
<1>2. n \in 0 .. MaxReaders
  BY LocalFacts
<1> HIDE DEF n
<1>3. /\ local' \in [Thread -> Locals] /\ Loop(t, local[t].at, n)
      /\ Snap(t, local[t].snap) /\ Seen(t, local[t].pids, local[t].pid)
      /\ UNCHANGED <<local[t].oldest, local[t].left>>
  BY SMTT(40), <1>1, <1>2, LocalFacts DEF Locals, Loop, Snap, Seen
<1> QED
  BY <1>3 DEF n

(* What it keeps once it has cleared a pid's slots.                        *)
LEMMA ClearSlotsLocal ==
    ASSUME Inv, NEW t \in Thread, ClearSlots(t)
    PROVE  /\ local' \in [Thread -> Locals] /\ local[t].at \in 1 .. MaxReaders
           /\ Loop(t, local[t].at + 1, local[t].num)
           /\ Snap(t, local[t].snap) /\ Seen(t, local[t].pids, NoPid)
           /\ UNCHANGED <<local[t].oldest, local[t].left>>
<1> DEFINE i == local[t].at + 1
           q == NoPid
<1>1. local' = [local EXCEPT ![t].at = i, ![t].pid = q]
  BY DEF ClearSlots
<1>2. i \in 0 .. MaxReaders + 1 /\ local[t].at \in 1 .. MaxReaders /\ q \in Proc \cup {NoPid}
  BY LocalFacts DEF ClearSlots, Inv, Ranges
<1> HIDE DEF i, q
<1>3. /\ local' \in [Thread -> Locals] /\ Loop(t, i, local[t].num)
      /\ Snap(t, local[t].snap) /\ Seen(t, local[t].pids, q)
      /\ UNCHANGED <<local[t].oldest, local[t].left>>
  BY ZenonT(60), <1>1, <1>2, LocalFacts DEF Locals, Loop, Snap, Seen
<1> QED
  BY <1>2, <1>3 DEF i, q

(* What mdb_find_oldest starts with.                                       *)
LEMMA FindOldestLocal ==
    ASSUME Inv, NEW t \in Thread, FindOldest(t)
    PROVE  /\ local' \in [Thread -> Locals]
           /\ Loop(t, numreaders, local[t].num)
           /\ Snap(t, local[t].snap) /\ Seen(t, local[t].pids, local[t].pid)
           /\ local'[t].oldest = local[t].snap - 1 /\ UNCHANGED <<local[t].left>>
<1> DEFINE o == local[t].snap - 1
           i == numreaders
<1>1. local' = [local EXCEPT ![t].at = i, ![t].oldest = o]
  BY DEF FindOldest
<1>2. i \in 0 .. MaxReaders + 1 /\ o \in 0 .. MaxTxns
  BY LocalFacts DEF FindOldest, Inv, Ranges
<1> HIDE DEF i, o
<1>3. /\ local' \in [Thread -> Locals] /\ Loop(t, i, local[t].num)
      /\ Snap(t, local[t].snap) /\ Seen(t, local[t].pids, local[t].pid)
      /\ local'[t].oldest = o /\ UNCHANGED <<local[t].left>>
  BY ZenonT(60), <1>1, <1>2, LocalFacts DEF Locals, Loop, Snap, Seen
<1> QED
  BY <1>3 DEF i, o

(* What it keeps of a slot's pid.                                          *)
LEMMA ScanPidLocal ==
    ASSUME Inv, NEW t \in Thread, ScanPid(t)
    PROVE  /\ local' \in [Thread -> Locals] /\ local[t].at \in Slot
           /\ Loop(t, IF reader[local[t].at].pid # NoPid THEN local[t].at ELSE local[t].at - 1, local[t].num)
           /\ Snap(t, local[t].snap) /\ Seen(t, local[t].pids, local[t].pid)
           /\ UNCHANGED <<local[t].oldest, local[t].left>>
<1> DEFINE i == local[t].at - 1
<1>1. local[t].at \in Slot
  BY LocalFacts DEF ScanPid, Inv, Ranges, Slot
<1>2. CASE reader[local[t].at].pid # NoPid
  BY <1>1, <1>2, LocalFacts DEF ScanPid, Locals, Loop, Snap, Seen
<1>3. CASE reader[local[t].at].pid = NoPid
  <2>1. local' = [local EXCEPT ![t].at = i]
    BY <1>3, Zenon DEF ScanPid
  <2>2. i \in 0 .. MaxReaders + 1
    BY <1>1, LocalFacts DEF Slot
  <2> HIDE DEF i
  <2>3. /\ local' \in [Thread -> Locals] /\ Loop(t, i, local[t].num)
        /\ Snap(t, local[t].snap) /\ Seen(t, local[t].pids, local[t].pid)
        /\ UNCHANGED <<local[t].oldest, local[t].left>>
    BY ZenonT(60), <2>1, <2>2, LocalFacts DEF Locals, Loop, Snap, Seen
  <2> QED
    BY <1>1, <1>3, <2>3 DEF i
<1> QED
  BY <1>2, <1>3

(* What it keeps of a slot's txnid.                                        *)
LEMMA ScanTxnidLocal ==
    ASSUME Inv, NEW t \in Thread, ScanTxnid(t)
    PROVE  /\ local' \in [Thread -> Locals] /\ local[t].at \in Slot
           /\ Loop(t, local[t].at - 1, local[t].num)
           /\ Snap(t, local[t].snap) /\ Seen(t, local[t].pids, local[t].pid)
           /\ local'[t].oldest = IF local[t].oldest <= reader[local[t].at].txnid
                                 THEN local[t].oldest ELSE reader[local[t].at].txnid
           /\ UNCHANGED <<local[t].left>>
<1> DEFINE i == local[t].at - 1
           o == Min({local[t].oldest, reader[local[t].at].txnid})
<1>1. local' = [local EXCEPT ![t].at = i, ![t].oldest = o]
  BY DEF ScanTxnid
<1>2. /\ local[t].at \in Slot /\ local[t].oldest \in 0 .. MaxTxns /\ reader[local[t].at].txnid \in 0 .. NoTxnid
      /\ i \in 0 .. MaxReaders + 1
  <2>1. pc[t] = "compare"
    BY DEF ScanTxnid
  <2>2. /\ local[t].oldest \in 0 .. MaxTxns /\ local[t].at \in 0 .. MaxReaders + 1
    BY ZenonT(60), LocalFacts
  <2>3. Ranges
    BY DEF Inv
  <2>4. local[t].at \in Slot
    BY SMTT(40), <2>1, <2>3, LocalFacts DEF Ranges, Slot
  <2>5. reader[local[t].at].txnid \in 0 .. NoTxnid
    BY SMTT(40), <2>4, LocalFacts DEF Table
  <2>6. local[t].at - 1 \in 0 .. MaxReaders + 1
    BY <2>4, LocalFacts DEF Slot
  <2> QED
    BY <2>2, <2>4, <2>5, <2>6
<1>3. o = IF local[t].oldest <= reader[local[t].at].txnid
          THEN local[t].oldest ELSE reader[local[t].at].txnid
  <2>1. local[t].oldest \in Int /\ reader[local[t].at].txnid \in Int
    BY SMTT(40), <1>2, LocalFacts DEF NoTxnid
  <2> QED
    BY ZenonT(60), <2>1, MinOfTwo
<1>4. o \in 0 .. MaxTxns
  BY <1>2, <1>3, LocalFacts DEF NoTxnid
<1> HIDE DEF i, o
<1>5. /\ local' \in [Thread -> Locals] /\ Loop(t, i, local[t].num)
      /\ Snap(t, local[t].snap) /\ Seen(t, local[t].pids, local[t].pid)
      /\ local'[t].oldest = o /\ UNCHANGED <<local[t].left>>
  BY ZenonT(60), <1>1, <1>2, <1>4, LocalFacts DEF Locals, Loop, Snap, Seen
<1> QED
  BY <1>2, <1>3, <1>5 DEF i

(* A claim of a process takes its pid off what all checks have still to    *)
(* find.                                                                   *)
LEMMA BeginReadLocal ==
    ASSUME Inv, NEW t \in Thread, BeginRead(t)
    PROVE  /\ local' \in [Thread -> Locals]
           /\ slot[t] # NoSlot => UNCHANGED local
           /\ \A u \in Thread :
                 /\ Loop(u, local[u].at, local[u].num) /\ Snap(u, local[u].snap)
                 /\ Seen(u, local[u].pids, local[u].pid) /\ UNCHANGED <<local[u].oldest>>
                 /\ local'[u].left = IF slot[t] # NoSlot THEN local[u].left ELSE local[u].left \ {pidOf[t]}
<1> DEFINE D(u) == local[u].left \ {pidOf[t]}
<1>1. CASE slot[t] # NoSlot
  BY <1>1, LocalFacts DEF BeginRead, Locals, Loop, Snap, Seen
<1>2. CASE slot[t] = NoSlot
  <2>1. local' = [u \in Thread |-> [local[u] EXCEPT !.left = D(u)]]
    BY <1>2 DEF BeginRead
  <2>2. \A u \in Thread : D(u) \in SUBSET Proc
    BY LocalFacts
  <2> HIDE DEF D
  <2>3. local' \in [Thread -> Locals]
    <3>1. \A u \in Thread : local[u] \in Locals
      BY ZenonT(60), LocalFacts DEF Locals
    <3>2. \A u \in Thread : [local[u] EXCEPT !.left = D(u)] \in Locals
      BY SMTT(40), <2>2, <3>1 DEF Locals
    <3> QED
      BY ZenonT(60), <2>1, <3>2
  <2>4. \A u \in Thread :
           /\ Loop(u, local[u].at, local[u].num) /\ Snap(u, local[u].snap)
           /\ Seen(u, local[u].pids, local[u].pid) /\ UNCHANGED <<local[u].oldest>>
           /\ local'[u].left = D(u)
    BY <2>1, <2>2, LocalFacts DEF Locals, Loop, Snap, Seen
  <2> QED
    BY <1>2, <2>3, <2>4 DEF D
<1> QED
  BY <1>1, <1>2

(* The locals keep their type.                                             *)
LEMMA LocalTyped == Inv /\ [Next]_vars => local' \in [Thread -> Locals]
<1> SUFFICES ASSUME Inv, [Next]_vars PROVE local' \in [Thread -> Locals]
  OBVIOUS
<1>0. local \in [Thread -> Locals] /\ NoLocal \in Locals
  BY LocalFacts DEF Locals, NoLocal
<1>2. ASSUME UNCHANGED local PROVE local' \in [Thread -> Locals]
  BY <1>0, <1>2
<1>3. ASSUME NEW p \in Proc, EnvNext(p) PROVE local' \in [Thread -> Locals]
  <2>1. CASE Die(p)
    BY <1>0, <2>1 DEF Die
  <2>2. CASE ~Die(p)
    <3>1. UNCHANGED local
      BY <1>3, <2>2 DEF EnvNext, Open, WaitShared, EraseMutexes, InitMutexes, InitRegion, Attach,
           ReadHeader, SetTxnid, ShareLock, OpenFails, Close, CloseSlot, CloseLocks, threads
    <3> QED
      BY <1>2, <3>1
  <2> QED
    BY <2>1, <2>2
<1>5. ASSUME NEW t \in Thread, ReaderNext(t) PROVE local' \in [Thread -> Locals]
  <2>1. CASE BeginRead(t)
    BY <2>1, BeginReadLocal
  <2>2. CASE ResetSlot(t)
    <3>1. PICK s \in Slot : local' = [local EXCEPT ![t].at = s]
      BY <2>2, ResetSlotTable, Zenon
    <3> QED
      BY SMTT(40), <3>1, LocalFacts DEF Locals, Slot
  <2>3. CASE OwnSlot(t) \/ EndRead(t)
    BY <1>0, <2>3 DEF OwnSlot, EndRead
  <2>4. CASE LoadTxnid(t)
    BY SMTT(40), <2>4, LocalFacts DEF LoadTxnid, Locals
  <2>5. CASE ~(BeginRead(t) \/ ResetSlot(t) \/ OwnSlot(t) \/ EndRead(t) \/ LoadTxnid(t))
    <3>1. UNCHANGED local
      BY <1>5, <2>5 DEF ReaderNext, LockClaim, LockClaimFails, ReadersFull, StoreTxnid, VerifyTxnid,
           GiveSlot, threads
    <3> QED
      BY <1>2, <3>1
  <2> QED
    BY <2>1, <2>2, <2>3, <2>4, <2>5
<1>6. ASSUME NEW t \in Thread, CheckNext(t) PROVE local' \in [Thread -> Locals]
  <2>1. CASE ReaderCheck(t)
    BY <2>1, StartCheckLocal DEF ReaderCheck
  <2>2. CASE CheckFails(t) \/ LockCheckFails(t) \/ CheckReturns(t)
    BY <1>0, <2>2 DEF CheckFails, LockCheckFails, CheckReturns, CheckEnds
  <2>3. CASE CheckSlot(t)
    BY <2>3, CheckSlotLocal
  <2>4. CASE LockCheck(t)
    BY <2>4, LockCheckLocal
  <2>5. CASE ClearSlots(t)
    BY <2>5, ClearSlotsLocal
  <2> QED
    BY <1>6, <2>1, <2>2, <2>3, <2>4, <2>5 DEF CheckNext
<1>7. ASSUME NEW t \in Thread, WriterNext(t) PROVE local' \in [Thread -> Locals]
  <2>1. CASE LockWriter(t) \/ WriteMeta(t)
    BY <1>2, <2>1 DEF LockWriter, WriteMeta
  <2>2. CASE RepairWriter(t)
    BY <2>2, StartCheckLocal DEF RepairWriter
  <2>3. CASE BeginWrite(t)
    BY SMTT(40), <2>3, LocalFacts DEF BeginWrite, Locals
  <2>4. CASE FindOldest(t) \/ ScanPid(t) \/ ScanTxnid(t)
    BY <2>4, FindOldestLocal, ScanPidLocal, ScanTxnidLocal
  <2>5. CASE Publish(t) \/ Abort(t)
    BY <1>0, <2>5 DEF Publish, Abort, EndWrite
  <2> QED
    BY <1>7, <2>1, <2>2, <2>3, <2>4, <2>5 DEF WriterNext
<1>8. CASE UNCHANGED vars
  BY <1>2, <1>8 DEF vars, threads
<1> QED
  BY <1>3, <1>5, <1>6, <1>7, <1>8 DEF Next


-----------------------------------------------------------------------------
(* The types.                                                              *)

(* Those of the variables but for the table, the locals and the Booleans.  *)
Plain ==
    /\ pc \in [Thread -> Place] /\ slot \in [Thread -> Slot \cup {NoSlot}]
    /\ mti_txnid \in 0 .. MaxTxns /\ meta \in 0 .. MaxTxns /\ header \in [Proc -> 0 .. MaxTxns]
    /\ closeReaders \in [Proc -> 0 .. MaxReaders] /\ flock \in [Proc -> {"none", "shared", "excl"}]
    /\ rmutex \in Thread \cup {Free, Dead, Lost, Stuck} /\ wmutex \in Thread \cup {Free, Dead, Lost, Stuck}
    /\ opens \in Nat /\ begun \in Nat /\ checks \in Nat /\ pidlock \subseteq Proc
    /\ env \in [Proc -> {"closed", "wait", "erase", "mutexes", "region", "attach", "header", "txnid",
                         "share", "open", "closing"}]

(* A slot that a thread has is not in use when the thread begins to read.  *)
LEMMA BeginReadPlace ==
    ASSUME Inv, NEW t \in Thread, BeginRead(t)
    PROVE  \/ slot[t] # NoSlot /\ pc' = [pc EXCEPT ![t] = "load"]
           \/ slot[t] = NoSlot /\ pc' = [pc EXCEPT ![t] = "claim"]
<1>1. CASE slot[t] # NoSlot
  <2>1. /\ slot[t] \in Slot /\ reader[slot[t]] \in [pid : Proc \cup {NoPid}, txnid : 0 .. NoTxnid]
        /\ reader[slot[t]].pid = pidOf[t] /\ reader[slot[t]].txnid = NoTxnid
    BY SMTT(40), <1>1, LocalFacts DEF Inv, SlotInv, InRead, BeginRead, Table
  <2>2. reader[slot[t]] = [pid |-> pidOf[t], txnid |-> NoTxnid]
    BY <2>1
  <2> QED
    BY <1>1, <2>2 DEF BeginRead, Goto
<1>2. CASE slot[t] = NoSlot
  BY <1>2 DEF BeginRead, Goto
<1> QED
  BY <1>1, <1>2

(* Every step keeps the types.                                             *)
LEMMA ShapeStep == Inv /\ [Next]_vars => Shape'
<1> SUFFICES ASSUME Inv, [Next]_vars PROVE Shape'
  OBVIOUS
<1>0. /\ Plain /\ notls \in [Proc -> BOOLEAN] /\ pidOf \in [Thread -> Proc] /\ numreaders \in 0 .. MaxReaders
      /\ MaxReaders \in Nat \ {0} /\ MaxTxns \in Nat
  BY Assumptions DEF Inv, Shape, TypeOK, Plain
<1>1. reader' \in Table /\ numreaders' \in 0 .. MaxReaders /\ local' \in [Thread -> Locals]
  BY TableTyped, LocalTyped
<1>2. UNCHANGED <<notls, pidOf>>
  BY FixedStep DEF fixed
<1>3. ASSUME NEW p \in Proc, EnvNext(p) PROVE Plain'
  <2>1. CASE Die(p)
    <3>1. \A m \in Thread \cup {Free, Dead, Lost, Stuck} :
             Orphan(m, p) \in Thread \cup {Free, Dead, Lost, Stuck}
      BY Zenon DEF Orphan
    <3>2. rmutex' \in Thread \cup {Free, Dead, Lost, Stuck} /\ wmutex' \in Thread \cup {Free, Dead, Lost, Stuck}
      BY <1>0, <2>1, <3>1, Zenon DEF Plain, Die
    <3>3. /\ pc' \in [Thread -> Place] /\ slot' \in [Thread -> Slot \cup {NoSlot}]
          /\ UNCHANGED <<mti_txnid, meta, opens, begun, checks>> /\ pidlock' \subseteq Proc
      BY <1>0, <2>1 DEF Plain, Die, Place, bounds, region
    <3>4. /\ header' \in [Proc -> 0 .. MaxTxns] /\ closeReaders' \in [Proc -> 0 .. MaxReaders]
          /\ flock' \in [Proc -> {"none", "shared", "excl"}]
          /\ env' \in [Proc -> {"closed", "wait", "erase", "mutexes", "region", "attach", "header", "txnid",
                                 "share", "open", "closing"}]
      BY <1>0, <2>1 DEF Plain, Die, At
    <3> QED
      BY <1>0, <3>2, <3>3, <3>4 DEF Plain
  <2>2. CASE CloseSlot(p)
    <3>1. closeReaders' = [closeReaders EXCEPT ![p] = closeReaders[p] - 1] /\ closeReaders[p] \in 1 .. MaxReaders
      BY <1>0, <2>2 DEF Plain, CloseSlot
    <3> QED
      BY <1>0, <2>2, <3>1 DEF Plain, CloseSlot, mutexes, fcntl, threads, bounds
  <2>3. CASE Close(p)
    BY <1>0, <2>3 DEF Plain, Close, At, Of, region, mutexes, fcntl, bounds
  <2>4. CASE Open(p)
    BY <1>0, <2>4 DEF Plain, Open, At, region, mutexes, fcntl, threads, bounds
  <2>5. CASE WaitShared(p) \/ EraseMutexes(p) \/ InitMutexes(p) \/ InitRegion(p) \/ Attach(p)
    BY <1>0, <2>5 DEF Plain, WaitShared, EraseMutexes, InitMutexes, InitRegion, Attach, At,
                      region, mutexes, fcntl, threads, bounds
  <2>6. CASE ReadHeader(p) \/ SetTxnid(p)
    BY <1>0, <2>6 DEF Plain, ReadHeader, SetTxnid, At, region, mutexes, fcntl, threads, bounds
  <2>7. CASE ShareLock(p) \/ OpenFails(p) \/ CloseLocks(p)
    BY <1>0, <2>7 DEF Plain, ShareLock, OpenFails, CloseLocks, At, region, mutexes, fcntl, threads, bounds
  <2> QED
    BY <1>3, <2>1, <2>2, <2>3, <2>4, <2>5, <2>6, <2>7 DEF EnvNext
<1>4. ASSUME NEW t \in Thread, ReaderNext(t) PROVE Plain'
  <2>1. CASE BeginRead(t)
    BY SMTT(40), <1>0, <2>1, BeginReadPlace DEF Plain, Place, BeginRead, region, mutexes, fcntl, envs, bounds
  <2>2. CASE ResetSlot(t)
    <3>1. closeReaders' = [closeReaders EXCEPT ![pidOf[t]] = numreaders']
      BY <2>2, ResetSlotTable, Zenon
    <3> QED
      BY <1>0, <1>1, <2>2, <3>1 DEF Plain, Place, ResetSlot, Goto, mutexes, fcntl, bounds
  <2>3. CASE OwnSlot(t)
    <3>1. local[t].at \in Slot
      BY <1>0, <2>3 DEF OwnSlot, Inv, ReaderInv, Slot
    <3> QED
      BY <1>0, <2>3, <3>1 DEF Plain, Place, OwnSlot, Goto, region, mutexes, fcntl, envs, bounds
  <2>4. CASE ~(BeginRead(t) \/ ResetSlot(t) \/ OwnSlot(t))
    BY <1>0, <1>4, <2>4 DEF Plain, Place, ReaderNext, LockClaim, LockClaimFails, ReadersFull, LoadTxnid,
         StoreTxnid, VerifyTxnid, EndRead, GiveSlot, Goto, LockReaders, LockReadersFails,
         region, mutexes, fcntl, envs, bounds
  <2> QED
    BY <2>1, <2>2, <2>3, <2>4
<1>5. ASSUME NEW t \in Thread, CheckNext(t) PROVE Plain'
  <2>1. CASE CheckSlot(t)
    BY ZenonT(60), <1>0, <2>1, CheckSlotLocal DEF Plain, Place, CheckSlot, region, mutexes, fcntl, envs, bounds
  <2>2. CASE ~CheckSlot(t)
    BY <1>0, <1>5, <2>2 DEF Plain, Place, CheckNext, ReaderCheck, CheckFails, LockCheck, LockCheckFails,
         ClearSlots, CheckReturns, Goto, LockReaders, LockReadersFails, CheckEnds, StartCheck,
         region, mutexes, fcntl, envs, bounds
  <2> QED
    BY <2>1, <2>2
<1>6. ASSUME NEW t \in Thread, WriterNext(t) PROVE Plain'
  <2>1. CASE WriteMeta(t)
    <3>1. local[t].snap \in 0 .. MaxTxns
      BY <1>0, <2>1, LocalFacts DEF WriteMeta, Writing, Inv, MetaBound, Plain
    <3> QED
      BY <1>0, <2>1, <3>1 DEF Plain, Place, WriteMeta, Goto, region, mutexes, fcntl, envs, bounds
  <2>2. CASE Publish(t)
    <3>1. local[t].snap = meta
      BY <2>2 DEF Publish, Inv, MetaBound
    <3> QED
      BY <1>0, <2>2, <3>1 DEF Plain, Place, Publish, EndWrite, Goto, fcntl, envs, bounds
  <2>3. CASE LockWriter(t) \/ RepairWriter(t)
    BY <1>0, <2>3 DEF Plain, Place, LockWriter, RepairWriter, StartCheck, Goto, region, mutexes, fcntl, envs
  <2>4. CASE BeginWrite(t) \/ FindOldest(t) \/ ScanPid(t) \/ ScanTxnid(t) \/ Abort(t)
    BY <1>0, <2>4 DEF Plain, Place, BeginWrite, FindOldest, ScanPid, ScanTxnid, Abort, EndWrite, Goto,
         region, mutexes, fcntl, envs, bounds
  <2> QED
    BY <1>6, <2>1, <2>2, <2>3, <2>4 DEF WriterNext
<1>7. ASSUME UNCHANGED vars PROVE Plain'
  BY <1>0, <1>7 DEF Plain, vars, region, mutexes, fcntl, envs, threads, bounds
<1>8. Plain'
  BY <1>3, <1>4, <1>5, <1>6, <1>7 DEF Next
<1>9. {magic', robust', setBack'} \subseteq BOOLEAN
  <2>1. magic \in BOOLEAN /\ robust \in BOOLEAN /\ setBack \in BOOLEAN
    BY DEF Inv, Shape, TypeOK
  <2>2. ASSUME NEW p \in Proc, EnvNext(p) PROVE magic' \in BOOLEAN /\ robust' \in BOOLEAN /\ setBack' \in BOOLEAN
    <3>1. CASE EraseMutexes(p) \/ InitMutexes(p) \/ InitRegion(p)
      <4>1. /\ magic' = magic \/ magic' = TRUE
            /\ robust' = robust \/ robust' = TRUE \/ robust' = FALSE
            /\ setBack' = setBack
        BY <3>1 DEF EraseMutexes, InitMutexes, InitRegion, region, mutexes
      <4> QED
        BY <2>1, <4>1, Zenon
    <3>2. CASE SetTxnid(p)
      <4>1. setBack' \in BOOLEAN
        BY <3>2, Zenon DEF SetTxnid
      <4> QED
        BY <2>1, <3>2, <4>1 DEF SetTxnid, mutexes
    <3>3. CASE ~(EraseMutexes(p) \/ InitMutexes(p) \/ InitRegion(p) \/ SetTxnid(p))
      BY <2>1, <2>2, <3>3 DEF EnvNext, Open, WaitShared, Attach, ReadHeader, ShareLock, OpenFails,
           Close, CloseSlot, CloseLocks, Die, region, mutexes
    <3> QED
      BY <3>1, <3>2, <3>3
  <2>3. ASSUME NEW t \in Thread, ReaderNext(t) \/ CheckNext(t) \/ WriterNext(t)
        PROVE  magic' \in BOOLEAN /\ robust' \in BOOLEAN /\ setBack' \in BOOLEAN
    BY <2>1, <2>3, ThreadOpen
  <2>4. ASSUME UNCHANGED vars PROVE magic' \in BOOLEAN /\ robust' \in BOOLEAN /\ setBack' \in BOOLEAN
    BY <2>1, <2>4 DEF vars, region, mutexes
  <2>5. magic' \in BOOLEAN /\ robust' \in BOOLEAN /\ setBack' \in BOOLEAN
    BY <2>2, <2>3, <2>4 DEF Next
  <2> QED
    BY <2>5
<1> QED
  BY <1>0, <1>1, <1>2, <1>8, <1>9 DEF Shape, TypeOK, Plain, Table

-----------------------------------------------------------------------------
(* The slots of the threads.                                               *)

(* What a step of a thread does not do to the slot of another, or to one   *)
(* that another is claiming.                                               *)
SlotKept(u) ==
    /\ slot[u] # NoSlot => /\ reader'[slot[u]].pid = reader[slot[u]].pid
                           /\ reader'[slot[u]].txnid = reader[slot[u]].txnid
    /\ pc[u] = "own" => /\ reader'[local[u].at].pid = reader[local[u].at].pid
                        /\ reader'[local[u].at].txnid = reader[local[u].at].txnid
    /\ numreaders <= numreaders' /\ pidlock \subseteq pidlock'

(* A thread's step leaves the slots of the others as they are.             *)
LEMMA OthersSlots ==
    ASSUME Inv, NEW t \in Thread, ReaderNext(t) \/ CheckNext(t) \/ WriterNext(t),
           NEW u \in Thread, u # t
    PROVE  SlotKept(u)
<1>0. /\ reader \in Table /\ numreaders \in 0 .. MaxReaders /\ MaxReaders \in Nat \ {0} /\ NoPid \notin Proc
      /\ slot \in [Thread -> Slot \cup {NoSlot}] /\ pidOf \in [Thread -> Proc]
  BY LocalFacts, Assumptions
<1>1. /\ slot[u] # NoSlot => /\ slot[u] \in Slot /\ slot[u] <= numreaders
                             /\ reader[slot[u]].pid = pidOf[u] /\ reader[slot[u]].pid \in pidlock
                             /\ slot[u] # slot[t]
      /\ pc[u] = "own" => /\ local[u].at \in Slot /\ local[u].at <= numreaders
                          /\ reader[local[u].at].pid = NoPid /\ rmutex = u
      /\ slot[t] # NoSlot => slot[t] \in Slot /\ reader[slot[t]].pid = pidOf[t]
      /\ pc[t] \in InRead => slot[t] # NoSlot
      /\ pc[t] \in {"reset", "own", "clear"} => rmutex = t
      /\ pc[t] = "own" => local[t].at \in Slot /\ reader[local[t].at].pid = NoPid
  BY <1>0 DEF Inv, SlotInv, ReaderInv, MutexesHeld, Slot
<1>2. ASSUME UNCHANGED <<reader, numreaders>>, pidlock \subseteq pidlock' PROVE SlotKept(u)
  BY <1>0, <1>2 DEF SlotKept
<1>3. ASSUME NEW q \in Proc, reader' = Swept(q), UNCHANGED <<numreaders, pidlock>> PROVE SlotKept(u)
  BY <1>0, <1>1, <1>3, SweptTable DEF SlotKept, Gone
<1>4. CASE LockClaim(t) \/ LockCheck(t)
  <2>1. /\ UNCHANGED <<numreaders, pidlock>>
        /\ reader' = Swept(pidOf[t]) \/ UNCHANGED reader
    BY <1>4 DEF LockClaim, LockCheck, LockReaders, fcntl
  <2> QED
    BY <1>0, <1>2, <1>3, <2>1
<1>5. CASE ResetSlot(t)
  <2>1. PICK s \in Slot : /\ reader[s].pid = NoPid \/ s = numreaders + 1
                          /\ reader' = [reader EXCEPT ![s] = Blank]
                          /\ numreaders' = IF s > numreaders THEN s ELSE numreaders
    BY <1>5, ResetSlotTable, Zenon
  <2>2. pc[t] = "reset" /\ UNCHANGED pidlock
    BY <1>5 DEF ResetSlot, fcntl
  <2>3. pc[u] # "own"
    BY <1>1, <2>2
  <2>4. slot[u] # NoSlot => slot[u] # s
    BY <1>0, <1>1, <2>1
  <2>5. slot[u] # NoSlot => reader'[slot[u]] = reader[slot[u]]
    BY <1>0, <1>1, <2>1, <2>4 DEF Table
  <2>6. numreaders <= numreaders'
    BY <1>0, <2>1 DEF Slot
  <2> QED
    BY <2>2, <2>3, <2>5, <2>6 DEF SlotKept
<1>6. CASE OwnSlot(t)
  BY <1>0, <1>1, <1>6 DEF OwnSlot, SlotKept, Table, fcntl
<1>7. CASE StoreTxnid(t) \/ EndRead(t)
  BY SMTT(40), <1>0, <1>1, <1>7 DEF StoreTxnid, EndRead, SlotKept, Table, fcntl, InRead
<1>8. CASE GiveSlot(t)
  BY <1>0, <1>1, <1>8 DEF GiveSlot, SlotKept, Table, fcntl
<1>9. CASE ClearSlots(t)
  BY SMTT(40), <1>0, <1>1, <1>9, ClearSlotsTable DEF ClearSlots, SlotKept, fcntl
<1>10. CASE ~(\/ LockClaim(t) \/ LockCheck(t) \/ ResetSlot(t) \/ OwnSlot(t) \/ StoreTxnid(t) \/ EndRead(t)
              \/ GiveSlot(t) \/ ClearSlots(t))
  <2>1. UNCHANGED <<reader, numreaders>> /\ pidlock \subseteq pidlock'
    BY ZenonT(60), <1>10 DEF ReaderNext, CheckNext, WriterNext, BeginRead, LockClaimFails, ReadersFull, LoadTxnid,
         VerifyTxnid, ReaderCheck, CheckFails, CheckSlot, LockCheckFails, CheckReturns, LockWriter,
         RepairWriter, BeginWrite, FindOldest, ScanPid, ScanTxnid, WriteMeta, Publish, Abort, region, fcntl
  <2> QED
    BY SMTT(40), <1>2, <2>1
<1> QED
  BY <1>4, <1>5, <1>6, <1>7, <1>8, <1>9, <1>10

(* The parts of SlotInv and ReaderInv about one thread.                    *)
Held(u) ==
    /\ slot[u] # NoSlot => /\ slot[u] <= numreaders
                           /\ reader[slot[u]].pid = pidOf[u]
                           /\ pidOf[u] \in pidlock
                           /\ pc[u] \in InRead \/ reader[slot[u]].txnid = NoTxnid
    /\ pc[u] \in Claiming => pidOf[u] \in pidlock /\ slot[u] = NoSlot
    /\ pc[u] = "own" => /\ local[u].at \in 1 .. numreaders
                        /\ reader[local[u].at].pid = NoPid /\ reader[local[u].at].txnid = NoTxnid
    /\ pc[u] \in InRead => slot[u] # NoSlot
    /\ pc[u] \in {"verify", "reading"} => reader[slot[u]].txnid = local[u].snap

(* A thread keeps its slot over its own steps, and over those of others.   *)
LEMMA HeldStep == Inv /\ [Next]_vars => \A u \in Thread : Held(u)'
<1> SUFFICES ASSUME Inv, [Next]_vars, NEW u \in Thread PROVE Held(u)'
  OBVIOUS
<1> USE DEF InRead, Claiming
<1>0. /\ Held(u) /\ pidOf[u] \in Proc /\ UNCHANGED pidOf /\ NoPid \notin Proc
      /\ reader \in Table /\ numreaders \in 0 .. MaxReaders /\ MaxReaders \in Nat \ {0}
      /\ slot \in [Thread -> Slot \cup {NoSlot}] /\ pc \in [Thread -> Place] /\ MaxTxns \in Nat
      /\ env[pidOf[u]] # "open" => pc[u] = "idle" /\ slot[u] = NoSlot
  BY LocalFacts, FixedStep, Assumptions DEF Inv, SlotInv, ReaderInv, IdleOutside, Held, fixed
<1>1. ASSUME UNCHANGED <<reader, numreaders, pidlock, pc, slot, local>> PROVE Held(u)'
  BY <1>0, <1>1 DEF Held
<1>2. ASSUME pc[u] = "idle", slot[u] = NoSlot, pc'[u] = "idle", slot'[u] = NoSlot PROVE Held(u)'
  BY <1>2 DEF Held
<1>3. ASSUME NEW p \in Proc, EnvNext(p) PROVE Held(u)'
  <2>1. CASE InitRegion(p)
    <3>1. env[pidOf[u]] # "open"
      BY <1>0, <2>1 DEF InitRegion, Inv, FileLocks
    <3> QED
      BY <1>0, <1>2, <2>1, <3>1 DEF InitRegion, threads
  <2>2. CASE Close(p) \/ Die(p)
    <3>1. CASE pidOf[u] = p
      <4>1. pc'[u] = "idle" /\ slot'[u] = NoSlot
        BY <2>2, <3>1 DEF Close, Die, Of
      <4> QED
        BY <4>1 DEF Held
    <3>2. CASE pidOf[u] # p
      <4>1. /\ pc'[u] = pc[u] /\ slot'[u] = slot[u] /\ local'[u] = local[u]
            /\ UNCHANGED <<reader, numreaders>> /\ (pidOf[u] \in pidlock => pidOf[u] \in pidlock')
        BY <1>0, <2>2, <3>2 DEF Close, Die, Of, region, fcntl
      <4> QED
        BY <1>0, <4>1 DEF Held
    <3> QED
      BY <3>1, <3>2
  <2>3. CASE CloseSlot(p) \/ CloseLocks(p)
    <3>1. CASE pidOf[u] = p
      BY <1>0, <1>2, <2>3, <3>1 DEF CloseSlot, CloseLocks, threads
    <3>2. CASE pidOf[u] # p /\ CloseLocks(p)
      <4>1. UNCHANGED <<reader, numreaders, pc, slot, local>> /\ (pidOf[u] \in pidlock => pidOf[u] \in pidlock')
        BY <3>2 DEF CloseLocks, threads, region
      <4> QED
        BY <1>0, <4>1 DEF Held
    <3>3. CASE pidOf[u] # p /\ CloseSlot(p)
      <4>1. UNCHANGED <<numreaders, pidlock, pc, slot, local>>
        BY <3>3 DEF CloseSlot, threads, fcntl
      <4>2. \A s \in Slot : /\ reader'[s].txnid = reader[s].txnid
                            /\ reader[s].pid # p => reader'[s].pid = reader[s].pid
        BY <3>3, CloseSlotTable
      <4>3. 1 .. numreaders \subseteq Slot
        BY <1>0 DEF Slot
      <4> QED
        BY <1>0, <3>3, <4>1, <4>2, <4>3 DEF Held
    <3> QED
      BY <2>3, <3>1, <3>2, <3>3
  <2>4. CASE ~(InitRegion(p) \/ Close(p) \/ Die(p) \/ CloseSlot(p) \/ CloseLocks(p))
    <3>1. UNCHANGED <<reader, numreaders, pidlock, pc, slot, local>>
      BY <1>3, <2>4 DEF EnvNext, Open, WaitShared, EraseMutexes, InitMutexes, Attach, ReadHeader,
           SetTxnid, ShareLock, OpenFails, region, fcntl, threads
    <3> QED
      BY <1>1, <3>1
  <2> QED
    BY <2>1, <2>2, <2>3, <2>4
<1>4. ASSUME NEW t \in Thread, ReaderNext(t) \/ CheckNext(t) \/ WriterNext(t), u # t PROVE Held(u)'
  <2>1. Kept(u) /\ SlotKept(u)
    BY <1>4, OthersSlots, ThreadKeeps
  <2>2. /\ numreaders' \in 0 .. MaxReaders /\ local[u].at \in 0 .. MaxReaders + 1
        /\ slot[u] # NoSlot => slot[u] \in Slot
    BY <1>0, TableTyped, LocalFacts
  <2> QED
    BY <1>0, <2>1, <2>2 DEF Held, SlotKept, Kept, Slot, NoSlot
<1>5. ASSUME ReaderNext(u) PROVE Held(u)'
  <2>1. CASE BeginRead(u)
    <3>1. UNCHANGED <<reader, numreaders, slot>> /\ pidlock' = IF slot[u] # NoSlot THEN pidlock ELSE pidlock \cup {pidOf[u]}
      BY <2>1 DEF BeginRead, region
    <3> QED
      BY <1>0, <2>1, <3>1, BeginReadPlace DEF Held, BeginRead
  <2>2. CASE LockClaim(u)
    BY <1>0, <2>2 DEF Held, LockClaim, LockReaders, Goto, fcntl
  <2>3. CASE LockClaimFails(u) \/ ReadersFull(u)
    BY <1>0, <2>3 DEF Held, LockClaimFails, ReadersFull, Goto, region, fcntl
  <2>4. CASE ResetSlot(u)
    <3>1. PICK s \in Slot : /\ s <= numreaders + 1
                            /\ reader' = [reader EXCEPT ![s] = Blank]
                            /\ numreaders' = IF s > numreaders THEN s ELSE numreaders
                            /\ local' = [local EXCEPT ![u].at = s]
      BY <2>4, ResetSlotTable, Zenon
    <3>2. local'[u].at = s
      BY <3>1, LocalFacts
    <3>3. s \in 1 .. numreaders'
      BY <1>0, <3>1 DEF Slot
    <3>4. reader'[s].pid = NoPid /\ reader'[s].txnid = NoTxnid
      BY <1>0, <3>1 DEF Table, Blank
    <3> QED
      BY <1>0, <2>4, <3>2, <3>3, <3>4 DEF Held, ResetSlot, Goto, fcntl
  <2>5. CASE OwnSlot(u)
    <3>1. local[u].at \in Slot /\ pc[u] = "own"
      BY <1>0, <2>5 DEF OwnSlot, Held, Slot
    <3>2. /\ reader'[local[u].at].pid = pidOf[u] /\ reader'[local[u].at].txnid = reader[local[u].at].txnid
          /\ slot'[u] = local[u].at
          /\ UNCHANGED <<numreaders, pidlock>> /\ pc'[u] = "load"
      BY <1>0, <2>5, <3>1 DEF OwnSlot, Goto, Table, fcntl
    <3> QED
      BY <1>0, <3>1, <3>2 DEF Held, Slot, NoSlot
  <2>6. CASE LoadTxnid(u)
    BY <1>0, <2>6 DEF Held, LoadTxnid, Goto, region, fcntl
  <2>7. CASE StoreTxnid(u)
    BY <1>0, <2>7 DEF Held, StoreTxnid, Goto, Table, fcntl
  <2>8. CASE VerifyTxnid(u)
    BY <1>0, <2>8 DEF Held, VerifyTxnid, Goto, region, fcntl
  <2>9. CASE EndRead(u)
    BY <1>0, <2>9 DEF Held, EndRead, Goto, Table, fcntl
  <2>10. CASE GiveSlot(u)
    BY <1>0, <2>10 DEF Held, GiveSlot, fcntl
  <2> QED
    BY <1>5, <2>1, <2>2, <2>3, <2>4, <2>5, <2>6, <2>7, <2>8, <2>9, <2>10 DEF ReaderNext
<1>6. ASSUME CheckNext(u) \/ WriterNext(u) PROVE Held(u)'
  <2>1. pc[u] \notin InRead \cup Claiming /\ pc'[u] \notin InRead \cup Claiming /\ UNCHANGED slot
    BY ZenonT(60), <1>0, <1>6 DEF CheckNext, WriterNext, ReaderCheck, CheckFails, CheckSlot, LockCheck, LockCheckFails,
         ClearSlots, CheckReturns, LockWriter, RepairWriter, BeginWrite, FindOldest, ScanPid, ScanTxnid,
         WriteMeta, Publish, Abort, Checked, Writing, Goto, LockReaders, CheckEnds, StartCheck, EndWrite, threads
  <2>2. /\ UNCHANGED <<numreaders, pidlock>>
        /\ slot[u] # NoSlot => /\ reader'[slot[u]].pid = reader[slot[u]].pid
                               /\ reader'[slot[u]].txnid = reader[slot[u]].txnid
    <3>1. slot[u] # NoSlot => slot[u] \in Slot /\ reader[slot[u]].pid \in pidlock
      BY <1>0 DEF Held
    <3>2. CASE LockCheck(u)
      BY <3>1, <3>2, SweptTable, <1>0 DEF LockCheck, LockReaders, Gone, fcntl
    <3>3. CASE ClearSlots(u)
      BY <3>1, <3>3, ClearSlotsTable DEF ClearSlots, fcntl
    <3>4. CASE ~(LockCheck(u) \/ ClearSlots(u))
      BY ZenonT(60), <1>6, <3>4 DEF CheckNext, WriterNext, ReaderCheck, CheckFails, CheckSlot, LockCheckFails,
           CheckReturns, LockWriter, RepairWriter, BeginWrite, FindOldest, ScanPid, ScanTxnid,
           WriteMeta, Publish, Abort, region, fcntl
    <3> QED
      BY <3>2, <3>3, <3>4
  <2> QED
    BY SMTT(40), <1>0, <2>1, <2>2 DEF Held
<1>7. ASSUME UNCHANGED vars PROVE Held(u)'
  BY <1>1, <1>7 DEF vars, region, fcntl, threads
<1> QED
  BY <1>3, <1>4, <1>5, <1>6, <1>7 DEF Next

(* Every step keeps the slots their threads', published and apart.         *)
LEMMA SlotsStep == Inv /\ [Next]_vars => SlotInv' /\ ReaderInv'
<1> SUFFICES ASSUME Inv, [Next]_vars PROVE SlotInv' /\ ReaderInv'
  OBVIOUS
<1>1. \A u \in Thread : Held(u)'
  BY HeldStep
<1>2. ASSUME NEW t \in Thread, NEW u \in Thread, slot'[t] = slot'[u], t # u PROVE slot'[t] = NoSlot
  <2>0. /\ slot \in [Thread -> Slot \cup {NoSlot}]
        /\ slot[t] = slot[u] => slot[t] = NoSlot
    BY <1>2, LocalFacts DEF Inv, SlotInv
  <2>1. ASSUME NEW v \in Thread, NEW w \in Thread, v # w, OwnSlot(v), slot'[w] # NoSlot
        PROVE  slot'[v] # slot'[w]
    <3>1. slot'[w] = slot[w] /\ slot'[v] = local[v].at
      BY <2>0, <2>1 DEF OwnSlot
    <3>2. reader[local[v].at].pid = NoPid /\ (slot[w] # NoSlot => reader[slot[w]].pid # NoPid)
      BY <2>1, LocalFacts, Assumptions DEF Inv, ReaderInv, SlotInv, OwnSlot
    <3> QED
      BY <2>1, <3>1, <3>2
  <2>2. ASSUME NEW v \in Thread, OwnSlot(v) PROVE slot'[t] = NoSlot
    <3>1. CASE v # t /\ v # u
      BY <2>0, <2>2, <3>1, <1>2 DEF OwnSlot
    <3>2. CASE v = t \/ v = u
      BY <1>2, <2>1, <2>2, <3>2
    <3> QED
      BY <3>1, <3>2
  <2>3. CASE \A v \in Thread : ~OwnSlot(v)
    <3>1. slot'[t] \in {slot[t], NoSlot} /\ slot'[u] \in {slot[u], NoSlot}
      <4>1. ASSUME NEW p \in Proc, EnvNext(p)
            PROVE  slot'[t] \in {slot[t], NoSlot} /\ slot'[u] \in {slot[u], NoSlot}
        BY ZenonT(60), <2>0, <4>1 DEF EnvNext, Open, WaitShared, EraseMutexes, InitMutexes, InitRegion,
             Attach, ReadHeader, SetTxnid, ShareLock, OpenFails, Close, CloseSlot, CloseLocks, Die, threads
      <4>2. ASSUME NEW v \in Thread, ReaderNext(v)
            PROVE  slot'[t] \in {slot[t], NoSlot} /\ slot'[u] \in {slot[u], NoSlot}
        BY ZenonT(60), <2>0, <2>3, <4>2 DEF ReaderNext, BeginRead, LockClaim, LockClaimFails, ResetSlot,
             ReadersFull, LoadTxnid, StoreTxnid, VerifyTxnid, EndRead, GiveSlot, threads
      <4>3. ASSUME NEW v \in Thread, CheckNext(v)
            PROVE  slot'[t] \in {slot[t], NoSlot} /\ slot'[u] \in {slot[u], NoSlot}
        BY ZenonT(60), <2>0, <4>3 DEF CheckNext, ReaderCheck, CheckFails, CheckSlot, LockCheck,
             LockCheckFails, ClearSlots, CheckReturns, threads
      <4>4. ASSUME NEW v \in Thread, WriterNext(v)
            PROVE  slot'[t] \in {slot[t], NoSlot} /\ slot'[u] \in {slot[u], NoSlot}
        BY ZenonT(60), <2>0, <4>4 DEF WriterNext, LockWriter, RepairWriter, BeginWrite, FindOldest,
             ScanPid, ScanTxnid, WriteMeta, Publish, Abort, threads
      <4> QED
        BY ZenonT(60), <4>1, <4>2, <4>3, <4>4 DEF Next, vars, threads
    <3> QED
      BY SMTT(40), <1>2, <2>0, <3>1
  <2> QED
    BY <2>2, <2>3
<1> QED
  BY <1>1, <1>2 DEF SlotInv, ReaderInv, Held

-----------------------------------------------------------------------------
(* The loops over the table.                                               *)

(* Every step keeps the loops inside the table.                            *)
LEMMA RangesStep == Inv /\ [Next]_vars => Ranges'
<1> SUFFICES ASSUME Inv, [Next]_vars, NEW u \in Thread
    PROVE  (/\ pc[u] \in {"idle", "claim", "reset"} => local[u] = NoLocal
            /\ pc[u] = "check" => local[u].at >= 1
            /\ pc[u] \in {"dead", "clear", "compare"} => local[u].at \in 1 .. MaxReaders
            /\ pc[u] = "scan" => local[u].at \in 0 .. MaxReaders
            /\ pc[u] \in {"write", "scan", "compare", "publish"} => local[u].snap >= 1)'
  BY DEF Ranges
<1> DEFINE R == /\ pc[u] \in {"idle", "claim", "reset"} => local[u] = NoLocal
                /\ pc[u] = "check" => local[u].at >= 1
                /\ pc[u] \in {"dead", "clear", "compare"} => local[u].at \in 1 .. MaxReaders
                /\ pc[u] = "scan" => local[u].at \in 0 .. MaxReaders
                /\ pc[u] \in {"write", "scan", "compare", "publish"} => local[u].snap >= 1
<1>0. R /\ pc \in [Thread -> Place] /\ local \in [Thread -> Locals] /\ MaxReaders \in Nat /\ mti_txnid \in Nat
      /\ numreaders \in 0 .. MaxReaders /\ local[u].snap \in Nat /\ local[u].at \in 0 .. MaxReaders + 1
      /\ local[u].num \in 0 .. MaxReaders
  BY LocalFacts DEF Inv, Ranges, Locals
<1>1. ASSUME UNCHANGED <<pc, local>> PROVE R'
  BY <1>0, <1>1
<1>2. ASSUME NEW p \in Proc, EnvNext(p) PROVE R'
  <2>1. CASE Die(p)
    BY <1>0, <2>1 DEF Die
  <2>2. CASE ~Die(p)
    <3>1. UNCHANGED <<pc, local>>
      BY <1>2, <2>2 DEF EnvNext, Open, WaitShared, EraseMutexes, InitMutexes, InitRegion, Attach,
           ReadHeader, SetTxnid, ShareLock, OpenFails, Close, CloseSlot, CloseLocks, threads
    <3> QED
      BY <1>1, <3>1
  <2> QED
    BY <2>1, <2>2
<1>3. ASSUME NEW t \in Thread, ReaderNext(t) \/ CheckNext(t) \/ WriterNext(t), u # t PROVE R'
  <2>1. Kept(u)
    BY <1>3, ThreadKeeps
  <2>2. local[u] = NoLocal => local'[u] = NoLocal
    <3>1. CASE BeginRead(t)
      <4> SUFFICES ASSUME local[u] = NoLocal PROVE local'[u] = NoLocal
        OBVIOUS
      <4>1. local'[u].left = local[u].left \/ local'[u].left = local[u].left \ {pidOf[t]}
        BY <3>1, BeginReadLocal
      <4>2. local'[u].left = {}
        BY <4>1 DEF NoLocal
      <4>3. local'[u] \in Locals
        BY LocalTyped
      <4>4. /\ local'[u].snap = 0 /\ local'[u].at = 0 /\ local'[u].num = 0 /\ local'[u].oldest = 0
            /\ local'[u].pids = {} /\ local'[u].pid = NoPid
        BY <2>1 DEF Kept, NoLocal
      <4> QED
        BY <4>2, <4>3, <4>4 DEF NoLocal, Locals
    <3>2. CASE ~BeginRead(t)
      BY ZenonT(60), <1>0, <1>3, <3>2 DEF ReaderNext, CheckNext, WriterNext, LockClaim, LockClaimFails, ResetSlot,
           ReadersFull, OwnSlot, LoadTxnid, StoreTxnid, VerifyTxnid, EndRead, GiveSlot,
           ReaderCheck, CheckFails, CheckSlot, LockCheck, LockCheckFails, ClearSlots,
           CheckReturns, LockWriter, RepairWriter, BeginWrite, FindOldest, ScanPid, ScanTxnid,
           WriteMeta, Publish, Abort, StartCheck, CheckEnds, EndWrite, threads
    <3> QED
      BY <3>1, <3>2
  <2> QED
    BY <1>0, <2>1, <2>2 DEF Kept
<1>4. ASSUME ReaderNext(u) PROVE R'
  <2>1. CASE BeginRead(u)
    <3>1. pc[u] = "idle" /\ local[u] = NoLocal
      BY <1>0, <2>1 DEF BeginRead
    <3>2. \/ pc'[u] = "load"
          \/ pc'[u] = "claim" /\ local'[u] = [NoLocal EXCEPT !.left = @ \ {pidOf[u]}]
      BY ZenonT(60), <1>0, <2>1, <3>1, BeginReadPlace DEF BeginRead
    <3>3. [NoLocal EXCEPT !.left = @ \ {pidOf[u]}] = NoLocal
      BY DEF NoLocal
    <3> QED
      BY <3>2, <3>3
  <2>2. CASE ResetSlot(u)
    BY <1>0, <2>2 DEF ResetSlot, Goto
  <2>3. CASE LockClaim(u) \/ LockClaimFails(u) \/ ReadersFull(u)
    BY <1>0, <2>3 DEF LockClaim, LockClaimFails, ReadersFull, LockReaders, Goto
  <2>4. CASE OwnSlot(u) \/ LoadTxnid(u) \/ StoreTxnid(u) \/ VerifyTxnid(u)
    BY <1>0, <2>4 DEF OwnSlot, LoadTxnid, StoreTxnid, VerifyTxnid, Goto
  <2>5. CASE EndRead(u) \/ GiveSlot(u)
    BY <1>0, <2>5 DEF EndRead, GiveSlot, Goto
  <2> QED
    BY <1>4, <2>1, <2>2, <2>3, <2>4, <2>5 DEF ReaderNext
<1>5. ASSUME CheckNext(u) PROVE R'
  <2>1. CASE ReaderCheck(u)
    <3>1. pc'[u] = "check"
      BY <1>0, <2>1 DEF ReaderCheck, StartCheck, Goto
    <3> QED
      BY <2>1, <3>1, StartCheckLocal DEF ReaderCheck, Loop
  <2>2. CASE CheckFails(u) \/ LockCheckFails(u) \/ CheckReturns(u)
    BY <1>0, <2>2 DEF CheckFails, LockCheckFails, CheckReturns, CheckEnds, Goto
  <2>3. CASE CheckSlot(u)
    <3>1. /\ local[u].at \in 1 .. MaxReaders
          /\ \/ pc'[u] = "dead" /\ local'[u].at = local[u].at
             \/ pc'[u] = "check" /\ local'[u].at = local[u].at + 1
      BY <1>0, <2>3, CheckSlotLocal DEF Loop, Slot
    <3> QED
      BY <1>0, <3>1
  <2>4. CASE LockCheck(u)
    BY <1>0, <2>4, LockCheckLocal DEF LockCheck, LockReaders, Goto, Loop
  <2>5. CASE ClearSlots(u)
    <3>1. pc'[u] = "check"
      BY <1>0, <2>5 DEF ClearSlots, Goto
    <3> QED
      BY <2>5, <3>1, ClearSlotsLocal DEF Loop
  <2> QED
    BY <1>5, <2>1, <2>2, <2>3, <2>4, <2>5 DEF CheckNext
<1>6. ASSUME WriterNext(u) PROVE R'
  <2>1. CASE LockWriter(u) \/ WriteMeta(u)
    BY <1>0, <2>1 DEF LockWriter, WriteMeta, Writing, Goto
  <2>2. CASE RepairWriter(u)
    <3>1. pc'[u] = "check"
      BY <1>0, <2>2 DEF RepairWriter, StartCheck, Goto
    <3> QED
      BY <2>2, <3>1, StartCheckLocal DEF RepairWriter, Loop
  <2>3. CASE BeginWrite(u)
    <3>1. local'[u].snap = mti_txnid + 1 /\ pc'[u] = "write"
      BY <1>0, <2>3, LocalFacts DEF BeginWrite, Goto
    <3> QED
      BY <1>0, <3>1
  <2>4. CASE FindOldest(u)
    BY ZenonT(60), <1>0, <2>4, FindOldestLocal DEF FindOldest, Goto, Loop, Snap
  <2>5. CASE ScanPid(u)
    BY <1>0, <2>5, ScanPidLocal DEF ScanPid, Goto, Loop, Snap, Slot
  <2>6. CASE ScanTxnid(u)
    <3>1. pc[u] = "compare" /\ pc'[u] = "scan"
      BY <1>0, <2>6 DEF ScanTxnid, Goto
    <3>2. local[u].at \in 1 .. MaxReaders /\ local'[u].at = local[u].at - 1 /\ local'[u].snap = local[u].snap
      BY <2>6, ScanTxnidLocal DEF Loop, Snap, Slot
    <3> QED
      BY <1>0, <3>1, <3>2
  <2>7. CASE Publish(u) \/ Abort(u)
    BY <1>0, <2>7 DEF Publish, Abort, EndWrite, Goto
  <2> QED
    BY <1>6, <2>1, <2>2, <2>3, <2>4, <2>5, <2>6, <2>7 DEF WriterNext
<1>7. ASSUME UNCHANGED vars PROVE R'
  BY <1>1, <1>7 DEF vars, threads
<1>8. R'
  BY <1>2, <1>3, <1>4, <1>5, <1>6, <1>7 DEF Next
<1> QED
  BY <1>8

-----------------------------------------------------------------------------
(* The txnids, in the data file and in the lock file.                      *)

Advancing == {"write", "scan", "compare", "publish"}

(* Steps that are not a writer's leave the writers as they are, and the    *)
(* txnids; a check may give up the mutex of its writer.                    *)
WritersKept ==
    /\ \A u \in Thread : pc[u] \in Advancing \/ pc'[u] \in Advancing =>
                            pc'[u] = pc[u] /\ local'[u].snap = local[u].snap
    /\ \A u \in Thread : wmutex' = u => wmutex = u
    /\ wmutex' # wmutex => wmutex' = Lost /\ \A u \in Thread : wmutex = u => pc[u] # "publish"
    /\ UNCHANGED <<meta, mti_txnid>> /\ begun <= begun' /\ begun' <= MaxTxns

(* Readers and checks leave the writers and the txnids alone.              *)
LEMMA ReadersAndChecks ==
    ASSUME Inv, NEW t \in Thread, ReaderNext(t) \/ CheckNext(t)
    PROVE  WritersKept
<1>0. /\ pc \in [Thread -> Place] /\ local \in [Thread -> Locals] /\ begun \in Nat /\ begun <= MaxTxns
      /\ MaxTxns \in Nat /\ Lost \notin Thread
  BY LocalFacts, Assumptions DEF Inv, Shape, MetaBound, Locals
<1>1. \A u \in Thread : u # t => pc'[u] = pc[u] /\ local'[u].snap = local[u].snap
  BY ThreadKeeps DEF Kept
<1>2. pc[t] \notin Advancing /\ pc'[t] \notin Advancing
  <2>1. CASE ReaderNext(t)
    <3>1. CASE BeginRead(t)
      BY SMTT(40), <1>0, <3>1, BeginReadPlace DEF BeginRead, Advancing
    <3>2. CASE ~BeginRead(t)
      <4>1. CASE LockClaim(t) \/ LockClaimFails(t) \/ ResetSlot(t) \/ ReadersFull(t) \/ OwnSlot(t)
        BY SMTT(40), <1>0, <4>1 DEF Advancing, LockClaim, LockClaimFails, ResetSlot, ReadersFull, OwnSlot,
             Goto, LockReaders, threads
      <4>2. CASE LoadTxnid(t) \/ StoreTxnid(t) \/ VerifyTxnid(t) \/ EndRead(t) \/ GiveSlot(t)
        BY SMTT(40), <1>0, <4>2 DEF Advancing, LoadTxnid, StoreTxnid, VerifyTxnid, EndRead, GiveSlot,
             Goto, threads
      <4> QED
        BY <2>1, <3>2, <4>1, <4>2 DEF ReaderNext
    <3> QED
      BY <3>1, <3>2
  <2>2. CASE CheckNext(t)
    BY ZenonT(60), <1>0, <2>2 DEF Advancing, CheckNext, ReaderCheck, CheckFails, CheckSlot, LockCheck, LockCheckFails,
         ClearSlots, CheckReturns, Checked, Goto, LockReaders, CheckEnds, StartCheck
  <2> QED
    BY <2>1, <2>2
<1>3. /\ UNCHANGED <<meta, mti_txnid>> /\ begun <= begun' /\ begun' <= MaxTxns
      /\ wmutex' = wmutex \/ (wmutex' = Lost /\ wmutex = t)
  <2>1. CASE ReaderNext(t)
    BY SMTT(40), <1>0, <2>1 DEF ReaderNext, BeginRead, LockClaim, LockClaimFails, ResetSlot, ReadersFull, OwnSlot,
         LoadTxnid, StoreTxnid, VerifyTxnid, EndRead, GiveSlot, region, mutexes, bounds
  <2>2. CASE CheckNext(t)
    <3>1. CASE ReaderCheck(t) \/ CheckFails(t) \/ CheckSlot(t)
      BY SMTT(40), <1>0, <3>1 DEF ReaderCheck, CheckFails, CheckSlot, CheckEnds, region, mutexes, bounds
    <3>2. CASE LockCheck(t) \/ LockCheckFails(t)
      BY SMTT(40), <1>0, <3>2 DEF LockCheck, LockCheckFails, CheckEnds, region, mutexes, bounds
    <3>3. CASE ClearSlots(t) \/ CheckReturns(t)
      BY SMTT(40), <1>0, <3>3 DEF ClearSlots, CheckReturns, CheckEnds, region, mutexes, bounds
    <3> QED
      BY <2>2, <3>1, <3>2, <3>3 DEF CheckNext
  <2> QED
    BY <2>1, <2>2
<1> QED
  BY <1>0, <1>1, <1>2, <1>3 DEF WritersKept, Advancing

(* Where a region is initialised, nobody is in a transaction.              *)
LEMMA NobodyInside ==
    ASSUME Inv, NEW p \in Proc, env[p] \in {"erase", "mutexes", "region"}
    PROVE  /\ \A q \in Proc : env[q] \notin {"txnid", "share", "open", "closing"}
           /\ \A t \in Thread : pc[t] = "idle" /\ wmutex # t
<1>1. \A q \in Proc : env[q] \notin {"txnid", "share", "open", "closing"}
  BY DEF Inv, FileLocks
<1>2. \A t \in Thread : pc[t] = "idle"
  BY <1>1, LocalFacts DEF Inv, IdleOutside
<1> QED
  BY <1>1, <1>2 DEF Inv, WriterPlaces, Checking, WritePlace

(* Every step keeps the txnids below the number of transactions begun.     *)
LEMMA MetaStep == Inv /\ [Next]_vars => MetaBound'
<1> SUFFICES ASSUME Inv, [Next]_vars PROVE MetaBound'
  OBVIOUS
<1>0. /\ MetaBound /\ MutexesHeld /\ pc \in [Thread -> Place] /\ local \in [Thread -> Locals]
      /\ {meta, mti_txnid, begun, MaxTxns} \subseteq Nat /\ header \in [Proc -> 0 .. MaxTxns]
      /\ Thread \cap {Free, Dead, Lost, Stuck} = {}
  BY LocalFacts, Assumptions DEF Inv, Shape, TypeOK, Locals
<1>1. ASSUME UNCHANGED <<meta, mti_txnid, begun, header, wmutex, pc, local>> PROVE MetaBound'
  BY <1>0, <1>1 DEF MetaBound
<1>2. ASSUME NEW p \in Proc, EnvNext(p) PROVE MetaBound'
  <2>1. CASE EraseMutexes(p) \/ InitRegion(p)
    <3>1. \A t \in Thread : pc[t] = "idle" /\ wmutex # t
      BY <2>1, NobodyInside DEF EraseMutexes, InitRegion
    <3>2. UNCHANGED <<meta, begun, header, pc, local>> /\ mti_txnid' \in {mti_txnid, 0} /\ wmutex' \in {wmutex, Free}
      BY <2>1 DEF EraseMutexes, InitRegion, mutexes, region, bounds, threads
    <3> QED
      BY <1>0, <3>1, <3>2 DEF MetaBound
  <2>2. CASE ReadHeader(p)
    BY <1>0, <2>2 DEF MetaBound, ReadHeader, region, mutexes, threads, bounds
  <2>3. CASE SetTxnid(p)
    BY <1>0, <2>3 DEF MetaBound, SetTxnid, mutexes, threads, bounds
  <2>4. CASE OpenFails(p)
    BY <1>0, <2>4 DEF MetaBound, OpenFails, region, mutexes, threads, bounds
  <2>5. CASE Die(p)
    <3>1. \A t \in Thread : wmutex' = t => wmutex = t /\ t \notin Of(p)
      BY <1>0, <2>5 DEF Die, Orphan
    <3>2. \A t \in Thread : \/ pc'[t] = "idle" /\ t \in Of(p)
                            \/ pc'[t] = pc[t] /\ local'[t] = local[t]
      BY <2>5 DEF Die
    <3>3. UNCHANGED <<meta, begun, mti_txnid>> /\ \A q \in Proc : header'[q] \in {header[q], 0}
      BY <1>0, <2>5 DEF Die, bounds, region
    <3> QED
      BY <1>0, <3>1, <3>2, <3>3 DEF MetaBound
  <2>6. CASE ~(EraseMutexes(p) \/ InitRegion(p) \/ ReadHeader(p) \/ SetTxnid(p) \/ OpenFails(p) \/ Die(p))
    <3>1. UNCHANGED <<meta, mti_txnid, header, wmutex, pc, local, begun>>
      BY <1>2, <2>6 DEF EnvNext, Open, WaitShared, InitMutexes, Attach, ShareLock,
           Close, CloseSlot, CloseLocks, region, mutexes, threads, bounds
    <3> QED
      BY <1>1, <3>1
  <2> QED
    BY <2>1, <2>2, <2>3, <2>4, <2>5, <2>6
<1>3. ASSUME NEW t \in Thread, ReaderNext(t) \/ CheckNext(t) PROVE MetaBound'
  <2>1. WritersKept /\ UNCHANGED header /\ begun' \in Nat
    BY <1>3, ReadersAndChecks, ThreadOpen, ShapeStep DEF Shape
  <2>2. /\ begun' <= MaxTxns /\ meta' <= begun' /\ mti_txnid' <= begun'
        /\ \A p \in Proc : header'[p] <= begun'
    BY <1>0, <2>1 DEF WritersKept, MetaBound
  <2>3. \A u \in Thread : wmutex' = u /\ pc'[u] # "publish" =>
           meta' < begun' /\ mti_txnid' < begun' /\ \A p \in Proc : header'[p] < begun'
    <3>1. \A u \in Thread : wmutex' = u /\ pc'[u] # "publish" => wmutex = u /\ pc[u] # "publish"
      BY <2>1 DEF WritersKept, Advancing
    <3> QED
      BY <1>0, <2>1, <3>1 DEF WritersKept, MetaBound
  <2>4. /\ \A u \in Thread : pc'[u] \in {"write", "scan", "compare"} => local'[u].snap <= begun'
        /\ \A u \in Thread : pc'[u] = "publish" => local'[u].snap = meta'
    <3>1. \A u \in Thread : pc'[u] \in Advancing => pc'[u] = pc[u] /\ local'[u].snap = local[u].snap
      BY <2>1 DEF WritersKept
    <3>2. \A u \in Thread : local[u].snap \in Nat
      BY LocalFacts
    <3> QED
      BY <1>0, <2>1, <3>1, <3>2 DEF WritersKept, MetaBound, Advancing
  <2> QED
    BY <1>0, <2>1, <2>2, <2>3, <2>4 DEF MetaBound
<1>4. ASSUME NEW t \in Thread, WriterNext(t) PROVE MetaBound'
  <2>0. UNCHANGED header /\ \A u \in Thread : u # t => pc'[u] = pc[u] /\ local'[u].snap = local[u].snap
    BY <1>4, ThreadOpen, ThreadKeeps DEF Kept
  <2>1. CASE LockWriter(t) \/ RepairWriter(t)
    <3>1. /\ begun' = begun + 1 /\ begun < MaxTxns /\ wmutex' = t /\ pc'[t] \in {"begin", "check"}
          /\ UNCHANGED meta /\ mti_txnid' \in {mti_txnid, meta}
          /\ \A u \in Thread : wmutex # u
      BY <1>0, <2>1 DEF LockWriter, RepairWriter, StartCheck, Goto, region
    <3>2. \A u \in Thread : pc[u] \notin Advancing
      BY <1>0, <3>1 DEF MutexesHeld, Advancing
    <3> QED
      BY <1>0, <2>0, <3>1, <3>2 DEF MetaBound, Advancing
  <2>2. CASE BeginWrite(t)
    <3>1. /\ local'[t].snap = mti_txnid + 1 /\ pc'[t] = "write" /\ wmutex = t /\ pc[t] = "begin"
          /\ UNCHANGED <<meta, mti_txnid, wmutex, begun>>
      BY <1>0, <2>2, LocalFacts DEF BeginWrite, Goto, MutexesHeld, region, mutexes, bounds
    <3> QED
      BY <1>0, <2>0, <3>1 DEF MetaBound
  <2>3. CASE FindOldest(t) \/ ScanPid(t) \/ ScanTxnid(t)
    <3>1. UNCHANGED <<meta, mti_txnid, wmutex, begun>>
      BY <2>3 DEF FindOldest, ScanPid, ScanTxnid, region, mutexes, bounds
    <3>2. pc[t] \in {"write", "scan", "compare"} /\ pc'[t] \in {"scan", "compare"}
      BY <1>0, <2>3 DEF FindOldest, ScanPid, ScanTxnid, Goto, threads
    <3>3. local'[t].snap = local[t].snap
      BY <2>3, FindOldestLocal, ScanPidLocal, ScanTxnidLocal DEF Snap
    <3> QED
      BY <1>0, <2>0, <3>1, <3>2, <3>3 DEF MetaBound
  <2>4. CASE WriteMeta(t)
    <3>1. /\ meta' = local[t].snap /\ pc'[t] = "publish" /\ wmutex = t /\ pc[t] \in {"write", "scan"}
          /\ UNCHANGED <<local, mti_txnid, wmutex, begun>>
      BY <1>0, <2>4 DEF WriteMeta, Writing, Goto, MutexesHeld, region, mutexes, bounds
    <3>2. \A u \in Thread : u # t => pc[u] \notin {"publish"}
      BY <1>0, <3>1 DEF MutexesHeld
    <3> QED
      BY <1>0, <2>0, <3>1, <3>2 DEF MetaBound
  <2>5. CASE Publish(t) \/ Abort(t)
    <3>1. /\ wmutex' = Free /\ pc'[t] = "idle" /\ UNCHANGED <<meta, begun>>
          /\ mti_txnid' = mti_txnid \/ (mti_txnid' = local[t].snap /\ pc[t] = "publish")
      BY <1>0, <2>5 DEF Publish, Abort, EndWrite, Goto, region, bounds
    <3> QED
      BY <1>0, <2>0, <3>1 DEF MetaBound
  <2> QED
    BY <1>4, <2>1, <2>2, <2>3, <2>4, <2>5 DEF WriterNext
<1>5. ASSUME UNCHANGED vars PROVE MetaBound'
  BY <1>1, <1>5 DEF vars, region, mutexes, envs, threads, bounds
<1>6. MetaBound'
  BY <1>2, <1>3, <1>4, <1>5 DEF Next
<1> QED
  BY <1>6

(* mti_txnid is only set back by an open.                                  *)
LEMMA SetBackStep ==
    ASSUME Inv, [Next]_vars, ~setBack'
    PROVE  ~setBack /\ \A p \in Proc : SetTxnid(p) => ~(header[p] < mti_txnid)
<1>1. ASSUME NEW p \in Proc, SetTxnid(p) PROVE ~setBack /\ ~(header[p] < mti_txnid)
  BY <1>1, Zenon DEF SetTxnid
<1>2. CASE \A p \in Proc : ~SetTxnid(p)
  <2>1. UNCHANGED setBack
    <3>1. ASSUME NEW p \in Proc, EnvNext(p) PROVE UNCHANGED setBack
      BY <1>2, <3>1 DEF EnvNext, Open, WaitShared, EraseMutexes, InitMutexes, InitRegion, Attach,
           ReadHeader, ShareLock, OpenFails, Close, CloseSlot, CloseLocks, Die
    <3>2. ASSUME NEW t \in Thread, ReaderNext(t) \/ CheckNext(t) \/ WriterNext(t) PROVE UNCHANGED setBack
      BY <3>2, ThreadOpen
    <3>3. ASSUME UNCHANGED vars PROVE UNCHANGED setBack
      BY <3>3 DEF vars
    <3> QED
      BY <3>1, <3>2, <3>3 DEF Next
  <2> QED
    BY <1>2, <2>1
<1> QED
  BY <1>1, <1>2

(* The parts of TxnidInv.                                                  *)
TxnidSettled ==
    \/ mti_txnid = meta
    \/ Unsettled
    \/ \A p \in Proc : env[p] \notin {"share", "open", "closing"}

HeadersOld ==
    \A p \in Proc : /\ header[p] <= meta
                    /\ env[p] = "txnid" /\ header[p] < meta => header[p] < mti_txnid \/ Unsettled

WritersFollow ==
    \A t \in Thread : pc[t] \in {"write", "scan", "compare"} => local[t].snap = meta + 1

(* The lock file's txnid is the data file's, wherever a writer may begin.  *)
LEMMA TxnidStep == Inv /\ [Next]_vars => TxnidInv'
<1> SUFFICES ASSUME Inv, [Next]_vars, ~setBack'
    PROVE  TxnidSettled' /\ HeadersOld' /\ WritersFollow'
  BY DEF TxnidInv, TxnidSettled, HeadersOld, WritersFollow
<1>0. /\ TxnidSettled /\ HeadersOld /\ WritersFollow
      /\ \A p \in Proc : SetTxnid(p) => ~(header[p] < mti_txnid)
  <2>1. ~setBack /\ \A p \in Proc : SetTxnid(p) => ~(header[p] < mti_txnid)
    BY SetBackStep
  <2> QED
    BY <2>1 DEF Inv, TxnidInv, TxnidSettled, HeadersOld, WritersFollow
<1>1. /\ MutexesHeld /\ pc \in [Thread -> Place] /\ local \in [Thread -> Locals]
      /\ {meta, mti_txnid, MaxTxns} \subseteq Nat /\ header \in [Proc -> 0 .. MaxTxns]
      /\ DOMAIN env = Proc /\ pidOf \in [Thread -> Proc]
      /\ Thread \cap {Free, Dead, Lost, Stuck} = {} /\ Free \notin {Dead, Lost, Stuck}
  BY LocalFacts, Assumptions DEF Inv, Shape, TypeOK, Locals, Free, Dead, Lost, Stuck
<1> DEFINE Goal == TxnidSettled /\ HeadersOld /\ WritersFollow
<1>2. ASSUME UNCHANGED <<meta, mti_txnid, header, wmutex, pc, local>>,
             \A p \in Proc : /\ env'[p] \in {"share", "open", "closing"} =>
                                   env[p] \in {"share", "open", "closing"}
                             /\ env'[p] = "txnid" => env[p] = "txnid"
      PROVE  Goal'
  BY <1>0, <1>1, <1>2 DEF TxnidSettled, HeadersOld, WritersFollow, Unsettled
<1>3. ASSUME NEW p \in Proc, EnvNext(p) PROVE Goal'
  <2>1. CASE EraseMutexes(p) \/ InitRegion(p)
    <3>1. /\ \A t \in Thread : pc[t] = "idle"
          /\ \A q \in Proc : env[q] \notin {"txnid", "share", "open", "closing"}
      BY <2>1, NobodyInside DEF EraseMutexes, InitRegion
    <3>2. UNCHANGED <<meta, header, pc>> /\ \A q \in Proc : env'[q] \notin {"txnid", "share", "open", "closing"}
      BY <1>1, <2>1, <3>1 DEF EraseMutexes, InitRegion, At, threads
    <3> QED
      BY <1>0, <3>1, <3>2 DEF TxnidSettled, HeadersOld, WritersFollow
  <2>2. CASE ReadHeader(p)
    <3>1. /\ UNCHANGED <<meta, mti_txnid, wmutex, pc, local>>
          /\ header' = [header EXCEPT ![p] = meta] /\ env' = [env EXCEPT ![p] = "txnid"]
      BY <2>2 DEF ReadHeader, At, region, mutexes, threads
    <3>2. Unsettled' <=> Unsettled
      BY <3>1 DEF Unsettled
    <3>3. TxnidSettled'
      BY <1>0, <1>1, <2>2, <3>1, <3>2 DEF TxnidSettled, ReadHeader
    <3>4. HeadersOld'
      BY <1>0, <1>1, <3>1, <3>2 DEF HeadersOld
    <3> QED
      BY <1>0, <3>1, <3>3, <3>4 DEF WritersFollow
  <2>3. CASE SetTxnid(p)
    <3>1. /\ UNCHANGED <<meta, wmutex, pc, local>> /\ mti_txnid' = header[p] /\ env[p] = "txnid"
          /\ header' = [header EXCEPT ![p] = 0] /\ env' = [env EXCEPT ![p] = "share"]
      BY <2>3 DEF SetTxnid, At, mutexes, threads
    <3>2. Unsettled' <=> Unsettled
      BY <3>1 DEF Unsettled
    <3>3. header[p] \in Nat /\ header[p] >= mti_txnid
      BY <1>0, <1>1, <2>3
    <3>4. TxnidSettled'
      BY <1>0, <1>1, <3>1, <3>2, <3>3 DEF TxnidSettled, HeadersOld
    <3>5. ASSUME NEW q \in Proc
          PROVE  /\ header'[q] <= meta'
                 /\ env'[q] = "txnid" /\ header'[q] < meta' => header'[q] < mti_txnid' \/ Unsettled'
      <4>1. CASE q = p
        BY <1>1, <3>1, <4>1
      <4>2. CASE q # p
        BY <1>0, <1>1, <3>1, <3>2, <3>3, <4>2 DEF HeadersOld
      <4> QED
        BY <4>1, <4>2
    <3> QED
      BY <1>0, <3>1, <3>4, <3>5 DEF WritersFollow, HeadersOld
  <2>4. CASE OpenFails(p)
    <3>1. /\ UNCHANGED <<meta, mti_txnid, wmutex, pc, local>>
          /\ header' = [header EXCEPT ![p] = 0] /\ env' = [env EXCEPT ![p] = "closed"]
      BY <2>4 DEF OpenFails, At, region, mutexes, threads
    <3>2. Unsettled' <=> Unsettled
      BY <3>1 DEF Unsettled
    <3> QED
      BY <1>0, <1>1, <3>1, <3>2 DEF TxnidSettled, HeadersOld, WritersFollow
  <2>5. CASE Die(p)
    <3>1. /\ UNCHANGED <<meta, mti_txnid>>
          /\ header' = [header EXCEPT ![p] = 0] /\ env' = [env EXCEPT ![p] = "closed"]
          /\ \A t \in Thread : pc'[t] = "idle" \/ (pc'[t] = pc[t] /\ local'[t] = local[t])
      BY <2>5 DEF Die, At, region
    <3>2. Unsettled => Unsettled'
      <4>1. wmutex \in {Dead, Lost, Stuck} => wmutex' = wmutex
        BY <1>1, <2>5 DEF Die, Orphan, Of
      <4>2. ASSUME NEW t \in Thread, wmutex = t PROVE wmutex' \in {Dead, Stuck} \/ (wmutex' = t /\ pc'[t] = pc[t])
        BY <2>5, <4>2 DEF Die, Orphan, Of
      <4> QED
        BY <4>1, <4>2 DEF Unsettled
    <3> QED
      BY <1>0, <1>1, <3>1, <3>2 DEF TxnidSettled, HeadersOld, WritersFollow
  <2>6. CASE Open(p) \/ WaitShared(p) \/ InitMutexes(p) \/ Attach(p) \/ ShareLock(p) \/ Close(p)
             \/ CloseSlot(p) \/ CloseLocks(p)
    <3>1. UNCHANGED <<meta, mti_txnid, header, wmutex, pc, local>>
      BY <2>6 DEF Open, WaitShared, InitMutexes, Attach, ShareLock, Close, CloseSlot, CloseLocks,
                  region, mutexes, threads
    <3>2. \A q \in Proc : /\ env'[q] \in {"share", "open", "closing"} => env[q] \in {"share", "open", "closing"}
                          /\ env'[q] = "txnid" => env[q] = "txnid"
      BY <1>1, <2>6 DEF Open, WaitShared, InitMutexes, Attach, ShareLock, Close, CloseSlot, CloseLocks, At
    <3> QED
      BY <1>2, <3>1, <3>2
  <2> QED
    BY <1>3, <2>1, <2>2, <2>3, <2>4, <2>5, <2>6 DEF EnvNext
<1>4. ASSUME NEW t \in Thread, ReaderNext(t) \/ CheckNext(t) PROVE Goal'
  <2>1. WritersKept /\ UNCHANGED <<header, env>>
    BY <1>4, ReadersAndChecks, ThreadOpen
  <2>2. Unsettled => Unsettled'
    BY <1>1, <2>1 DEF WritersKept, Unsettled, Advancing
  <2> QED
    BY <1>0, <2>1, <2>2 DEF WritersKept, Advancing, TxnidSettled, HeadersOld, WritersFollow
<1>5. ASSUME NEW t \in Thread, WriterNext(t) PROVE Goal'
  <2>0. /\ UNCHANGED <<header, env>> /\ env[pidOf[t]] = "open" /\ pidOf[t] \in Proc
        /\ \A u \in Thread : u # t => pc'[u] = pc[u] /\ local'[u].snap = local[u].snap
    BY <1>1, <1>5, ThreadOpen, ThreadKeeps DEF Kept
  <2>1. CASE LockWriter(t)
    <3>1. wmutex = Free /\ UNCHANGED <<meta, mti_txnid>> /\ pc'[t] = "begin"
      BY <1>1, <2>1 DEF LockWriter, Goto, region
    <3>2. ~Unsettled
      BY <1>1, <3>1 DEF Unsettled
    <3> QED
      BY <1>0, <2>0, <3>1, <3>2 DEF TxnidSettled, HeadersOld, WritersFollow
  <2>2. CASE RepairWriter(t)
    <3>1. UNCHANGED meta /\ mti_txnid' = meta /\ pc'[t] = "check"
      BY <1>1, <2>2 DEF RepairWriter, StartCheck, Goto
    <3> QED
      BY <1>0, <2>0, <3>1 DEF TxnidSettled, HeadersOld, WritersFollow
  <2>3. CASE BeginWrite(t)
    <3>1. /\ local'[t].snap = mti_txnid + 1 /\ wmutex = t /\ pc[t] = "begin" /\ pc'[t] = "write"
          /\ UNCHANGED <<meta, mti_txnid, wmutex>>
      BY <1>1, <2>3, LocalFacts DEF BeginWrite, Goto, MutexesHeld, region, mutexes
    <3>2. ~Unsettled
      BY <1>1, <3>1 DEF Unsettled
    <3>3. mti_txnid = meta
      BY <1>0, <2>0, <3>2 DEF TxnidSettled
    <3> QED
      BY <1>0, <2>0, <3>1, <3>2, <3>3 DEF TxnidSettled, HeadersOld, WritersFollow
  <2>4. CASE FindOldest(t) \/ ScanPid(t) \/ ScanTxnid(t)
    <3>1. /\ UNCHANGED <<meta, mti_txnid, wmutex>>
          /\ pc[t] \in {"write", "scan", "compare"} /\ pc'[t] \in {"scan", "compare"}
      BY <1>1, <2>4 DEF FindOldest, ScanPid, ScanTxnid, Goto, region, mutexes, threads
    <3>2. local'[t].snap = local[t].snap
      BY <2>4, FindOldestLocal, ScanPidLocal, ScanTxnidLocal DEF Snap
    <3>3. Unsettled => Unsettled'
      BY <2>0, <3>1 DEF Unsettled
    <3> QED
      BY <1>0, <2>0, <3>1, <3>2, <3>3 DEF TxnidSettled, HeadersOld, WritersFollow
  <2>5. CASE WriteMeta(t)
    <3>1. /\ meta' = local[t].snap /\ pc'[t] = "publish" /\ wmutex = t /\ pc[t] \in {"write", "scan"}
          /\ UNCHANGED wmutex
      BY <1>1, <2>5 DEF WriteMeta, Writing, Goto, MutexesHeld, mutexes
    <3>2. meta' = meta + 1 /\ Unsettled'
      BY <1>0, <3>1 DEF WritersFollow, Unsettled
    <3>3. \A u \in Thread : pc'[u] \notin {"write", "scan", "compare"}
      BY <1>1, <2>0, <3>1 DEF MutexesHeld
    <3> QED
      BY <1>0, <1>1, <2>0, <3>2, <3>3 DEF TxnidSettled, HeadersOld, WritersFollow
  <2>6. CASE Publish(t)
    <3>1. UNCHANGED meta /\ mti_txnid' = meta /\ pc'[t] = "idle"
      BY <1>1, <2>6 DEF Publish, EndWrite, Goto, Inv, MetaBound
    <3> QED
      BY <1>0, <2>0, <3>1 DEF TxnidSettled, HeadersOld, WritersFollow
  <2>7. CASE Abort(t)
    <3>1. UNCHANGED <<meta, mti_txnid>> /\ pc'[t] = "idle" /\ wmutex = t /\ pc[t] # "publish"
      BY <1>1, <2>7 DEF Abort, EndWrite, Goto, Writing, MutexesHeld, region
    <3>2. ~Unsettled
      BY <1>1, <3>1 DEF Unsettled
    <3> QED
      BY <1>0, <2>0, <3>1, <3>2 DEF TxnidSettled, HeadersOld, WritersFollow
  <2> QED
    BY <1>5, <2>1, <2>2, <2>3, <2>4, <2>5, <2>6, <2>7 DEF WriterNext
<1>6. ASSUME UNCHANGED vars PROVE Goal'
  BY <1>2, <1>6 DEF vars, region, mutexes, envs, threads
<1>7. Goal'
  BY <1>3, <1>4, <1>5, <1>6 DEF Next
<1> QED
  BY <1>7

-----------------------------------------------------------------------------
(* The check for dead readers.                                             *)

(* A pid that appears in a slot is that of a process that has its lock.    *)
LEMMA PidsStep ==
    ASSUME Inv, [Next]_vars, NEW s \in 1 .. numreaders'
    PROVE  \/ reader'[s].pid \in {NoPid} \cup pidlock
           \/ s <= numreaders /\ reader'[s].pid = reader[s].pid
<1> DEFINE G == \/ reader'[s].pid \in {NoPid} \cup pidlock
                \/ s <= numreaders /\ reader'[s].pid = reader[s].pid
<1>0. /\ reader \in Table /\ numreaders \in 0 .. MaxReaders /\ MaxReaders \in Nat
      /\ numreaders' \in 0 .. MaxReaders /\ s \in Slot /\ s \in Nat
      /\ slot \in [Thread -> Slot \cup {NoSlot}]
  BY LocalFacts, TableTyped DEF Slot
<1>1. ASSUME UNCHANGED <<reader, numreaders>> PROVE G
  BY <1>0, <1>1
<1>2. ASSUME UNCHANGED numreaders, \A i \in Slot : reader'[i].pid \in {NoPid, reader[i].pid} PROVE G
  BY <1>0, <1>2
<1>3. ASSUME NEW p \in Proc, EnvNext(p) PROVE G
  <2>1. CASE InitRegion(p)
    BY SMTT(40), <1>0, <2>1 DEF InitRegion
  <2>2. CASE CloseSlot(p)
    BY <1>2, <2>2, CloseSlotTable DEF CloseSlot
  <2>3. CASE ~(InitRegion(p) \/ CloseSlot(p))
    <3>1. UNCHANGED <<reader, numreaders>>
      BY <1>3, <2>3 DEF EnvNext, Open, WaitShared, EraseMutexes, InitMutexes, Attach, ReadHeader, SetTxnid,
           ShareLock, OpenFails, Close, CloseLocks, Die, region
    <3> QED
      BY <1>1, <3>1
  <2> QED
    BY <2>1, <2>2, <2>3
<1>4. ASSUME NEW t \in Thread, ReaderNext(t) PROVE G
  <2>1. CASE LockClaim(t)
    <3>1. UNCHANGED numreaders /\ (reader' = Swept(pidOf[t]) \/ UNCHANGED reader) /\ pidOf[t] \in Proc
      BY <2>1, LocalFacts DEF LockClaim, LockReaders
    <3> QED
      BY <1>1, <1>2, <3>1, SweptTable
  <2>2. CASE ResetSlot(t)
    <3>1. PICK i \in Slot : /\ i <= numreaders + 1
                            /\ reader' = [reader EXCEPT ![i] = Blank]
                            /\ numreaders' = IF i > numreaders THEN i ELSE numreaders
      BY <2>2, ResetSlotTable, Zenon
    <3>2. CASE s = i
      BY <1>0, <3>1, <3>2 DEF Table, Blank
    <3>3. CASE s # i
      BY <1>0, <3>1, <3>3 DEF Table, Slot
    <3> QED
      BY <3>2, <3>3
  <2>3. CASE OwnSlot(t)
    <3>1. local[t].at \in Slot /\ pidOf[t] \in pidlock
      BY <1>0, <2>3 DEF OwnSlot, Inv, ReaderInv, Claiming, Slot
    <3>2. numreaders' = numreaders /\ reader'[s].pid = IF s = local[t].at THEN pidOf[t] ELSE reader[s].pid
      BY <1>0, <2>3, <3>1 DEF OwnSlot, Table
    <3> QED
      BY <1>0, <3>1, <3>2
  <2>4. CASE StoreTxnid(t) \/ EndRead(t) \/ GiveSlot(t)
    <3>1. slot[t] \in Slot
      BY <1>0, <2>4 DEF StoreTxnid, EndRead, GiveSlot, Inv, ReaderInv, InRead
    <3>2. numreaders' = numreaders /\ \A i \in Slot : reader'[i].pid \in {NoPid, reader[i].pid}
      BY <1>0, <2>4, <3>1 DEF StoreTxnid, EndRead, GiveSlot, Table
    <3> QED
      BY <1>2, <3>2
  <2>5. CASE ~(LockClaim(t) \/ ResetSlot(t) \/ OwnSlot(t) \/ StoreTxnid(t) \/ EndRead(t) \/ GiveSlot(t))
    <3>1. UNCHANGED <<reader, numreaders>>
      BY <1>4, <2>5 DEF ReaderNext, BeginRead, LockClaimFails, ReadersFull, LoadTxnid, VerifyTxnid, region
    <3> QED
      BY <1>1, <3>1
  <2> QED
    BY <2>1, <2>2, <2>3, <2>4, <2>5
<1>5. ASSUME NEW t \in Thread, CheckNext(t) \/ WriterNext(t) PROVE G
  <2>1. CASE LockCheck(t)
    <3>1. UNCHANGED numreaders /\ (reader' = Swept(pidOf[t]) \/ UNCHANGED reader) /\ pidOf[t] \in Proc
      BY SMTT(40), <2>1, LocalFacts DEF LockCheck, LockReaders
    <3> QED
      BY <1>1, <1>2, <3>1, SweptTable
  <2>2. CASE ClearSlots(t)
    BY ZenonT(60), <1>2, <2>2, ClearSlotsTable DEF ClearSlots
  <2>3. CASE ~(LockCheck(t) \/ ClearSlots(t))
    <3>1. UNCHANGED <<reader, numreaders>>
      BY ZenonT(60), <1>5, <2>3 DEF CheckNext, WriterNext, ReaderCheck, CheckFails, CheckSlot, LockCheckFails,
           CheckReturns, LockWriter, RepairWriter, BeginWrite, FindOldest, ScanPid, ScanTxnid,
           WriteMeta, Publish, Abort, region
    <3> QED
      BY <1>1, <3>1
  <2> QED
    BY <2>1, <2>2, <2>3
<1>6. ASSUME UNCHANGED vars PROVE G
  BY <1>1, <1>6 DEF vars, region
<1>7. G
  BY <1>3, <1>4, <1>5, <1>6 DEF Next
<1> QED
  BY <1>7

(* CheckInv of one thread.                                                 *)
Clears(u) ==
    /\ local[u].left \cap pidlock = {} /\ pidOf[u] \notin local[u].left
    /\ pc[u] \in Checking =>
          \A s \in 1 .. numreaders : reader[s].pid \in local[u].left =>
             /\ s \in local[u].at .. local[u].num
             /\ reader[s].pid \in local[u].pids
                   => pc[u] \in {"dead", "clear"} /\ reader[s].pid = local[u].pid
             /\ s = local[u].at /\ pc[u] \in {"dead", "clear"} => reader[s].pid = local[u].pid

(* What a check has passed stays clear of the dead it was called about.    *)
LEMMA CheckStep == Inv /\ [Next]_vars => CheckInv'
<1> SUFFICES ASSUME Inv, [Next]_vars, NEW u \in Thread PROVE Clears(u)'
  BY DEF CheckInv, Clears
<1> USE DEF Checking
<1>0. /\ Clears(u) /\ UNCHANGED pidOf /\ pidOf[u] \in Proc /\ NoPid \notin Proc
      /\ local[u].left \subseteq Proc /\ pc \in [Thread -> Place] /\ reader \in Table
      /\ numreaders \in 0 .. MaxReaders /\ numreaders' \in 0 .. MaxReaders /\ MaxReaders \in Nat
      /\ local \in [Thread -> Locals]
      /\ \A t \in Thread : pc[t] \in {"idle", "claim", "reset"} => local[t] = NoLocal
  <2>1. Clears(u) /\ \A t \in Thread : pc[t] \in {"idle", "claim", "reset"} => local[t] = NoLocal
    BY DEF Inv, CheckInv, Clears, Ranges
  <2>2. local \in [Thread -> Locals]
    BY LocalFacts DEF Locals
  <2> QED
    BY <2>1, <2>2, LocalFacts, FixedStep, TableTyped, Assumptions DEF fixed
<1>1. ASSUME local'[u].left \subseteq local[u].left
      PROVE  \A s \in 1 .. numreaders' : reader'[s].pid \in local'[u].left =>
                s \in 1 .. numreaders /\ reader[s].pid = reader'[s].pid /\ reader[s].pid \in local[u].left
  <2>1. ASSUME NEW s \in 1 .. numreaders', reader'[s].pid \in local'[u].left
        PROVE  s \in 1 .. numreaders /\ reader[s].pid = reader'[s].pid
    <3>1. reader'[s].pid \in local[u].left /\ reader'[s].pid \notin {NoPid} \cup pidlock
      BY <1>0, <1>1, <2>1 DEF Clears
    <3>2. s <= numreaders /\ reader'[s].pid = reader[s].pid
      BY <3>1, PidsStep
    <3> QED
      BY <1>0, <3>2
  <2> QED
    BY <1>1, <2>1
<1>2. ASSUME local'[u].left \subseteq local[u].left, local'[u].left \cap pidlock' = {},
             pc'[u] \in Checking => /\ pc'[u] = pc[u] /\ local'[u].at = local[u].at /\ local'[u].num = local[u].num
                                    /\ local'[u].pids = local[u].pids /\ local'[u].pid = local[u].pid
      PROVE  Clears(u)'
  BY <1>0, <1>1, <1>2 DEF Clears
<1>3. ASSUME NEW p \in Proc, EnvNext(p) PROVE Clears(u)'
  <2>1. pidlock' \subseteq pidlock
    BY <1>3 DEF EnvNext, Open, WaitShared, EraseMutexes, InitMutexes, InitRegion, Attach,
       ReadHeader, SetTxnid, ShareLock, OpenFails, Close, CloseSlot, CloseLocks, Die, fcntl
  <2>2. \/ pc'[u] = pc[u] /\ local'[u] = local[u]
        \/ pc'[u] = "idle" /\ local'[u] = NoLocal
    BY <1>3 DEF EnvNext, Open, WaitShared, EraseMutexes, InitMutexes, InitRegion, Attach,
       ReadHeader, SetTxnid, ShareLock, OpenFails, Close, CloseSlot, CloseLocks, Die, threads
  <2>3. CASE pc'[u] = pc[u] /\ local'[u] = local[u]
    BY <1>0, <1>2, <2>1, <2>3 DEF Clears
  <2>4. CASE pc'[u] = "idle" /\ local'[u] = NoLocal
    BY <2>4 DEF Clears, NoLocal
  <2> QED
    BY <2>2, <2>3, <2>4
<1>4. ASSUME NEW t \in Thread, BeginRead(t) PROVE Clears(u)'
  <2>1. /\ local'[u].left = IF slot[t] # NoSlot THEN local[u].left ELSE local[u].left \ {pidOf[t]}
        /\ local'[u].at = local[u].at /\ local'[u].num = local[u].num
        /\ local'[u].pids = local[u].pids /\ local'[u].pid = local[u].pid
    BY <1>4, BeginReadLocal DEF Loop, Seen
  <2>2. pidlock' = IF slot[t] # NoSlot THEN pidlock ELSE pidlock \cup {pidOf[t]}
    BY <1>4 DEF BeginRead
  <2>3. pc'[u] = pc[u] \/ pc'[u] \notin Checking
    BY <1>0, <1>4, BeginReadPlace
  <2> QED
    BY <1>0, <1>2, <2>1, <2>2, <2>3 DEF Clears
<1>5. ASSUME NEW t \in Thread, t # u, ReaderNext(t) \/ CheckNext(t) \/ WriterNext(t), ~BeginRead(t)
      PROVE  Clears(u)'
  <2>1. Kept(u)
    BY SMTT(40), <1>5, ThreadKeeps
  <2>2. local'[u].left = local[u].left /\ UNCHANGED pidlock
    BY ZenonT(60), <1>0, <1>5 DEF ReaderNext, CheckNext, WriterNext, LockClaim, LockClaimFails, ResetSlot,
           ReadersFull, OwnSlot, LoadTxnid, StoreTxnid, VerifyTxnid, EndRead, GiveSlot,
           ReaderCheck, CheckFails, CheckSlot, LockCheck, LockCheckFails, ClearSlots,
           CheckReturns, LockWriter, RepairWriter, BeginWrite, FindOldest, ScanPid, ScanTxnid,
           WriteMeta, Publish, Abort, StartCheck, CheckEnds, EndWrite, Locals, threads, fcntl
  <2> QED
    BY <1>0, <1>2, <2>1, <2>2 DEF Kept, Clears
<1>6. ASSUME ReaderNext(u), ~BeginRead(u) PROVE Clears(u)'
  <2>1. /\ pc'[u] \notin Checking /\ UNCHANGED pidlock
        /\ local'[u].left = local[u].left \/ local'[u].left = {}
    BY <1>0, <1>6 DEF ReaderNext, LockClaim, LockClaimFails, ResetSlot, ReadersFull, OwnSlot, LoadTxnid,
         StoreTxnid, VerifyTxnid, EndRead, GiveSlot, Goto, LockReaders, threads, fcntl, NoLocal, Locals
  <2> QED
    BY <1>0, <2>1 DEF Clears
<1>7. ASSUME StartCheck(u), pc[u] = "idle", UNCHANGED <<reader, numreaders, pidlock>> PROVE Clears(u)'
  <2>1. /\ pc'[u] = "check" /\ local'[u].at = 1 /\ local'[u].num = numreaders /\ local'[u].pids = {}
        /\ \A q \in local'[u].left : Gone(q, pidOf[u])
    <3>1. pc'[u] = "check" /\ local[u].pids = {}
      BY <1>0, <1>7 DEF StartCheck, Goto, NoLocal
    <3> QED
      BY <1>7, <3>1, StartCheckLocal DEF Loop, Seen
  <2> QED
    BY <1>0, <1>7, <2>1 DEF Clears, Gone
<1>8. ASSUME CheckNext(u) PROVE Clears(u)'
  <2>0. UNCHANGED <<numreaders, pidlock>>
    BY <1>8 DEF CheckNext, ReaderCheck, CheckFails, CheckSlot, LockCheck, LockCheckFails,
         ClearSlots, CheckReturns, region, fcntl
  <2>1. CASE ReaderCheck(u)
    BY <1>7, <2>1 DEF ReaderCheck, region, fcntl
  <2>2. CASE CheckFails(u) \/ LockCheckFails(u) \/ CheckReturns(u)
    <3>1. local'[u] = NoLocal /\ pc'[u] \in {"idle", "begin"}
      BY <1>0, <2>2 DEF CheckFails, LockCheckFails, CheckReturns, CheckEnds, Goto
    <3> QED
      BY <3>1 DEF Clears, NoLocal
  <2>3. CASE CheckSlot(u)
    <3> DEFINE q == reader[local[u].at].pid
               b == Gone(q, pidOf[u]) /\ q \notin local[u].pids
    <3>1. /\ pc[u] = "check" /\ UNCHANGED reader /\ local'[u].left = local[u].left
          /\ local'[u].num = local[u].num /\ local[u].at \in Slot
          /\ b => /\ pc'[u] = "dead" /\ local'[u].at = local[u].at
                  /\ local'[u].pids = local[u].pids \cup {q} /\ local'[u].pid = q
          /\ ~b => /\ pc'[u] = "check" /\ local'[u].at = local[u].at + 1
                   /\ local'[u].pids = local[u].pids \cup ({q} \ {NoPid, pidOf[u]})
      BY ZenonT(60), <1>0, <2>3, CheckSlotLocal DEF CheckSlot, Loop, Seen, region
    <3>2. ASSUME NEW s \in 1 .. numreaders, reader[s].pid \in local[u].left
          PROVE  s \in local[u].at .. local[u].num /\ reader[s].pid \notin local[u].pids /\ Gone(reader[s].pid, pidOf[u])
      BY <1>0, <3>1, <3>2 DEF Clears, Gone
    <3>3. CASE b
      BY <1>0, <2>0, <3>1, <3>2, <3>3 DEF Clears
    <3>4. CASE ~b
      <4>1. ASSUME NEW s \in 1 .. numreaders, reader[s].pid \in local[u].left
            PROVE  reader[s].pid # q /\ s # local[u].at
        BY <3>2, <3>4, <4>1
      <4>2. local[u].at \in Nat /\ local[u].num \in Nat
        BY <1>0, LocalFacts
      <4> HIDE DEF b, q
      <4> QED
        BY <1>0, <2>0, <3>1, <3>2, <3>4, <4>1, <4>2 DEF Clears
    <3> QED
      BY SMTT(40), <3>3, <3>4
  <2>4. CASE LockCheck(u)
    <3>1. /\ pc[u] = "dead" /\ pc'[u] = "clear" /\ local'[u].left = local[u].left /\ local'[u].at = local[u].at
          /\ local'[u].pids = local[u].pids /\ local'[u].pid = local[u].pid
          /\ rmutex = Dead => reader' = Swept(pidOf[u])
          /\ rmutex # Dead => reader' = reader /\ local'[u].num = local[u].num
      BY <1>0, <2>4, LockCheckLocal DEF LockCheck, LockReaders, Goto, Loop, Seen
    <3>2. CASE rmutex = Dead
      <4>1. \A s \in 1 .. numreaders : reader'[s].pid \notin local[u].left
        <5>1. 1 .. numreaders \subseteq Slot /\ \A s \in 1 .. numreaders : s <= numreaders
          BY <1>0 DEF Slot
        <5> QED
          BY <1>0, <3>1, <3>2, <5>1, SweptTable DEF Clears, Gone
      <4> QED
        BY <1>0, <2>0, <3>1, <4>1 DEF Clears
    <3>3. CASE rmutex # Dead
      BY <1>0, <2>0, <3>1, <3>3 DEF Clears
    <3> QED
      BY <3>2, <3>3
  <2>5. CASE ClearSlots(u)
    <3>1. /\ pc[u] = "clear" /\ pc'[u] = "check" /\ local'[u].left = local[u].left
          /\ local'[u].at = local[u].at + 1 /\ local'[u].num = local[u].num
          /\ local'[u].pids = local[u].pids /\ local[u].at \in Nat /\ local[u].num \in Nat
      <4>1. pc[u] = "clear" /\ pc'[u] = "check"
        BY <1>0, <2>5 DEF ClearSlots, Goto
      <4>2. local[u].num \in Nat
        BY LocalFacts
      <4> QED
        BY <2>5, <4>1, <4>2, ClearSlotsLocal DEF Loop, Seen
    <3>2. ASSUME NEW s \in 1 .. numreaders, reader'[s].pid \in local[u].left
          PROVE  /\ s \in local[u].at .. local[u].num /\ s # local[u].at
                 /\ reader'[s].pid \notin local[u].pids
      <4>1. s \in Slot /\ reader[s].pid = reader'[s].pid /\ reader[s].pid \notin pidlock
        BY <1>0, <1>1, <2>0, <3>1, <3>2 DEF Clears, Slot
      <4>2. s \in local[u].at .. local[u].num => reader[s].pid # local[u].pid
        <5> SUFFICES ASSUME s \in local[u].at .. local[u].num, reader[s].pid = local[u].pid PROVE FALSE
          OBVIOUS
        <5>1. reader'[s].pid = NoPid
          BY <2>5, <4>1, ClearSlotsTable
        <5> QED
          BY <1>0, <3>2, <5>1
      <4> QED
        BY <1>0, <3>1, <3>2, <4>1, <4>2 DEF Clears
    <3> QED
      BY <1>0, <2>0, <3>1, <3>2 DEF Clears
  <2> QED
    BY SMTT(40), <1>8, <2>1, <2>2, <2>3, <2>4, <2>5 DEF CheckNext
<1>9. ASSUME WriterNext(u) PROVE Clears(u)'
  <2>1. CASE RepairWriter(u)
    BY <1>7, <2>1 DEF RepairWriter, fcntl
  <2>2. CASE FindOldest(u) \/ ScanPid(u) \/ ScanTxnid(u)
    <3>1. pc'[u] \notin Checking /\ UNCHANGED pidlock
      BY <1>0, <2>2 DEF FindOldest, ScanPid, ScanTxnid, Goto, fcntl
    <3>2. local'[u].left = local[u].left
      BY <2>2, FindOldestLocal, ScanPidLocal, ScanTxnidLocal
    <3> QED
      BY <1>0, <3>1, <3>2 DEF Clears
  <2>3. CASE ~(RepairWriter(u) \/ FindOldest(u) \/ ScanPid(u) \/ ScanTxnid(u))
    <3>1. /\ pc'[u] \notin Checking /\ UNCHANGED pidlock
          /\ local'[u].left = local[u].left \/ local'[u].left = {}
      BY <1>0, <1>9, <2>3 DEF WriterNext, LockWriter, BeginWrite, WriteMeta, Publish, Abort, EndWrite, Goto,
           NoLocal, Locals, fcntl
    <3> QED
      BY <1>0, <3>1 DEF Clears
  <2> QED
    BY <2>1, <2>2, <2>3
<1>10. ASSUME UNCHANGED vars PROVE Clears(u)'
  BY <1>0, <1>2, <1>10 DEF vars, threads, fcntl, Clears
<1> QED
  BY <1>3, <1>4, <1>5, <1>6, <1>8, <1>9, <1>10 DEF Next

-----------------------------------------------------------------------------
(* The oldest reader.                                                      *)

(* OldestInv of a writer, and of a writer and a reader.                    *)
OldestZero(w) == pc[w] \in Checking \cup {"begin", "write"} => local[w].oldest = 0

OldestPublished(w) ==
    /\ pc[w] = "write" => local[w].snap - 1 <= mti_txnid
    /\ pc[w] \in {"scan", "compare", "publish"} => local[w].oldest <= mti_txnid

OldestOf(w, r) ==
    pc[r] = "reading" =>
       /\ pc[w] \in {"scan", "compare"} => slot[r] <= local[w].at \/ local[w].oldest <= local[r].snap
       /\ pc[w] = "publish" => local[w].oldest <= local[r].snap

(* A writer has found no oldest reader before it looks for one.            *)
LEMMA OldestZeroStep == Inv /\ [Next]_vars => \A w \in Thread : OldestZero(w)'
<1> SUFFICES ASSUME Inv, [Next]_vars, NEW w \in Thread PROVE OldestZero(w)'
  OBVIOUS
<1> USE DEF Checking
<1>0. /\ OldestZero(w) /\ pc \in [Thread -> Place] /\ local \in [Thread -> Locals]
      /\ pc[w] = "idle" => local[w].oldest = 0
  <2>1. OldestZero(w) /\ (pc[w] = "idle" => local[w].oldest = 0)
    BY DEF Inv, OldestInv, OldestZero, Ranges, NoLocal
  <2>2. local \in [Thread -> Locals]
    BY LocalFacts DEF Locals
  <2> QED
    BY <2>1, <2>2, LocalFacts
<1>1. ASSUME NEW p \in Proc, EnvNext(p) PROVE OldestZero(w)'
  <2>1. \/ pc'[w] = pc[w] /\ local'[w] = local[w]
        \/ pc'[w] = "idle"
    BY <1>1 DEF EnvNext, Open, WaitShared, EraseMutexes, InitMutexes, InitRegion, Attach,
       ReadHeader, SetTxnid, ShareLock, OpenFails, Close, CloseSlot, CloseLocks, Die, threads
  <2> QED
    BY <1>0, <2>1 DEF OldestZero
<1>2. ASSUME NEW t \in Thread, t # w, ReaderNext(t) \/ CheckNext(t) \/ WriterNext(t) PROVE OldestZero(w)'
  BY <1>0, <1>2, ThreadKeeps DEF Kept, OldestZero
<1>3. ASSUME ReaderNext(w) PROVE OldestZero(w)'
  <2>1. pc'[w] \notin Checking \cup {"begin", "write"}
    <3>1. CASE BeginRead(w)
      BY <1>0, <3>1, BeginReadPlace
    <3>2. CASE ~BeginRead(w)
      BY <1>0, <1>3, <3>2 DEF ReaderNext, LockClaim, LockClaimFails, ResetSlot, ReadersFull, OwnSlot,
           LoadTxnid, StoreTxnid, VerifyTxnid, EndRead, GiveSlot, Goto, LockReaders, threads
    <3> QED
      BY <3>1, <3>2
  <2> QED
    BY <2>1 DEF OldestZero
<1>4. ASSUME CheckNext(w) PROVE OldestZero(w)'
  <2>1. CASE ReaderCheck(w)
    <3>1. pc[w] = "idle" /\ local'[w].oldest = local[w].oldest
      BY <2>1, StartCheckLocal DEF ReaderCheck
    <3> QED
      BY <1>0, <3>1 DEF OldestZero
  <2>2. CASE CheckFails(w) \/ LockCheckFails(w) \/ CheckReturns(w)
    <3>1. local'[w] = NoLocal
      BY <1>0, <2>2 DEF CheckFails, LockCheckFails, CheckReturns, CheckEnds
    <3> QED
      BY <3>1 DEF OldestZero, NoLocal
  <2>3. CASE CheckSlot(w) \/ LockCheck(w) \/ ClearSlots(w)
    <3>1. pc[w] \in Checking
      BY <2>3 DEF CheckSlot, LockCheck, ClearSlots
    <3>2. local'[w].oldest = local[w].oldest
      BY <2>3, CheckSlotLocal, LockCheckLocal, ClearSlotsLocal
    <3> QED
      BY SMTT(40), <1>0, <3>1, <3>2 DEF OldestZero
  <2> QED
    BY <1>4, <2>1, <2>2, <2>3 DEF CheckNext
<1>5. ASSUME WriterNext(w) PROVE OldestZero(w)'
  <2>1. CASE RepairWriter(w)
    <3>1. pc[w] = "idle" /\ local'[w].oldest = local[w].oldest
      BY <2>1, StartCheckLocal DEF RepairWriter
    <3> QED
      BY <1>0, <3>1 DEF OldestZero
  <2>2. CASE LockWriter(w)
    BY <1>0, <2>2 DEF LockWriter, OldestZero
  <2>3. CASE BeginWrite(w)
    <3>1. pc[w] = "begin" /\ local'[w].oldest = local[w].oldest
      BY <2>3, LocalFacts DEF BeginWrite
    <3> QED
      BY <1>0, <3>1 DEF OldestZero
  <2>4. CASE ~(RepairWriter(w) \/ LockWriter(w) \/ BeginWrite(w))
    BY <1>0, <1>5, <2>4 DEF WriterNext, FindOldest, ScanPid, ScanTxnid, WriteMeta, Publish, Abort, EndWrite,
         Goto, OldestZero, threads
  <2> QED
    BY <2>1, <2>2, <2>3, <2>4
<1>6. ASSUME UNCHANGED vars PROVE OldestZero(w)'
  BY <1>0, <1>6 DEF vars, threads, OldestZero
<1> QED
  BY <1>1, <1>2, <1>3, <1>4, <1>5, <1>6 DEF Next

(* A reader behind the scan is not older than what it has found.           *)
LEMMA OldestStep ==
    Inv /\ [Next]_vars /\ ~setBack' =>
       \A w \in Thread : OldestPublished(w)' /\ \A r \in Thread : OldestOf(w, r)'
<1> SUFFICES ASSUME Inv, [Next]_vars, ~setBack', NEW w \in Thread, NEW r \in Thread
             PROVE  OldestPublished(w)' /\ OldestOf(w, r)'
  OBVIOUS
<1> DEFINE Goal == OldestPublished(w) /\ OldestOf(w, r)
<1>0. /\ Goal /\ pc \in [Thread -> Place] /\ local \in [Thread -> Locals]
      /\ slot \in [Thread -> Slot \cup {NoSlot}] /\ mti_txnid \in Nat /\ meta \in Nat /\ numreaders \in Nat
      /\ \A p \in Proc : SetTxnid(p) => ~(header[p] < mti_txnid)
      /\ \A p \in Proc : header[p] \in Nat
      /\ \A t \in Thread : /\ local[t].at \in Nat /\ local[t].oldest \in Nat /\ local[t].snap \in Nat
      /\ Thread \cap {Free, Dead, Lost, Stuck} = {}
  <2>1. ~setBack /\ \A p \in Proc : SetTxnid(p) => ~(header[p] < mti_txnid)
    BY SetBackStep
  <2>2. Goal
    BY <2>1 DEF Inv, OldestInv, OldestPublished, OldestOf
  <2>3. /\ local \in [Thread -> Locals]
        /\ \A t \in Thread : /\ local[t].at \in Nat /\ local[t].oldest \in Nat /\ local[t].snap \in Nat
    BY LocalFacts DEF Locals
  <2>4. mti_txnid \in Nat /\ meta \in Nat /\ \A p \in Proc : header[p] \in Nat
    BY Assumptions DEF Inv, Shape, TypeOK
  <2>5. pc \in [Thread -> Place] /\ slot \in [Thread -> Slot \cup {NoSlot}] /\ numreaders \in Nat
    BY LocalFacts
  <2> QED
    BY <2>1, <2>2, <2>3, <2>4, <2>5, Assumptions
<1>1. /\ pc[w] \in {"write", "scan", "compare", "publish"} => wmutex = w
      /\ pc[r] \in InRead => slot[r] \in Slot /\ slot[r] <= numreaders /\ reader[slot[r]].pid = pidOf[r]
      /\ pc[r] \in {"verify", "reading"} => reader[slot[r]].txnid = local[r].snap
      /\ pidOf[r] # NoPid /\ MaxReaders \in Nat
      /\ pc[w] \in {"begin", "write"} => local[w].oldest = 0
  BY <1>0, LocalFacts, Assumptions DEF Inv, MutexesHeld, ReaderInv, SlotInv, OldestInv, Checking, InRead
(* A step that keeps the writer, and moves the reader nowhere.             *)
<1>2. ASSUME pc'[w] \notin {"write", "scan", "compare", "publish"} PROVE Goal'
  BY <1>2 DEF OldestPublished, OldestOf
<1>3. ASSUME mti_txnid <= mti_txnid', mti_txnid' \in Nat,
             /\ pc'[w] = pc[w] /\ local'[w].snap = local[w].snap
             /\ local'[w].oldest = local[w].oldest /\ local'[w].at = local[w].at,
             pc'[r] = "reading" => pc[r] = "reading" /\ local'[r].snap = local[r].snap /\ slot'[r] = slot[r]
      PROVE  Goal'
  <2>1. OldestPublished(w)'
    BY <1>0, <1>3 DEF OldestPublished
  <2>2. OldestOf(w, r)'
    BY <1>0, <1>3 DEF OldestOf
  <2> QED
    BY <2>1, <2>2
<1>4. ASSUME NEW p \in Proc, EnvNext(p) PROVE Goal'
  <2>1. CASE InitRegion(p)
    BY <1>2, <2>1, NobodyInside DEF InitRegion, threads
  <2>2. CASE SetTxnid(p)
    <3>1. mti_txnid' = header[p] /\ UNCHANGED <<pc, local, slot>>
      BY <2>2 DEF SetTxnid, threads
    <3>2. mti_txnid' \in Nat /\ mti_txnid <= mti_txnid'
      BY <1>0, <2>2, <3>1
    <3> QED
      BY <1>3, <3>1, <3>2
  <2>3. CASE Close(p) \/ Die(p)
    <3>1. /\ mti_txnid' = mti_txnid
          /\ \/ pc'[w] = "idle"
             \/ pc'[w] = pc[w] /\ local'[w] = local[w]
          /\ \/ pc'[r] = "idle"
             \/ pc'[r] = pc[r] /\ local'[r] = local[r] /\ slot'[r] = slot[r]
      BY <1>0, <2>3 DEF Close, Die, Of, region
    <3> QED
      BY <1>0, <1>2, <1>3, <3>1
  <2>4. CASE ~(InitRegion(p) \/ SetTxnid(p) \/ Close(p) \/ Die(p))
    <3>1. UNCHANGED <<mti_txnid, pc, local, slot>>
      BY <1>4, <2>4 DEF EnvNext, Open, WaitShared, EraseMutexes, InitMutexes, Attach, ReadHeader,
           ShareLock, OpenFails, CloseSlot, CloseLocks, region, threads
    <3> QED
      BY <1>0, <1>3, <3>1
  <2> QED
    BY <2>1, <2>2, <2>3, <2>4
<1>5. ASSUME NEW t \in Thread, t # w, ReaderNext(t) \/ CheckNext(t) PROVE Goal'
  <2>1. Kept(w) /\ UNCHANGED mti_txnid
    BY <1>5, ThreadKeeps, ReadersAndChecks DEF WritersKept
  <2>2. CASE t # r
    <3>1. Kept(r)
      BY <1>5, <2>2, ThreadKeeps
    <3> QED
      BY <1>0, <1>3, <2>1, <3>1 DEF Kept
  <2>3. CASE t = r /\ VerifyTxnid(r)
    <3>1. /\ pc[r] = "verify" /\ UNCHANGED local
          /\ pc'[r] = "reading" => reader[slot[r]].txnid = mti_txnid
      BY <1>0, <2>3 DEF VerifyTxnid, Goto
    <3>2. pc'[r] = "reading" => local'[r].snap = mti_txnid
      BY <1>1, <3>1
    <3>3. OldestPublished(w)'
      BY <1>0, <2>1 DEF Kept, OldestPublished
    <3>4. OldestOf(w, r)'
      BY <1>0, <2>1, <3>2 DEF Kept, OldestPublished, OldestOf
    <3> QED
      BY <3>3, <3>4
  <2>4. CASE t = r /\ ~VerifyTxnid(r)
    <3>1. pc'[r] = "reading" => pc[r] = "reading" /\ GiveSlot(r)
      <4>1. CASE BeginRead(r)
        BY <1>0, <4>1, BeginReadPlace
      <4>2. CASE CheckSlot(r)
        BY <1>0, <4>2, CheckSlotLocal
      <4>3. CASE ~BeginRead(r) /\ ~CheckSlot(r)
        BY <1>0, <1>5, <2>4, <4>3 DEF ReaderNext, CheckNext, LockClaim, LockClaimFails, ResetSlot, ReadersFull,
           OwnSlot, LoadTxnid, StoreTxnid, EndRead, GiveSlot, ReaderCheck, CheckFails, LockCheck,
           LockCheckFails, ClearSlots, CheckReturns, Goto, LockReaders, CheckEnds, StartCheck, threads
      <4> QED
        BY <4>1, <4>2, <4>3
    <3>2. pc'[r] # "reading"
      BY <3>1 DEF GiveSlot
    <3> QED
      BY <1>0, <1>3, <2>1, <3>2 DEF Kept
  <2> QED
    BY <2>2, <2>3, <2>4
<1>6. ASSUME ReaderNext(w) \/ CheckNext(w) PROVE Goal'
  <2>1. pc'[w] \in Advancing => pc[w] \in Advancing /\ pc'[w] = pc[w]
    BY SMTT(40), <1>6, ReadersAndChecks DEF WritersKept
  <2>2. pc[w] \notin Advancing
    BY ZenonT(60), <1>6 DEF Advancing, ReaderNext, CheckNext, BeginRead, LockClaim, LockClaimFails, ResetSlot, ReadersFull,
       OwnSlot, LoadTxnid, StoreTxnid, VerifyTxnid, EndRead, GiveSlot, ReaderCheck, CheckFails, CheckSlot,
       LockCheck, LockCheckFails, ClearSlots, CheckReturns, Checked
  <2> QED
    BY <1>2, <2>1, <2>2 DEF Advancing
<1>7. ASSUME NEW t \in Thread, t # w, WriterNext(t) PROVE Goal'
  <2>1. Kept(w)
    BY <1>7, ThreadKeeps
  <2>2. pc'[r] = "reading" => pc[r] = "reading" /\ local'[r].snap = local[r].snap /\ slot'[r] = slot[r]
    <3>1. CASE t = r
      BY <1>0, <1>7, <3>1 DEF WriterNext, LockWriter, RepairWriter, BeginWrite, FindOldest, ScanPid, ScanTxnid,
         WriteMeta, Publish, Abort, EndWrite, StartCheck, Goto, Writing, threads
    <3>2. CASE t # r
      BY <1>7, <3>2, ThreadKeeps DEF Kept
    <3> QED
      BY <3>1, <3>2
  <2>3. CASE RepairWriter(t) \/ Publish(t)
    <3>1. wmutex # w
      BY <1>0, <1>7, <2>3 DEF RepairWriter, Publish, Inv, MutexesHeld
    <3> QED
      BY <1>1, <1>2, <2>1, <3>1 DEF Kept
  <2>4. CASE ~(RepairWriter(t) \/ Publish(t))
    <3>1. UNCHANGED mti_txnid
      BY <1>7, <2>4 DEF WriterNext, LockWriter, BeginWrite, FindOldest, ScanPid, ScanTxnid, WriteMeta, Abort, region
    <3> QED
      BY <1>0, <1>3, <2>1, <2>2, <3>1 DEF Kept
  <2> QED
    BY <2>3, <2>4
<1>8. ASSUME WriterNext(w) PROVE Goal'
  <2>0. pc'[r] = "reading" => /\ pc[r] = "reading" /\ r # w
                              /\ local'[r].snap = local[r].snap /\ slot'[r] = slot[r]
    <3>1. CASE r = w
      BY <1>0, <1>8, <3>1 DEF WriterNext, LockWriter, RepairWriter, BeginWrite, FindOldest, ScanPid, ScanTxnid,
         WriteMeta, Publish, Abort, EndWrite, StartCheck, Goto, Writing, threads
    <3>2. CASE r # w
      BY <1>8, <3>2, ThreadKeeps DEF Kept
    <3> QED
      BY <3>1, <3>2
  <2>1. CASE LockWriter(w) \/ RepairWriter(w) \/ Publish(w) \/ Abort(w)
    BY <1>0, <1>2, <2>1 DEF LockWriter, RepairWriter, Publish, Abort, EndWrite, StartCheck, Goto
  <2>2. CASE BeginWrite(w)
    <3>1. pc'[w] = "write" /\ local'[w].snap = mti_txnid + 1 /\ UNCHANGED mti_txnid
      BY <1>0, <2>2, LocalFacts DEF BeginWrite, Goto, region
    <3> QED
      BY <1>0, <3>1 DEF OldestPublished, OldestOf
  <2>3. CASE FindOldest(w)
    <3>1. /\ pc[w] = "write" /\ pc'[w] = "scan" /\ UNCHANGED mti_txnid
      BY <1>0, <2>3 DEF FindOldest, Goto, region
    <3>2. local'[w].at = numreaders /\ local'[w].oldest = local[w].snap - 1
      BY <2>3, FindOldestLocal DEF Loop
    <3>3. OldestPublished(w)'
      BY <1>0, <3>1, <3>2 DEF OldestPublished
    <3>4. OldestOf(w, r)'
      BY <1>1, <2>0, <3>1, <3>2 DEF OldestOf, InRead
    <3> QED
      BY <3>3, <3>4
  <2>4. CASE ScanPid(w)
    <3>1. /\ pc[w] = "scan" /\ pc'[w] \in {"scan", "compare"} /\ UNCHANGED mti_txnid
      BY <1>0, <2>4 DEF ScanPid, Goto, region
    <3>2. /\ local'[w].oldest = local[w].oldest /\ local[w].at \in Slot
          /\ local'[w].at = IF reader[local[w].at].pid # NoPid THEN local[w].at ELSE local[w].at - 1
      BY <2>4, ScanPidLocal DEF Loop
    <3>3. OldestPublished(w)'
      BY <1>0, <3>1, <3>2 DEF OldestPublished
    <3>4. pc[r] = "reading" /\ slot[r] <= local[w].at => slot[r] <= local'[w].at
      BY <1>0, <1>1, <3>2 DEF InRead, Slot
    <3>5. OldestOf(w, r)'
      BY <1>0, <2>0, <3>1, <3>2, <3>4 DEF OldestOf
    <3> QED
      BY <3>3, <3>5
  <2>5. CASE ScanTxnid(w)
    <3>1. /\ pc[w] = "compare" /\ pc'[w] = "scan" /\ UNCHANGED mti_txnid
      BY <1>0, <2>5 DEF ScanTxnid, Goto, region
    <3>2. /\ local[w].at \in Slot /\ local'[w].at = local[w].at - 1
          /\ local'[w].oldest = IF local[w].oldest <= reader[local[w].at].txnid
                                THEN local[w].oldest ELSE reader[local[w].at].txnid
      BY <2>5, ScanTxnidLocal DEF Loop
    <3>3. reader[local[w].at].txnid \in Nat
      BY <3>2, LocalFacts DEF Table, NoTxnid
    <3>4. local'[w].oldest <= local[w].oldest /\ local'[w].oldest <= reader[local[w].at].txnid
          /\ local'[w].oldest \in Nat
      BY <1>0, <3>2, <3>3
    <3>5. OldestPublished(w)'
      BY <1>0, <3>1, <3>4 DEF OldestPublished
    <3>6. OldestOf(w, r)'
      <4> SUFFICES ASSUME pc'[r] = "reading" PROVE slot[r] <= local'[w].at \/ local'[w].oldest <= local[r].snap
        BY <2>0, <3>1 DEF OldestOf
      <4>1. pc[r] = "reading" /\ slot[r] \in Nat /\ local[w].at \in Nat /\ local[r].snap \in Nat
        BY <1>0, <1>1, <2>0 DEF InRead, Slot
      <4>2. CASE slot[r] = local[w].at
        BY <1>1, <3>4, <4>1, <4>2
      <4>3. CASE slot[r] # local[w].at
        <5>1. slot[r] <= local[w].at \/ local[w].oldest <= local[r].snap
          BY <1>0, <3>1, <4>1 DEF OldestOf
        <5> QED
          BY <1>0, <3>2, <3>4, <4>1, <4>3, <5>1
      <4> QED
        BY <4>2, <4>3
    <3> QED
      BY <3>5, <3>6
  <2>6. CASE WriteMeta(w)
    <3>1. /\ pc[w] = "write" \/ (pc[w] = "scan" /\ local[w].at = 0)
          /\ pc'[w] = "publish" /\ UNCHANGED <<mti_txnid, local>>
      BY <1>0, <2>6 DEF WriteMeta, Writing, Goto, region
    <3>2. OldestPublished(w)'
      BY <1>0, <1>1, <3>1 DEF OldestPublished
    <3>3. OldestOf(w, r)'
      BY <1>0, <1>1, <2>0, <3>1 DEF OldestOf, InRead, Slot
    <3> QED
      BY <3>2, <3>3
  <2> QED
    BY <1>8, <2>1, <2>2, <2>3, <2>4, <2>5, <2>6 DEF WriterNext
<1>9. ASSUME UNCHANGED vars PROVE Goal'
  BY <1>0, <1>3, <1>9 DEF vars, region, threads
<1>10. Goal'
  BY <1>4, <1>5, <1>6, <1>7, <1>8, <1>9 DEF Next
<1> QED
  BY <1>10

-----------------------------------------------------------------------------
(* The theorems.                                                           *)

(* The invariant holds before any process opens the environment.           *)
LEMMA InvInit == Init => Inv
<1> SUFFICES ASSUME Init PROVE Inv
  OBVIOUS
<1>0. MaxReaders \in Nat \ {0} /\ MaxTxns \in Nat /\ NoPid \notin Proc /\ Thread \cap {Free, Dead, Lost, Stuck} = {}
  BY Assumptions
<1>1. Shape
  <2>1. Blank \in [pid : Proc \cup {NoPid}, txnid : 0 .. NoTxnid] /\ NoLocal \in Locals
    BY <1>0 DEF Blank, NoTxnid, NoLocal, Locals
  <2>2. reader \in [Slot -> [pid : Proc \cup {NoPid}, txnid : 0 .. NoTxnid]] /\ local \in [Thread -> Locals]
    BY <2>1 DEF Init
  <2>3. /\ numreaders \in 0 .. MaxReaders /\ {mti_txnid, meta} \subseteq 0 .. MaxTxns
        /\ {rmutex, wmutex} \subseteq Thread \cup {Free, Dead, Lost, Stuck}
        /\ flock \in [Proc -> {"none", "shared", "excl"}] /\ pidlock \subseteq Proc
        /\ closeReaders \in [Proc -> 0 .. MaxReaders] /\ header \in [Proc -> 0 .. MaxTxns]
        /\ slot \in [Thread -> Slot \cup {NoSlot}] /\ pc \in [Thread -> Place]
        /\ pidOf \in [Thread -> Proc] /\ {opens, begun, checks} \subseteq Nat
    BY <1>0 DEF Init, Place
  <2>4. env \in [Proc -> {"closed", "wait", "erase", "mutexes", "region", "attach", "header", "txnid",
                          "share", "open", "closing"}]
    BY DEF Init
  <2>5. {magic, robust, setBack} \subseteq BOOLEAN
    BY DEF Init
  <2>6. notls \in [Proc -> BOOLEAN]
    BY DEF Init
  <2> QED
    BY <2>2, <2>3, <2>4, <2>5, <2>6 DEF Shape, TypeOK
<1>2. FileLocks /\ IdleOutside
  BY <1>1 DEF Init, FileLocks, IdleOutside, Shape
<1>3. \A t \in Thread : pc[t] = "idle" /\ slot[t] = NoSlot /\ local[t] = NoLocal /\ wmutex # t
  BY <1>0 DEF Init
<1>4. MutexesHeld /\ WriterPlaces /\ SlotInv /\ ReaderInv /\ Ranges
  BY <1>3 DEF MutexesHeld, WriterPlaces, SlotInv, ReaderInv, Ranges, Claiming, InRead
<1>5. MetaBound /\ TxnidInv
  <2>1. begun = 0 /\ meta = 0 /\ mti_txnid = 0 /\ \A p \in Proc : header[p] = 0 /\ env[p] = "closed"
    BY DEF Init
  <2> QED
    BY <1>0, <1>3, <2>1 DEF MetaBound, TxnidInv
<1>6. CheckInv /\ OldestInv
  BY <1>3 DEF CheckInv, OldestInv, Checking, NoLocal
<1> QED
  BY <1>1, <1>2, <1>4, <1>5, <1>6 DEF Inv

(* The invariant holds at every step.                                      *)
LEMMA InvHolds == Spec => []Inv
<1>1. Inv /\ [Next]_vars => Inv'
  <2> SUFFICES ASSUME Inv, [Next]_vars PROVE Inv'
    OBVIOUS
  <2>1. Shape' /\ FileLocks' /\ IdleOutside' /\ MutexesHeld' /\ WriterPlaces'
    BY ShapeStep, FileLocksStep, IdleOutsideStep, MutexesStep
  <2>2. SlotInv' /\ ReaderInv' /\ Ranges' /\ MetaBound' /\ TxnidInv' /\ CheckInv'
    BY SlotsStep, RangesStep, MetaStep, TxnidStep, CheckStep
  <2>3. OldestInv'
    BY OldestZeroStep, OldestStep DEF OldestInv, OldestZero, OldestPublished, OldestOf
  <2> QED
    BY <2>1, <2>2, <2>3 DEF Inv
<1> QED
  BY <1>1, InvInit, PTL DEF Spec

(* A thread that has locked the reader mutex or the writer mutex of the    *)
(* lock file holds it until it unlocks it: mdb_env_setup_locks never       *)
(* initialises the mutexes of a region that is in use, whatever processes  *)
(* open the environment, fail to, close it or die meanwhile.               *)
THEOREM NobodyTakesMutexes == Spec => []MutexesHeld
<1>1. Inv => MutexesHeld
  BY DEF Inv
<1> QED
  BY <1>1, InvHolds, PTL

(* The slot of mdb_txn_renew0 stays its thread's, published under its      *)
(* process's pid and pid lock, and no two threads share one: no sweep,     *)
(* check, close or claim takes it.  The state has its types.               *)
THEOREM SlotsStayHeld == Spec => []SlotsHeld
<1>1. Inv => SlotsHeld
  <2> SUFFICES ASSUME Inv PROVE SlotsHeld
    OBVIOUS
  <2>1. TypeOK /\ \A t \in Thread : pc[t] # "badslot"
    BY DEF Inv, Shape, Place
  <2> QED
    BY <2>1 DEF Inv, SlotInv, SlotsHeld, InRead
<1> QED
  BY <1>1, InvHolds, PTL

(* A write transaction has the txnid after the newest one in the data      *)
(* file, also where the writer before it was killed with its meta page     *)
(* written and its txnid unpublished (mdb_mutex_failed), or the region has *)
(* been initialised since, as long as no open has set mti_txnid back.      *)
THEOREM WriterComesNext == Spec => []WriterFollows
<1>1. Inv => WriterFollows
  BY DEF Inv, TxnidInv, WriterFollows, Writing
<1> QED
  BY <1>1, InvHolds, PTL

(* When mdb_reader_check returns, the slots of the processes that were     *)
(* dead when it was called are free, but for a pid in use again.           *)
THEOREM CheckClearsDead == Spec => []CheckClears
<1>1. Inv => CheckClears
  <2> SUFFICES ASSUME Inv, NEW t \in Thread, NEW s \in 1 .. numreaders,
                      pc[t] = "check", local[t].at > local[t].num, reader[s].pid \in local[t].left
               PROVE  FALSE
    BY DEF CheckClears, Checked
  <2>1. s \in local[t].at .. local[t].num
    BY DEF Inv, CheckInv, Checking
  <2>2. local[t].at \in Nat /\ local[t].num \in Nat
    BY LocalFacts
  <2> QED
    BY <2>1, <2>2
<1> QED
  BY <1>1, InvHolds, PTL

(* What mdb_find_oldest returns, reading the table without a mutex, is no  *)
(* later than the txnid of any reader in a transaction, then and until     *)
(* the writer has committed with it, as long as no open has set mti_txnid  *)
(* back.                                                                   *)
THEOREM OldestReaderIsKept == Spec => []OldestIsSafe
<1>1. Inv => OldestIsSafe
  <2> SUFFICES ASSUME Inv, NEW w \in Thread, NEW r \in Thread, ~setBack,
                      pc[w] = "publish" \/ (pc[w] = "scan" /\ local[w].at = 0), pc[r] = "reading"
               PROVE  local[w].oldest <= local[r].snap
    BY DEF OldestIsSafe
  <2>1. slot[r] \in Slot
    BY LocalFacts DEF Inv, ReaderInv, InRead
  <2>2. pc[w] = "scan" => slot[r] <= local[w].at \/ local[w].oldest <= local[r].snap
    BY DEF Inv, OldestInv
  <2>3. pc[w] = "publish" => local[w].oldest <= local[r].snap
    BY DEF Inv, OldestInv
  <2> QED
    BY <2>1, <2>2, <2>3, LocalFacts DEF Slot
<1> QED
  BY <1>1, InvHolds, PTL
=============================================================================

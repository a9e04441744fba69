----------------------------- MODULE LmdbLocks -----------------------------
(***************************************************************************)
(* lmdb/mdb.c: the lock file that the processes of one environment share.  *)
(*                                                                         *)
(* The first process to open the environment takes the file's first byte   *)
(* exclusively and initialises the region, the others wait for it and      *)
(* share that byte (mdb_env_open, mdb_env_setup_locks).  The region holds  *)
(* the txnid of the last commit, a mutex for writers, and the reader       *)
(* table: a thread claims a slot under a second mutex and from then on     *)
(* keeps the txnid it reads there, without any mutex (mdb_txn_renew0).     *)
(* A writer scans the table for the oldest of them (mdb_find_oldest).      *)
(* Slots of dead processes are found by a lock each process keeps at the   *)
(* offset of its pid (mdb_reader_check0); a mutex whose owner died is      *)
(* repaired by the next to lock it (mdb_mutex_failed).                     *)
(*                                                                         *)
(* Abstractions.  Linux with robust POSIX mutexes.  Of the data file, only *)
(* the newest txnid in the meta pages.  Threads die with their process     *)
(* only; a process opens the environment once at a time and closes it when *)
(* its transactions are over, as lmdb.h asks.  A process that is opened    *)
(* again has the pid of the one before: pids are reused.                   *)
(***************************************************************************)
EXTENDS Integers, FiniteSets, FiniteSetsExt

CONSTANTS
    Proc,          \* processes, by their pids
    Thread,        \* threads of all processes
    MaxReaders,    \* me_maxreaders
    MaxOpens,      \* bound: times the environment is opened
    MaxTxns,       \* bound: transactions begun, of both kinds
    MaxChecks      \* bound: calls to mdb_reader_check

Slot    == 1 .. MaxReaders
NoSlot  == 0
NoPid   == 0
NoTxnid == MaxTxns + 1           \* (txnid_t)-1, the largest
Free    == "free"
Dead    == "dead"                 \* its owner died: the next to lock it is told
Lost    == "lost"                 \* not recoverable
Stuck   == "stuck"                \* its owner died, and it is not robust

ASSUME Assumptions ==
    /\ NoPid \notin Proc
    /\ Thread \cap {Free, Dead, Lost, Stuck} = {}
    /\ MaxReaders \in Nat \ {0}
    /\ {MaxOpens, MaxTxns, MaxChecks} \subseteq Nat

VARIABLES
    reader, numreaders, mti_txnid, magic,  \* the lock file: slots, mti_numreaders, txnid, is it initialised
    rmutex, wmutex,        \* a thread, Free, Dead, Lost or Stuck
    robust,                \* are the mutexes initialised as robust ones?
    flock,                 \* of each process: "none", "shared" or "excl", the lock on the first byte
    pidlock,               \* processes with a lock at the offset of their pid
    meta,                  \* newest txnid in the data file
    env,                   \* of each process: where mdb_env_open or mdb_env_close is
    closeReaders,          \* me_close_readers
    header,                \* txnid read by mdb_env_read_header
    notls,                 \* MDB_NOTLS
    pidOf,                 \* the process of each thread
    pc,                    \* where each thread is
    slot,                  \* the slot of its own: in its TLS, or in its read transaction
    local,                 \* and its local variables
    setBack,               \* history: has an open set mti_txnid to less than it was?
    opens, begun, checks   \* bounds

fixed   == <<notls, pidOf>>
region  == <<reader, numreaders, mti_txnid, magic>>
mutexes == <<rmutex, wmutex, robust>>
fcntl   == <<flock, pidlock>>
envs    == <<env, closeReaders, header, fixed>>
threads == <<pc, slot, local>>
bounds  == <<opens, begun, checks>>
vars    == <<region, mutexes, fcntl, meta, envs, threads, setBack, bounds>>

Blank == [pid |-> NoPid, txnid |-> NoTxnid]

(* snap: the txnid loaded, or of the transaction; at, num: the index and   *)
(* the bound of a loop over the table; oldest: the result of               *)
(* mdb_find_oldest; pids, pid: those mdb_reader_check0 has looked at,   *)
(* and the dead one; left (history): the dead processes in the table when  *)
(* the check began.                                                        *)
NoLocal == [snap |-> 0, at |-> 0, num |-> 0, oldest |-> 0, pids |-> {}, pid |-> NoPid, left |-> {}]

Of(p) == {t \in Thread : pidOf[t] = p}

Init ==
    /\ reader = [s \in Slot |-> Blank]
    /\ numreaders = 0
    /\ mti_txnid = 0
    /\ magic = FALSE
    /\ rmutex = Free /\ wmutex = Free
    /\ robust = FALSE
    /\ flock = [p \in Proc |-> "none"]
    /\ pidlock = {}
    /\ meta = 0
    /\ env = [p \in Proc |-> "closed"]
    /\ closeReaders = [p \in Proc |-> 0]
    /\ header = [p \in Proc |-> 0]
    /\ \E flag \in BOOLEAN : notls = [p \in Proc |-> flag]
    /\ pidOf \in [Thread -> Proc]
    /\ pc = [t \in Thread |-> "idle"]
    /\ slot = [t \in Thread |-> NoSlot]
    /\ local = [t \in Thread |-> NoLocal]
    /\ setBack = FALSE
    /\ opens = 0 /\ begun = 0 /\ checks = 0

Goto(t, place) == pc' = [pc EXCEPT ![t] = place]
At(p, place)   == env' = [env EXCEPT ![p] = place]

-----------------------------------------------------------------------------
(* Opening and closing the environment.                                    *)

(* Mutant: locks that others share do not keep the file from being locked  *)
(* exclusively.                                                            *)
Open_OverShared(p) ==
    /\ env[p] = "closed"
    /\ opens < MaxOpens
    /\ \/ /\ \A q \in Proc : flock[q] # "excl"
          /\ flock' = [flock EXCEPT ![p] = "excl"]
          /\ At(p, "erase")
       \/ /\ \E q \in Proc : flock[q] # "none"
          /\ At(p, "wait")
          /\ UNCHANGED flock
    /\ opens' = opens + 1
    /\ UNCHANGED <<region, mutexes, pidlock, meta, closeReaders, header, fixed, threads, setBack, begun, checks>>

(* mdb_env_excl_lock: exclusive if nobody has the byte, else wait to share *)
(* it.                                                                     *)
Open(p) ==
    /\ env[p] = "closed"
    /\ opens < MaxOpens
    /\ \/ /\ \A q \in Proc : flock[q] = "none"
          /\ flock' = [flock EXCEPT ![p] = "excl"]
          /\ At(p, "erase")
       \/ /\ \E q \in Proc : flock[q] # "none"
          /\ At(p, "wait")
          /\ UNCHANGED flock
    /\ opens' = opens + 1
    /\ UNCHANGED <<region, mutexes, pidlock, meta, closeReaders, header, fixed, threads, setBack, begun, checks>>

WaitShared(p) ==
    /\ env[p] = "wait"
    /\ \A q \in Proc : flock[q] # "excl"
    /\ flock' = [flock EXCEPT ![p] = "shared"]
    /\ At(p, "attach")
    /\ UNCHANGED <<region, mutexes, pidlock, meta, closeReaders, header, fixed, threads, setBack, bounds>>

(* The mutexes are set to zero, and then initialised; the slots stay as    *)
(* they are.                                                               *)
EraseMutexes(p) ==
    /\ env[p] = "erase"
    /\ rmutex' = Free /\ wmutex' = Free
    /\ robust' = FALSE
    /\ At(p, "mutexes")
    /\ UNCHANGED <<region, fcntl, meta, closeReaders, header, fixed, threads, setBack, bounds>>

InitMutexes(p) ==
    /\ env[p] = "mutexes"
    /\ robust' = TRUE
    /\ At(p, "region")
    /\ UNCHANGED <<region, rmutex, wmutex, fcntl, meta, closeReaders, header, fixed, threads, setBack, bounds>>

InitRegion(p) ==
    /\ env[p] = "region"
    /\ magic' = TRUE
    /\ mti_txnid' = 0
    /\ numreaders' = 0
    /\ At(p, "header")
    /\ UNCHANGED <<reader, mutexes, fcntl, meta, closeReaders, header, fixed, threads, setBack, bounds>>

Attach(p) ==
    /\ env[p] = "attach"
    /\ magic
    /\ At(p, "header")
    /\ UNCHANGED <<region, mutexes, fcntl, meta, closeReaders, header, fixed, threads, setBack, bounds>>

(* mdb_env_open2 sets mti_txnid to what it has read in the meta pages.     *)
ReadHeader(p) ==
    /\ env[p] = "header"
    /\ header' = [header EXCEPT ![p] = meta]
    /\ At(p, "txnid")
    /\ UNCHANGED <<region, mutexes, fcntl, meta, closeReaders, fixed, threads, setBack, bounds>>

SetTxnid(p) ==
    /\ env[p] = "txnid"
    /\ mti_txnid' = header[p]
    /\ setBack' = (setBack \/ header[p] < mti_txnid)
    /\ header' = [header EXCEPT ![p] = 0]
    /\ At(p, "share")
    /\ UNCHANGED <<reader, numreaders, magic, mutexes, fcntl, meta, closeReaders, fixed, threads, bounds>>

(* mdb_env_share_locks.                                                    *)
ShareLock(p) ==
    /\ env[p] = "share"
    /\ flock' = [flock EXCEPT ![p] = "shared"]
    /\ At(p, "open")
    /\ UNCHANGED <<region, mutexes, pidlock, meta, closeReaders, header, fixed, threads, setBack, bounds>>

(* Opening fails where it is; closing the lock file drops the locks.       *)
OpenFails(p) ==
    /\ env[p] \notin {"closed", "open", "closing"}
    /\ flock' = [flock EXCEPT ![p] = "none"]
    /\ header' = [header EXCEPT ![p] = 0]
    /\ At(p, "closed")
    /\ UNCHANGED <<region, mutexes, pidlock, meta, closeReaders, fixed, threads, setBack, bounds>>

(* mdb_env_close0, without the reader mutex: the TLS key is deleted, then  *)
(* each of our slots is cleared, from the last to the first.               *)
Close(p) ==
    /\ env[p] = "open"
    /\ \A t \in Of(p) : pc[t] = "idle" /\ (notls[p] => slot[t] = NoSlot)
    /\ slot' = [t \in Thread |-> IF t \in Of(p) THEN NoSlot ELSE slot[t]]
    /\ At(p, "closing")
    /\ UNCHANGED <<region, mutexes, fcntl, meta, closeReaders, header, fixed, pc, local, setBack, bounds>>

CloseSlot(p) ==
    LET s == closeReaders[p]
    IN  /\ env[p] = "closing"
        /\ s > 0
        /\ reader' = [reader EXCEPT ![s].pid = IF @ = p THEN NoPid ELSE @]
        /\ closeReaders' = [closeReaders EXCEPT ![p] = s - 1]
        /\ UNCHANGED <<numreaders, mti_txnid, magic, mutexes, fcntl, meta, env, header, fixed, threads, setBack, bounds>>

CloseLocks(p) ==
    /\ env[p] = "closing"
    /\ closeReaders[p] = 0
    /\ flock' = [flock EXCEPT ![p] = "none"]
    /\ pidlock' = pidlock \ {p}
    /\ At(p, "closed")
    /\ UNCHANGED <<region, mutexes, meta, closeReaders, header, fixed, threads, setBack, bounds>>

(* The process is killed: its file locks go, its mutexes are dead.         *)
Orphan(m, p) == IF m \in Of(p) THEN (IF robust THEN Dead ELSE Stuck) ELSE m

Die(p) ==
    /\ env[p] # "closed"
    /\ rmutex' = Orphan(rmutex, p)
    /\ wmutex' = Orphan(wmutex, p)
    /\ flock' = [flock EXCEPT ![p] = "none"]
    /\ pidlock' = pidlock \ {p}
    /\ closeReaders' = [closeReaders EXCEPT ![p] = 0]
    /\ header' = [header EXCEPT ![p] = 0]
    /\ pc' = [t \in Thread |-> IF t \in Of(p) THEN "idle" ELSE pc[t]]
    /\ slot' = [t \in Thread |-> IF t \in Of(p) THEN NoSlot ELSE slot[t]]
    /\ local' = [t \in Thread |-> IF t \in Of(p) THEN NoLocal ELSE local[t]]
    /\ At(p, "closed")
    /\ UNCHANGED <<region, robust, meta, fixed, setBack, bounds>>

-----------------------------------------------------------------------------
(* The loops over the table, and the repair of a mutex whose owner died.   *)

Gone(q, p) == q \notin {NoPid, p} /\ q \notin pidlock

(* mdb_reader_check0 with the reader mutex held, where the check cannot    *)
(* race with a claim: all slots of dead processes but our own pid's.       *)
Swept(p) == [s \in Slot |-> IF s <= numreaders /\ Gone(reader[s].pid, p)
                            THEN [reader[s] EXCEPT !.pid = NoPid] ELSE reader[s]]

(* LOCK_MUTEX(rmutex), and what the caller does with it.                   *)
LockReaders(t, next) ==
    /\ rmutex \in {Free, Dead}
    /\ reader' = IF rmutex = Dead THEN Swept(pidOf[t]) ELSE reader
    /\ rmutex' = t
    /\ Goto(t, next)

(* The mutex is not recoverable, or its repair fails: mdb_reader_check0    *)
(* has no memory.                                                          *)
LockReadersFails ==
    /\ rmutex \in {Dead, Lost}
    /\ rmutex' = Lost

(* How a check ends early: the writer that repairs its mutex gives it up.  *)
CheckEnds(t) ==
    /\ wmutex' = IF wmutex = t THEN Lost ELSE wmutex
    /\ local' = [local EXCEPT ![t] = NoLocal]
    /\ Goto(t, "idle")

StartCheck(t) ==
    /\ local' = [local EXCEPT ![t].at = 1, ![t].num = numreaders,
                              ![t].left = {q \in Proc : /\ Gone(q, pidOf[t])
                                                         /\ \E s \in 1 .. numreaders : reader[s].pid = q}]
    /\ Goto(t, "check")

-----------------------------------------------------------------------------
(* A read transaction.                                                     *)

(* mdb_txn_begin or mdb_txn_renew: with a slot it must be ours and not in  *)
(* use; the first claim of a process sets its pid lock.                    *)
BeginRead(t) ==
    /\ env[pidOf[t]] = "open"
    /\ pc[t] = "idle"
    /\ begun < MaxTxns
    /\ IF slot[t] # NoSlot
       THEN /\ Goto(t, IF reader[slot[t]] = [pid |-> pidOf[t], txnid |-> NoTxnid] THEN "load" ELSE "badslot")
            /\ UNCHANGED <<pidlock, local>>
       ELSE /\ pidlock' = pidlock \cup {pidOf[t]}
            /\ local' = [u \in Thread |-> [local[u] EXCEPT !.left = @ \ {pidOf[t]}]]
            /\ Goto(t, "claim")
    /\ begun' = begun + 1
    /\ UNCHANGED <<region, mutexes, flock, meta, envs, slot, setBack, opens, checks>>

LockClaim(t) ==
    /\ pc[t] = "claim"
    /\ LockReaders(t, "reset")
    /\ UNCHANGED <<numreaders, mti_txnid, magic, wmutex, robust, fcntl, meta, envs, slot, local, setBack, bounds>>

LockClaimFails(t) ==
    /\ pc[t] = "claim"
    /\ LockReadersFails
    /\ Goto(t, "idle")
    /\ UNCHANGED <<region, wmutex, robust, fcntl, meta, envs, slot, local, setBack, bounds>>

(* The first free slot, or the next one, is reset and published...         *)
Unused == {s \in 1 .. numreaders : reader[s].pid = NoPid}

ResetSlot(t) ==
    /\ pc[t] = "reset"
    /\ \E s \in {IF Unused = {} THEN numreaders + 1 ELSE Min(Unused)} :
          /\ s <= MaxReaders
          /\ reader' = [reader EXCEPT ![s] = Blank]
          /\ numreaders' = Max({numreaders, s})
          /\ closeReaders' = [closeReaders EXCEPT ![pidOf[t]] = numreaders']
          /\ local' = [local EXCEPT ![t].at = s]
    /\ Goto(t, "own")
    /\ UNCHANGED <<mti_txnid, magic, mutexes, fcntl, meta, env, header, fixed, slot, setBack, bounds>>

ReadersFull(t) ==
    /\ pc[t] = "reset"
    /\ Unused = {}
    /\ numreaders = MaxReaders
    /\ rmutex' = Free
    /\ Goto(t, "idle")
    /\ UNCHANGED <<region, wmutex, robust, fcntl, meta, envs, slot, local, setBack, bounds>>

(* ... and then claimed.                                                   *)
OwnSlot(t) ==
    LET s == local[t].at
    IN  /\ pc[t] = "own"
        /\ reader' = [reader EXCEPT ![s].pid = pidOf[t]]
        /\ rmutex' = Free
        /\ slot' = [slot EXCEPT ![t] = s]
        /\ local' = [local EXCEPT ![t] = NoLocal]
        /\ Goto(t, "load")
        /\ UNCHANGED <<numreaders, mti_txnid, magic, wmutex, robust, fcntl, meta, envs, setBack, bounds>>

LoadTxnid(t) ==
    /\ pc[t] = "load"
    /\ local' = [local EXCEPT ![t].snap = mti_txnid]
    /\ Goto(t, "store")
    /\ UNCHANGED <<region, mutexes, fcntl, meta, envs, slot, setBack, bounds>>

StoreTxnid(t) ==
    /\ pc[t] = "store"
    /\ reader' = [reader EXCEPT ![slot[t]].txnid = local[t].snap]
    /\ Goto(t, "verify")
    /\ UNCHANGED <<numreaders, mti_txnid, magic, mutexes, fcntl, meta, envs, slot, local, setBack, bounds>>

(* Mutant: no retry.                                                       *)
VerifyTxnid_Once(t) ==
    /\ pc[t] = "verify"
    /\ Goto(t, "reading")
    /\ UNCHANGED <<region, mutexes, fcntl, meta, envs, slot, local, setBack, bounds>>

(* Retry on a race.                                                        *)
VerifyTxnid(t) ==
    /\ pc[t] = "verify"
    /\ Goto(t, IF reader[slot[t]].txnid = mti_txnid THEN "reading" ELSE "load")
    /\ UNCHANGED <<region, mutexes, fcntl, meta, envs, slot, local, setBack, bounds>>

(* mdb_txn_end: the slot stays with the thread, or with a transaction that *)
(* is reset.                                                               *)
EndRead(t) ==
    /\ pc[t] = "reading"
    /\ reader' = [reader EXCEPT ![slot[t]].txnid = NoTxnid]
    /\ local' = [local EXCEPT ![t] = NoLocal]
    /\ Goto(t, "idle")
    /\ UNCHANGED <<numreaders, mti_txnid, magic, mutexes, fcntl, meta, envs, slot, setBack, bounds>>

(* A thread that exits gives its slot back (mdb_env_reader_dest), and so   *)
(* does, where the transaction owns it, an abort.                          *)
GiveSlot(t) ==
    /\ env[pidOf[t]] = "open"
    /\ pc[t] = "idle"
    /\ slot[t] # NoSlot
    /\ reader' = [reader EXCEPT ![slot[t]].pid = NoPid]
    /\ slot' = [slot EXCEPT ![t] = NoSlot]
    /\ UNCHANGED <<numreaders, mti_txnid, magic, mutexes, fcntl, meta, envs, pc, local, setBack, bounds>>

-----------------------------------------------------------------------------
(* mdb_reader_check0 without the reader mutex, called by the application   *)
(* or by the writer that repairs its mutex.                                *)

ReaderCheck(t) ==
    /\ env[pidOf[t]] = "open"
    /\ pc[t] = "idle"
    /\ checks < MaxChecks
    /\ StartCheck(t)
    /\ checks' = checks + 1
    /\ UNCHANGED <<region, mutexes, fcntl, meta, envs, slot, setBack, opens, begun>>

CheckFails(t) ==
    /\ pc[t] = "check"
    /\ local[t].at = 1
    /\ CheckEnds(t)
    /\ UNCHANGED <<region, rmutex, robust, fcntl, meta, envs, slot, setBack, bounds>>

(* One slot: a pid not seen before and without its lock is dead.           *)
CheckSlot(t) ==
    LET q == reader[local[t].at].pid
    IN  /\ pc[t] = "check"
        /\ local[t].at <= local[t].num
        /\ IF Gone(q, pidOf[t]) /\ q \notin local[t].pids
           THEN /\ local' = [local EXCEPT ![t].pids = @ \cup {q}, ![t].pid = q]
                /\ Goto(t, "dead")
           ELSE /\ local' = [local EXCEPT ![t].pids = @ \cup ({q} \ {NoPid, pidOf[t]}), ![t].at = @ + 1]
                /\ UNCHANGED pc
        /\ UNCHANGED <<region, mutexes, fcntl, meta, envs, slot, setBack, bounds>>

(* Repairing the reader mutex has checked the whole table.                 *)
LockCheck(t) ==
    /\ pc[t] = "dead"
    /\ LockReaders(t, "clear")
    /\ local' = [local EXCEPT ![t].num = IF rmutex = Dead THEN 0 ELSE @]
    /\ UNCHANGED <<numreaders, mti_txnid, magic, wmutex, robust, fcntl, meta, envs, slot, setBack, bounds>>

LockCheckFails(t) ==
    /\ pc[t] = "dead"
    /\ LockReadersFails
    /\ CheckEnds(t)
    /\ UNCHANGED <<region, robust, fcntl, meta, envs, slot, setBack, bounds>>

(* Mutant: the pid is not looked for again under the mutex.                *)
ClearSlots_NoRecheck(t) ==
    LET q == local[t].pid
    IN  /\ pc[t] = "clear"
        /\ reader' = [s \in Slot |-> IF s \in local[t].at .. local[t].num /\ reader[s].pid = q
                                     THEN [reader[s] EXCEPT !.pid = NoPid] ELSE reader[s]]
        /\ rmutex' = Free
        /\ local' = [local EXCEPT ![t].at = @ + 1, ![t].pid = NoPid]
        /\ Goto(t, "check")
        /\ UNCHANGED <<numreaders, mti_txnid, magic, wmutex, robust, fcntl, meta, envs, slot, setBack, bounds>>

(* Mutant: only the slot that was looked at is cleared.                    *)
ClearSlots_One(t) ==
    LET q == local[t].pid
    IN  /\ pc[t] = "clear"
        /\ reader' = [reader EXCEPT ![local[t].at].pid = IF @ = q /\ q \notin pidlock THEN NoPid ELSE @]
        /\ rmutex' = Free
        /\ local' = [local EXCEPT ![t].at = @ + 1, ![t].pid = NoPid]
        /\ Goto(t, "check")
        /\ UNCHANGED <<numreaders, mti_txnid, magic, wmutex, robust, fcntl, meta, envs, slot, setBack, bounds>>

(* A new process may have reused the pid by now.                           *)
ClearSlots(t) ==
    LET q == local[t].pid
    IN  /\ pc[t] = "clear"
        /\ reader' = [s \in Slot |-> IF s \in local[t].at .. local[t].num /\ reader[s].pid = q /\ q \notin pidlock
                                     THEN [reader[s] EXCEPT !.pid = NoPid] ELSE reader[s]]
        /\ rmutex' = Free
        /\ local' = [local EXCEPT ![t].at = @ + 1, ![t].pid = NoPid]
        /\ Goto(t, "check")
        /\ UNCHANGED <<numreaders, mti_txnid, magic, wmutex, robust, fcntl, meta, envs, slot, setBack, bounds>>

(* The application's call returns; the writer's mutex is consistent.       *)
Checked(t) == pc[t] = "check" /\ local[t].at > local[t].num

CheckReturns(t) ==
    /\ Checked(t)
    /\ local' = [local EXCEPT ![t] = NoLocal]
    /\ Goto(t, IF wmutex = t THEN "begin" ELSE "idle")
    /\ UNCHANGED <<region, mutexes, fcntl, meta, envs, slot, setBack, bounds>>

-----------------------------------------------------------------------------
(* A write transaction.                                                    *)

LockWriter(t) ==
    /\ env[pidOf[t]] = "open"
    /\ pc[t] = "idle"
    /\ begun < MaxTxns
    /\ wmutex = Free
    /\ wmutex' = t
    /\ begun' = begun + 1
    /\ Goto(t, "begin")
    /\ UNCHANGED <<region, rmutex, robust, fcntl, meta, envs, slot, local, setBack, opens, checks>>

(* Mutant: mti_txnid stays where the dead writer left it.                  *)
RepairWriter_Forgets(t) ==
    /\ env[pidOf[t]] = "open"
    /\ pc[t] = "idle"
    /\ begun < MaxTxns
    /\ wmutex = Dead
    /\ wmutex' = t
    /\ begun' = begun + 1
    /\ StartCheck(t)
    /\ UNCHANGED <<region, rmutex, robust, fcntl, meta, envs, slot, setBack, opens, checks>>

(* mdb_mutex_failed: the writer before may have died with its meta page    *)
(* written.                                                                *)
RepairWriter(t) ==
    /\ env[pidOf[t]] = "open"
    /\ pc[t] = "idle"
    /\ begun < MaxTxns
    /\ wmutex = Dead
    /\ wmutex' = t
    /\ begun' = begun + 1
    /\ mti_txnid' = meta
    /\ StartCheck(t)
    /\ UNCHANGED <<reader, numreaders, magic, rmutex, robust, fcntl, meta, envs, slot, setBack, opens, checks>>

BeginWrite(t) ==
    /\ pc[t] = "begin"
    /\ local' = [local EXCEPT ![t].snap = mti_txnid + 1]
    /\ Goto(t, "write")
    /\ UNCHANGED <<region, mutexes, fcntl, meta, envs, slot, setBack, bounds>>

(* mdb_find_oldest, from the last slot to the first: the pid, and then the *)
(* txnid.                                                                  *)
FindOldest(t) ==
    /\ pc[t] = "write"
    /\ local' = [local EXCEPT ![t].at = numreaders, ![t].oldest = local[t].snap - 1]
    /\ Goto(t, "scan")
    /\ UNCHANGED <<region, mutexes, fcntl, meta, envs, slot, setBack, bounds>>

ScanPid(t) ==
    /\ pc[t] = "scan"
    /\ local[t].at > 0
    /\ IF reader[local[t].at].pid # NoPid
       THEN Goto(t, "compare") /\ UNCHANGED local
       ELSE local' = [local EXCEPT ![t].at = @ - 1] /\ UNCHANGED pc
    /\ UNCHANGED <<region, mutexes, fcntl, meta, envs, slot, setBack, bounds>>

ScanTxnid(t) ==
    /\ pc[t] = "compare"
    /\ local' = [local EXCEPT ![t].at = @ - 1,
                              ![t].oldest = Min({@, reader[local[t].at].txnid})]
    /\ Goto(t, "scan")
    /\ UNCHANGED <<region, mutexes, fcntl, meta, envs, slot, setBack, bounds>>

Writing(t) == pc[t] = "write" \/ (pc[t] = "scan" /\ local[t].at = 0)

WriteMeta(t) ==
    /\ Writing(t)
    /\ meta' = local[t].snap
    /\ Goto(t, "publish")
    /\ UNCHANGED <<region, mutexes, fcntl, envs, slot, local, setBack, bounds>>

EndWrite(t) ==
    /\ wmutex' = Free
    /\ local' = [local EXCEPT ![t] = NoLocal]
    /\ Goto(t, "idle")

Publish(t) ==
    /\ pc[t] = "publish"
    /\ mti_txnid' = local[t].snap
    /\ EndWrite(t)
    /\ UNCHANGED <<reader, numreaders, magic, rmutex, robust, fcntl, meta, envs, slot, setBack, bounds>>

Abort(t) ==
    /\ Writing(t)
    /\ EndWrite(t)
    /\ UNCHANGED <<region, rmutex, robust, fcntl, meta, envs, slot, setBack, bounds>>

-----------------------------------------------------------------------------
EnvNext(p) ==
    \/ Open(p) \/ WaitShared(p) \/ EraseMutexes(p) \/ InitMutexes(p) \/ InitRegion(p)
    \/ Attach(p) \/ ReadHeader(p) \/ SetTxnid(p) \/ ShareLock(p) \/ OpenFails(p)
    \/ Close(p) \/ CloseSlot(p) \/ CloseLocks(p) \/ Die(p)

ReaderNext(t) ==
    \/ BeginRead(t) \/ LockClaim(t) \/ LockClaimFails(t) \/ ResetSlot(t) \/ ReadersFull(t)
    \/ OwnSlot(t) \/ LoadTxnid(t) \/ StoreTxnid(t) \/ VerifyTxnid(t) \/ EndRead(t) \/ GiveSlot(t)

CheckNext(t) ==
    \/ ReaderCheck(t) \/ CheckFails(t) \/ CheckSlot(t) \/ LockCheck(t) \/ LockCheckFails(t)
    \/ ClearSlots(t) \/ CheckReturns(t)

WriterNext(t) ==
    \/ LockWriter(t) \/ RepairWriter(t) \/ BeginWrite(t) \/ FindOldest(t) \/ ScanPid(t)
    \/ ScanTxnid(t) \/ WriteMeta(t) \/ Publish(t) \/ Abort(t)

Next ==
    \/ \E p \in Proc : EnvNext(p)
    \/ \E t \in Thread : ReaderNext(t) \/ CheckNext(t) \/ WriterNext(t)

Spec == Init /\ [][Next]_vars

-----------------------------------------------------------------------------
(* The types of the state.                                                 *)
Locals == [snap : 0 .. MaxTxns + 1, at : 0 .. MaxReaders + 1, num : 0 .. MaxReaders,
           oldest : 0 .. MaxTxns, pids : SUBSET Proc, pid : Proc \cup {NoPid}, left : SUBSET Proc]

TypeOK ==
    /\ reader \in [Slot -> [pid : Proc \cup {NoPid}, txnid : 0 .. NoTxnid]]
    /\ numreaders \in 0 .. MaxReaders
    /\ {mti_txnid, meta} \subseteq 0 .. MaxTxns
    /\ {magic, robust, setBack} \subseteq BOOLEAN
    /\ {rmutex, wmutex} \subseteq Thread \cup {Free, Dead, Lost, Stuck}
    /\ flock \in [Proc -> {"none", "shared", "excl"}]
    /\ pidlock \subseteq Proc
    /\ env \in [Proc -> {"closed", "wait", "erase", "mutexes", "region", "attach", "header", "txnid",
                         "share", "open", "closing"}]
    /\ closeReaders \in [Proc -> 0 .. MaxReaders]
    /\ header \in [Proc -> 0 .. MaxTxns]
    /\ slot \in [Thread -> Slot \cup {NoSlot}]
    /\ local \in [Thread -> Locals]

(* mdb_txn_renew0: a slot is one thread's, published, with its process's   *)
(* pid and pid lock, until the thread gives it back: no check, close or    *)
(* claim of another takes it away.  Out of a transaction its txnid is -1,  *)
(* so the thread never gets MDB_BAD_RSLOT.                                 *)
SlotsHeld ==
    /\ TypeOK
    /\ \A t \in Thread :
          /\ pc[t] # "badslot"
          /\ slot[t] # NoSlot => /\ slot[t] <= numreaders
                                 /\ reader[slot[t]].pid = pidOf[t]
                                 /\ pidOf[t] \in pidlock
                                 /\ pc[t] \in {"load", "store", "verify", "reading"}
                                        \/ reader[slot[t]].txnid = NoTxnid
    /\ \A t, u \in Thread : slot[t] = slot[u] /\ t # u => slot[t] = NoSlot

(* mdb_env_setup_locks: a thread that has locked a mutex holds it until it *)
(* unlocks it: no process initialises the mutexes of a region in use.      *)
MutexesHeld ==
    \A t \in Thread :
        /\ pc[t] \in {"reset", "own", "clear"} => rmutex = t
        /\ pc[t] \in {"begin", "write", "scan", "compare", "publish"} => wmutex = t

(* mdb_find_oldest reads the table without a mutex, while readers come and *)
(* go: what it finds is no later than the txnid of any reader in a         *)
(* transaction, then or as long as the writer uses it.  (An open that sets *)
(* mti_txnid back is a finding of its own.)                                *)
OldestIsSafe ==
    \A w, r \in Thread :
        /\ ~setBack
        /\ pc[w] = "publish" \/ (pc[w] = "scan" /\ local[w].at = 0)
        /\ pc[r] = "reading"
        => local[w].oldest <= local[r].snap

(* mdb_reader_check: when it returns, the slots of the processes that were *)
(* dead when it was called are cleared, but for those of a pid that has    *)
(* been reused since.                                                      *)
CheckClears ==
    \A t \in Thread, s \in 1 .. numreaders : Checked(t) => reader[s].pid \notin local[t].left

(* mdb_mutex_failed: whoever wrote before, and wherever he was killed, a   *)
(* write transaction follows the last one in the data file.                *)
WriterFollows ==
    \A t \in Thread : Writing(t) /\ ~setBack => local[t].snap = meta + 1
=============================================================================

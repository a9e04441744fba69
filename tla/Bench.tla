------------------------------- MODULE Bench -------------------------------
(***************************************************************************)
(* util/test.cpp full_test(), util/Worker.cpp and util/RandomEngine.cpp:   *)
(* the main thread opens a database, preloads keys 0 .. opts.keys-1, spawns*)
(* the workers, lets them run for a while, stops them, joins them, adds up *)
(* their counts, applies the batch and removes the database.  A worker     *)
(* draws a key in 0 .. opts.keys and a number in 0 .. 100, and reads if the*)
(* number is below opts.readWeight, else writes, until it sees its stop    *)
(* flag.                                                                   *)
(*                                                                         *)
(* The database is the interface of ledger/state_db.h: each key is read or *)
(* written at one moment between the call and its return.  A call may fail,*)
(* which no caller looks at, or throw, as those of Redis do, which no      *)
(* caller catches.  Redis keeps its store in a server, the other engines in*)
(* the directory.  How long the workers run is left to chance.  A value is *)
(* the one that belongs to its key (long_string and the key), one an       *)
(* earlier run left behind, or none.                                       *)
(***************************************************************************)
EXTENDS Integers, FiniteSets, FiniteSetsExt

CONSTANTS
    Threads,       \* opts.threads
    Keys,          \* opts.keys
    ReadWeight,    \* opts.readWeight
    MaxOps         \* bound: operations of one worker

ASSUME OptionsAssumption ==
    /\ Threads \in Nat
    /\ Keys \in Nat
    /\ ReadWeight \in 0 .. 100
    /\ MaxOps \in Nat

Worker  == 1 .. Threads
Key     == 0 .. Keys
Content == {"own", "old", "none"}

MainPc == {"open", "wait", "preload", "spawn", "sleep", "measure", "stop", "join",
           "collect", "apply", "clear", "delete", "done", "exited"}
WorkerPc == {"unborn", "check", "get", "put", "finished"}

VARIABLES
    main,        \* where full_test is
    i,           \* the index of the loop it is in
    db,          \* the database object
    store,       \* its content
    dir,         \* the directory of the database exists
    pc,          \* where each worker is
    key,         \* the key each worker is at
    readResult,  \* its string for the values it reads
    shouldStop,  \* its stop flag
    readCount, writeCount,
    object,      \* its Worker object
    total,       \* what full_test adds up
    served,      \* the gets and puts of workers the database has served
    redis,       \* is opts.dbType REDIS?  Set at the start, for good
    errors       \* may a call on the database fail?  Likewise

workers == <<pc, key, readResult, readCount, writeCount>>
mode == <<redis, errors>>
vars == <<main, i, db, store, dir, workers, shouldStop, object, total, served, mode>>

Counts == [reads : Nat, writes : Nat]

TypeOK ==
    /\ main \in MainPc
    /\ i \in 0 .. IF main = "preload" THEN Keys ELSE Threads
    /\ db \in {"none", "closed", "open", "deleted"}
    /\ store \in [Key -> Content]
    /\ dir \in BOOLEAN
    /\ pc \in [Worker -> WorkerPc]
    /\ key \in [Worker -> Key]
    /\ readResult \in [Worker -> [key : Key, val : Content]]
    /\ shouldStop \in [Worker -> BOOLEAN]
    /\ readCount \in [Worker -> Nat]
    /\ writeCount \in [Worker -> Nat]
    /\ object \in [Worker -> {"none", "alive", "deleted"}]
    /\ total \in Counts
    /\ served \in Counts
    /\ redis \in BOOLEAN
    /\ errors \in BOOLEAN

(* A directory left behind by a run that was killed holds old values, and  *)
(* so may the Redis server.                                                *)
Init ==
    /\ main = "open"
    /\ i = 0
    /\ db = "none"
    /\ dir \in BOOLEAN
    /\ store \in [Key -> {"old", "none"}]
    /\ redis \in BOOLEAN
    /\ ~redis /\ ~dir => store = [k \in Key |-> "none"]
    /\ pc = [w \in Worker |-> "unborn"]
    /\ key = [w \in Worker |-> 0]
    /\ readResult = [w \in Worker |-> [key |-> 0, val |-> "none"]]
    /\ shouldStop = [w \in Worker |-> FALSE]
    /\ readCount = [w \in Worker |-> 0]
    /\ writeCount = [w \in Worker |-> 0]
    /\ object = [w \in Worker |-> "none"]
    /\ total = [reads |-> 0, writes |-> 0]
    /\ served = [reads |-> 0, writes |-> 0]
    /\ errors \in BOOLEAN

Goto(l) == main' = l /\ i' = 0

(* A call that fails returns false, or it throws.                          *)
ReturnsFalse == errors /\ ~redis

InDb(w) == pc[w] \in {"get", "put"}

-----------------------------------------------------------------------------
(* The main thread.                                                        *)

(* createSingle() makes the directory and the object, open() opens it.     *)
Open ==
    /\ main = "open"
    /\ dir' = TRUE
    /\ \/ Goto("wait") /\ db' = "open"
       \/ ReturnsFalse /\ Goto("exited") /\ db' = "closed"
    /\ UNCHANGED <<store, workers, shouldStop, object, total, served, mode>>

(* while (!db->opened()) sleep.                                            *)
Wait ==
    /\ main = "wait"
    /\ db = "open"
    /\ Goto("preload")
    /\ UNCHANGED <<db, store, dir, workers, shouldStop, object, total, served, mode>>

(* Mutant: the loop starts at the second key.                              *)
Preload_SkipsFirst ==
    /\ main = "preload"
    /\ i < Keys
    /\ \/ store' = [store EXCEPT ![i] = IF i = 0 THEN @ ELSE "own"]
       \/ ReturnsFalse /\ UNCHANGED store
    /\ i' = i + 1
    /\ UNCHANGED <<main, db, dir, workers, shouldStop, object, total, served, mode>>

Preload ==
    /\ main = "preload"
    /\ i < Keys
    /\ \/ store' = [store EXCEPT ![i] = "own"]
       \/ ReturnsFalse /\ UNCHANGED store
    /\ i' = i + 1
    /\ UNCHANGED <<main, db, dir, workers, shouldStop, object, total, served, mode>>

Preloaded ==
    /\ main = "preload"
    /\ i = Keys
    /\ Goto("spawn")
    /\ UNCHANGED <<db, store, dir, workers, shouldStop, object, total, served, mode>>

(* new Worker, and its thread: it runs from here on.                       *)
Spawn ==
    /\ main = "spawn"
    /\ i < Threads
    /\ object' = [object EXCEPT ![i + 1] = "alive"]
    /\ pc' = [pc EXCEPT ![i + 1] = "check"]
    /\ i' = i + 1
    /\ UNCHANGED <<main, db, store, dir, key, readResult, readCount, writeCount, shouldStop,
                   total, served, mode>>

Spawned ==
    /\ main = "spawn"
    /\ i = Threads
    /\ Goto("sleep")
    /\ UNCHANGED <<db, store, dir, workers, shouldStop, object, total, served, mode>>

(* One second of sleep, then the clock starts and runs out.                *)
Elapse ==
    /\ main \in {"sleep", "measure"}
    /\ Goto(IF main = "sleep" THEN "measure" ELSE "stop")
    /\ UNCHANGED <<db, store, dir, workers, shouldStop, object, total, served, mode>>

(* Mutant: the last worker is not told to stop.                            *)
Stop_AllButLast ==
    /\ main = "stop"
    /\ IF i + 1 < Threads
       THEN /\ shouldStop' = [shouldStop EXCEPT ![i + 1] = TRUE]
            /\ i' = i + 1
            /\ UNCHANGED main
       ELSE Goto("join") /\ UNCHANGED shouldStop
    /\ UNCHANGED <<db, store, dir, workers, object, total, served, mode>>

Stop ==
    /\ main = "stop"
    /\ IF i < Threads
       THEN /\ shouldStop' = [shouldStop EXCEPT ![i + 1] = TRUE]
            /\ i' = i + 1
            /\ UNCHANGED main
       ELSE Goto("join") /\ UNCHANGED shouldStop
    /\ UNCHANGED <<db, store, dir, workers, object, total, served, mode>>

(* Mutant: the main thread does not wait for the workers to finish.        *)
Join_Detached ==
    /\ main = "join"
    /\ IF i < Threads THEN i' = i + 1 /\ UNCHANGED main ELSE Goto("collect")
    /\ UNCHANGED <<db, store, dir, workers, shouldStop, object, total, served, mode>>

Join ==
    /\ main = "join"
    /\ IF i < Threads
       THEN pc[i + 1] = "finished" /\ i' = i + 1 /\ UNCHANGED main
       ELSE Goto("collect")
    /\ UNCHANGED <<db, store, dir, workers, shouldStop, object, total, served, mode>>

Collect ==
    /\ main = "collect"
    /\ IF i < Threads
       THEN /\ total' = [reads |-> total.reads + readCount[i + 1],
                         writes |-> total.writes + writeCount[i + 1]]
            /\ object' = [object EXCEPT ![i + 1] = "deleted"]
            /\ i' = i + 1
            /\ UNCHANGED main
       ELSE Goto("apply") /\ UNCHANGED <<total, object>>
    /\ UNCHANGED <<db, store, dir, workers, shouldStop, served, mode>>

(* applyBatch(), treeSize() and the report: nothing was batched.           *)
ApplyAndReport ==
    /\ main = "apply"
    /\ Goto("clear")
    /\ UNCHANGED <<db, store, dir, workers, shouldStop, object, total, served, mode>>

(* StateDB::clear() removes the directory and what the engine keeps in it. *)
RemoveDirectory ==
    /\ ~redis
    /\ dir' = FALSE

(* RedisDB::clear() overrides it: the server's keys go, the directory that *)
(* createSingle() made stays.                                              *)
FlushAll ==
    /\ redis
    /\ UNCHANGED dir

Clear ==
    /\ main = "clear"
    /\ RemoveDirectory \/ FlushAll
    /\ store' = [k \in Key |-> "none"]
    /\ Goto("delete")
    /\ UNCHANGED <<db, workers, shouldStop, object, total, served, mode>>

Delete ==
    /\ main = "delete"
    /\ db' = "deleted"
    /\ Goto("done")
    /\ UNCHANGED <<store, dir, workers, shouldStop, object, total, served, mode>>

-----------------------------------------------------------------------------
(* A worker.                                                               *)

RandKeys == 0 .. Keys
Rand100  == 0 .. 100

(* The loop test; a bound stands for the end of the run.                   *)
Finish(w) ==
    /\ pc[w] = "check"
    /\ shouldStop[w]
    /\ pc' = [pc EXCEPT ![w] = "finished"]
    /\ UNCHANGED <<main, i, db, store, dir, key, readResult, readCount, writeCount, shouldStop,
                   object, total, served, mode>>

(* Mutant: the counts are updated by two workers as one shared counter.    *)
Draw_SharedCount(w) ==
    /\ pc[w] = "check"
    /\ ~shouldStop[w]
    /\ readCount[w] + writeCount[w] < MaxOps
    /\ \E k \in RandKeys, read \in {n < ReadWeight : n \in Rand100} :
          /\ key' = [key EXCEPT ![w] = k]
          /\ pc' = [pc EXCEPT ![w] = IF read THEN "get" ELSE "put"]
          /\ readCount' = IF read THEN [v \in Worker |-> readCount[w] + 1] ELSE readCount
          /\ writeCount' = IF read THEN writeCount ELSE [v \in Worker |-> writeCount[w] + 1]
    /\ UNCHANGED <<main, i, db, store, dir, readResult, shouldStop, object, total, served, mode>>

Draw(w) ==
    /\ pc[w] = "check"
    /\ ~shouldStop[w]
    /\ readCount[w] + writeCount[w] < MaxOps
    /\ \E k \in RandKeys, read \in {n < ReadWeight : n \in Rand100} :
          /\ key' = [key EXCEPT ![w] = k]
          /\ pc' = [pc EXCEPT ![w] = IF read THEN "get" ELSE "put"]
          /\ readCount' = IF read THEN [readCount EXCEPT ![w] = @ + 1] ELSE readCount
          /\ writeCount' = IF read THEN writeCount ELSE [writeCount EXCEPT ![w] = @ + 1]
    /\ UNCHANGED <<main, i, db, store, dir, readResult, shouldStop, object, total, served, mode>>

Back(w) == pc' = [pc EXCEPT ![w] = "check"]

(* db->get(...): on failure readResult stays as it was.                    *)
Get(w) ==
    LET found == store[key[w]]
    IN  /\ pc[w] = "get"
        /\ \/ /\ found # "none"
              /\ readResult' = [readResult EXCEPT ![w] = [key |-> key[w], val |-> found]]
           \/ /\ found = "none" \/ ReturnsFalse
              /\ UNCHANGED readResult
        /\ served' = [served EXCEPT !.reads = @ + 1]
        /\ Back(w)
        /\ UNCHANGED <<main, i, db, store, dir, key, readCount, writeCount, shouldStop, object, total, mode>>

Put(w) ==
    /\ pc[w] = "put"
    /\ \/ store' = [store EXCEPT ![key[w]] = "own"]
       \/ ReturnsFalse /\ UNCHANGED store
    /\ served' = [served EXCEPT !.writes = @ + 1]
    /\ Back(w)
    /\ UNCHANGED <<main, i, db, dir, key, readResult, readCount, writeCount, shouldStop, object, total, mode>>

(* Nothing catches what a command of Redis throws.  An LMDB adapter left    *)
(* without a transaction by an error goes on to use it, and two calls at   *)
(* once may tear what the threads share in the adapters without a lock.    *)
(* Each ends the process, with every thread where it is.                   *)
MainCalls ==
    \/ main = "preload" /\ i < Keys
    \/ main \in IF redis THEN {"clear"} ELSE {"apply", "delete"}

Dies ==
    /\ main # "exited"
    /\ \/ errors /\ (MainCalls \/ \E w \in Worker : InDb(w))
       \/ ~redis /\ \E w, u \in Worker : w # u /\ InDb(w) /\ InDb(u)
    /\ Goto("exited")
    /\ UNCHANGED <<db, store, dir, workers, shouldStop, object, total, served, mode>>

MainNext ==
    \/ Open \/ Wait \/ Preload \/ Preloaded \/ Spawn \/ Spawned \/ Elapse
    \/ Stop \/ Join \/ Collect \/ ApplyAndReport \/ Clear \/ Delete

WorkerNext(w) ==
    /\ main # "exited"
    /\ Finish(w) \/ Draw(w) \/ Get(w) \/ Put(w)

Next ==
    \/ MainNext
    \/ \E w \in Worker : WorkerNext(w)
    \/ Dies

Spec == Init /\ [][Next]_vars

(* Every thread is scheduled, and a call on the database returns or ends   *)
(* the process.                                                            *)
FairSpec == Spec /\ WF_vars(MainNext) /\ \A w \in Worker : WF_vars(WorkerNext(w))

-----------------------------------------------------------------------------
(* The report counts every operation the database has served, once, and    *)
(* none it has not.                                                        *)
ReportIsExact == main \in {"apply", "clear", "delete", "done"} => total = served

(* The database is open, its directory in place, and the Worker object     *)
(* alive, as long as a worker is running: nothing is freed under a thread; *)
(* and the main thread calls the database only while no worker does.       *)
NothingFreedInUse ==
    /\ TypeOK
    /\ \A w \in Worker :
          pc[w] \notin {"unborn", "finished"} => object[w] = "alive" /\ db = "open" /\ dir
    /\ main \in {"open", "wait", "preload", "apply", "clear", "delete"} =>
          \A w \in Worker : ~InDb(w)

(* When no call fails, a preloaded key is read as the value that belongs   *)
(* to it, whatever an earlier run left in the directory.                   *)
PreloadedReadsMatch ==
    ~errors => \A w \in Worker :
        readResult[w].val # "none" /\ readResult[w].key < Keys => readResult[w].val = "own"

(* The benchmark ends, with no worker left: with its directory removed or,  *)
(* on Redis, in place and nothing in the server; or the process has ended  *)
(* before, which on Redis takes an error.                                  *)
Terminates ==
    <>(\/ main = "exited" /\ (redis => errors)
       \/ /\ main = "done"
          /\ dir = redis
          /\ store = [k \in Key |-> "none"]
          /\ \A w \in Worker : object[w] = "deleted")
=============================================================================

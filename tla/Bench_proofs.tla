---------------------------- MODULE Bench_proofs ----------------------------
(***************************************************************************)
(* Proofs about Bench, for any number of threads, keys and operations.     *)
(***************************************************************************)
EXTENDS Bench, TLAPS

Before  == {"open", "wait", "preload"}
Running == {"sleep", "measure", "stop", "join"}
After   == {"apply", "clear", "delete", "done"}

-----------------------------------------------------------------------------
(* Type correctness.                                                       *)

(* A step of the main thread keeps every variable in its type.             *)
LEMMA MainTyped ==
    ASSUME TypeOK, MainNext
    PROVE  TypeOK'
<1> USE OptionsAssumption DEF TypeOK, MainPc, Goto
<1>0. Threads \in Nat /\ Keys \in Nat /\ 0 \in 0 .. Threads /\ 0 \in 0 .. Keys
  OBVIOUS
<1>1. CASE Open \/ Wait \/ Preloaded \/ Spawned \/ Elapse \/ ApplyAndReport \/ Delete
  BY ZenonT(60), <1>0, <1>1 DEF Open, Wait, Preloaded, Spawned, Elapse, ApplyAndReport, Delete, workers, mode
<1>2. CASE Preload
  <2>1. i \in Key /\ i + 1 \in 0 .. Keys
    BY <1>2 DEF Preload, Key
  <2> QED
    BY <1>2, <2>1 DEF Preload, workers, mode, Content
<1>3. CASE Spawn
  <2>1. i + 1 \in Worker /\ i + 1 \in 0 .. Threads
    BY <1>3 DEF Spawn, Worker
  <2> QED
    BY <1>3, <2>1 DEF Spawn, WorkerPc, mode
<1>4. CASE Stop \/ Join
  <2>1. i < Threads => i + 1 \in 0 .. Threads
    BY <1>4 DEF Stop, Join
  <2> QED
    BY ZenonT(60), <1>0, <1>4, <2>1 DEF Stop, Join, workers, mode
<1>5. CASE Collect
  <2>1. i < Threads => i + 1 \in Worker /\ i + 1 \in 0 .. Threads
    BY <1>5 DEF Collect, Worker
  <2>2. total' \in Counts
    BY <1>5, <2>1 DEF Collect, Counts
  <2>3. object' \in [Worker -> {"none", "alive", "deleted"}]
    BY <1>5, <2>1 DEF Collect
  <2>4. main' \in MainPc /\ i' \in 0 .. IF main' = "preload" THEN Keys ELSE Threads
    BY <1>0, <1>5, <2>1 DEF Collect
  <2> QED
    BY <1>5, <2>2, <2>3, <2>4 DEF Collect, workers, mode
<1>6. CASE Clear
  BY <1>0, <1>6 DEF Clear, RemoveDirectory, FlushAll, workers, mode, Content
<1> QED
  BY <1>1, <1>2, <1>3, <1>4, <1>5, <1>6 DEF MainNext

(* A step of a worker keeps every variable in its type.                    *)
LEMMA WorkerTyped ==
    ASSUME TypeOK, NEW w \in Worker, WorkerNext(w)
    PROVE  TypeOK'
<1>1. CASE Finish(w)
  BY <1>1 DEF Finish, TypeOK, WorkerPc, mode
<1>2. CASE Draw(w)
  <2>1. PICK k \in RandKeys, read \in {n < ReadWeight : n \in Rand100} :
          /\ key' = [key EXCEPT ![w] = k]
          /\ pc' = [pc EXCEPT ![w] = IF read THEN "get" ELSE "put"]
          /\ readCount' = IF read THEN [readCount EXCEPT ![w] = @ + 1] ELSE readCount
          /\ writeCount' = IF read THEN writeCount ELSE [writeCount EXCEPT ![w] = @ + 1]
    BY <1>2 DEF Draw
  <2>2. readCount' \in [Worker -> Nat] /\ writeCount' \in [Worker -> Nat]
    BY <2>1 DEF TypeOK
  <2>3. key' \in [Worker -> Key] /\ pc' \in [Worker -> WorkerPc]
    BY <2>1 DEF TypeOK, RandKeys, Key, WorkerPc
  <2> QED
    BY <1>2, <2>2, <2>3 DEF Draw, TypeOK, mode
<1>3. CASE Get(w)
  <2>1. key[w] \in Key /\ store[key[w]] \in Content
    BY DEF TypeOK
  <2>2. readResult' \in [Worker -> [key : Key, val : Content]]
    BY <1>3, <2>1 DEF Get, TypeOK
  <2>3. served' \in Counts /\ pc' \in [Worker -> WorkerPc]
    BY SMTT(40), <1>3 DEF Get, Back, TypeOK, Counts, WorkerPc
  <2> QED
    BY <1>3, <2>2, <2>3 DEF Get, TypeOK, mode
<1>4. CASE Put(w)
  <2>1. served' \in Counts /\ pc' \in [Worker -> WorkerPc]
    BY SMTT(40), <1>4 DEF Put, Back, TypeOK, Counts, WorkerPc
  <2>2. store' \in [Key -> Content]
    BY <1>4 DEF Put, TypeOK, Content
  <2> QED
    BY <1>4, <2>1, <2>2 DEF Put, TypeOK, mode
<1> QED
  BY <1>1, <1>2, <1>3, <1>4 DEF WorkerNext

(* Every variable of the benchmark keeps its type: no loop index runs past *)
(* its array, no worker draws a key outside 0 .. opts.keys.                *)
THEOREM TypeCorrect == Spec => []TypeOK
<1>1. Init => TypeOK
  BY OptionsAssumption DEF Init, TypeOK, MainPc, WorkerPc, Key, Content, Counts
<1>2. TypeOK /\ [Next]_vars => TypeOK'
  <2>1. TypeOK /\ UNCHANGED vars => TypeOK'
    BY DEF TypeOK, vars, workers, mode
  <2>2. TypeOK /\ Dies => TypeOK'
    BY OptionsAssumption DEF Dies, Goto, TypeOK, MainPc, workers, mode
  <2> QED
    BY <2>1, <2>2, MainTyped, WorkerTyped DEF Next
<1> QED
  BY <1>1, <1>2, PTL DEF Spec

-----------------------------------------------------------------------------
(* How far the workers are, as the main thread goes through its loops: a   *)
(* worker it has not spawned yet is unborn, and one it has joined finished.*)
Progress ==
    /\ main \in Before => \A w \in Worker : pc[w] = "unborn"
    /\ main = "spawn" =>
          \A w \in Worker : IF w <= i THEN object[w] = "alive" ELSE pc[w] = "unborn"
    /\ main \in Running => \A w \in Worker : object[w] = "alive"
    /\ main = "join" => \A w \in Worker : w <= i => pc[w] = "finished"
    /\ main \in After \cup {"collect"} => \A w \in Worker : pc[w] = "finished"
    /\ main \in Running \cup {"wait", "preload", "spawn"} => db = "open" /\ dir
    /\ main = "exited" => \A w \in Worker : pc[w] \notin {"unborn", "finished"} =>
          object[w] = "alive" /\ db = "open" /\ dir

Inv == TypeOK /\ Progress

(* A worker that takes a step has been spawned and is not joined yet.      *)
LEMMA StepsWhileRunning ==
    ASSUME Inv, NEW w \in Worker, pc[w] \notin {"unborn", "finished"}, main # "exited"
    PROVE  main \in Running \cup {"spawn"}
BY DEF Inv, Progress, TypeOK, MainPc, Before, Running, After

(* What a step of a worker leaves to the main thread, and to the others.   *)
LEMMA WorkerFrame ==
    ASSUME TypeOK, NEW w \in Worker, WorkerNext(w)
    PROVE  /\ UNCHANGED <<main, i, db, dir, shouldStop, object, total, mode>>
           /\ main # "exited"
           /\ pc[w] \notin {"unborn", "finished"} /\ pc'[w] # "unborn"
           /\ \A u \in Worker \ {w} : pc'[u] = pc[u]
<1>0. main # "exited"
  BY DEF WorkerNext
<1>1. CASE Finish(w)
  BY <1>0, <1>1 DEF Finish, TypeOK
<1>2. CASE Draw(w)
  BY <1>0, <1>2 DEF Draw, TypeOK
<1>3. CASE Get(w)
  BY <1>0, <1>3 DEF Get, Back, TypeOK
<1>4. CASE Put(w)
  BY <1>0, <1>4 DEF Put, Back, TypeOK
<1> QED
  BY <1>1, <1>2, <1>3, <1>4 DEF WorkerNext

(* A worker runs from the moment it is spawned until the main thread has   *)
(* joined it, and the loops of full_test take the workers in turn.         *)
LEMMA ProgressStep == Inv /\ [Next]_vars => Progress'
<1> SUFFICES ASSUME Inv, [Next]_vars PROVE Progress'
  OBVIOUS
<1> USE OptionsAssumption DEF Inv, Goto, Before, Running, After
<1>1. CASE Open \/ Wait \/ Preload \/ Preloaded
  BY SMTT(40), <1>1 DEF Open, Wait, Preload, Preloaded, Progress, workers, Worker, TypeOK
<1>2. CASE Spawn
  <2>1. i + 1 \in Worker /\ i \in Nat
    BY <1>2 DEF Spawn, Worker, TypeOK
  <2>2. \A w \in Worker : w <= i + 1 <=> w <= i \/ w = i + 1
    BY <2>1 DEF Worker
  <2>3. main = "spawn" /\ main' = main /\ i' = i + 1
    BY <1>2 DEF Spawn
  <2>4. \A w \in Worker : IF w <= i' THEN object'[w] = "alive" ELSE pc'[w] = "unborn"
    BY <1>2, <2>1, <2>2 DEF Spawn, Progress, TypeOK
  <2> QED
    BY <1>2, <2>3, <2>4 DEF Spawn, Progress
<1>3. CASE Spawned
  BY <1>3 DEF Spawned, Progress, workers, Worker
<1>4. CASE Elapse
  BY <1>4 DEF Elapse, Progress, workers
<1>5. CASE Stop
  BY SMTT(40), <1>5 DEF Stop, Progress, workers, Worker, TypeOK
<1>6. CASE Join
  <2>1. CASE i < Threads
    <3>1. i + 1 \in Worker /\ i \in Nat
      BY <1>6, <2>1 DEF Join, Worker, TypeOK
    <3>2. \A w \in Worker : w <= i + 1 <=> w <= i \/ w = i + 1
      BY <3>1 DEF Worker
    <3> QED
      BY <1>6, <2>1, <3>1, <3>2 DEF Join, Progress, workers
  <2>2. CASE ~(i < Threads)
    <3>1. \A w \in Worker : w <= i
      BY <1>6, <2>2 DEF Join, Worker, TypeOK
    <3> QED
      BY <1>6, <2>2, <3>1 DEF Join, Progress, workers
  <2> QED
    BY <2>1, <2>2
<1>7. CASE Collect
  BY <1>7 DEF Collect, Progress, workers
<1>8. CASE ApplyAndReport \/ Clear \/ Delete
  BY <1>8 DEF ApplyAndReport, Clear, Delete, Progress, workers
<1>11. CASE Dies
  <2>1. main' = "exited" /\ UNCHANGED <<pc, object, db, dir>>
    BY <1>11 DEF Dies, workers
  <2>2. ASSUME NEW w \in Worker, pc[w] \notin {"unborn", "finished"}
        PROVE  object[w] = "alive" /\ db = "open" /\ dir
    BY <1>11, <2>2, StepsWhileRunning DEF Dies, Progress
  <2> QED
    BY <2>1, <2>2 DEF Progress
<1>9. ASSUME NEW w \in Worker, WorkerNext(w) PROVE Progress'
  <2>1. main \in Running \cup {"spawn"}
    BY <1>9, WorkerFrame, StepsWhileRunning
  <2> QED
    BY <1>9, <2>1, WorkerFrame DEF Progress
<1>10. CASE UNCHANGED vars
  BY <1>10 DEF vars, workers, Progress
<1> QED
  BY <1>1, <1>2, <1>3, <1>4, <1>5, <1>6, <1>7, <1>8, <1>9, <1>10, <1>11 DEF Next, MainNext

(* The types and the progress of the main thread, at every step.           *)
LEMMA InvHolds == Spec => []Inv
<1>1. Init => Progress
  BY DEF Init, Progress, Before, Running, After
<1> QED
  BY <1>1, ProgressStep, TypeCorrect, PTL DEF Spec, Inv

(* Nothing is freed under a running worker, and the main thread calls the  *)
(* database only while no worker does: spawned before, joined after.       *)
THEOREM NothingIsFreed == Spec => []NothingFreedInUse
<1>1. Inv => NothingFreedInUse
  <2> SUFFICES ASSUME Inv PROVE NothingFreedInUse
    OBVIOUS
  <2> USE DEF Inv, Before, Running, After
  <2>1. ASSUME NEW w \in Worker, pc[w] \notin {"unborn", "finished"}
        PROVE  object[w] = "alive" /\ db = "open" /\ dir
    BY <2>1, StepsWhileRunning DEF Progress
  <2>2. main \in {"open", "wait", "preload", "apply", "clear", "delete"} =>
           \A w \in Worker : ~InDb(w)
    BY DEF Progress, InDb
  <2> QED
    BY <2>1, <2>2 DEF NothingFreedInUse
<1> QED
  BY <1>1, InvHolds, PTL

-----------------------------------------------------------------------------
(* The report.  s[n] is the sum of f over the first n workers: a witness   *)
(* of such sums stands for their recursive definition, and every step says *)
(* what becomes of it.                                                     *)
IsSumOf(s, f) ==
    /\ s \in [0 .. Threads -> Int]
    /\ s[0] = 0
    /\ \A w \in Worker : s[w] = s[w - 1] + f[w]

(* The operations of each worker that the database has served: a worker    *)
(* counts before it calls.                                                 *)
Reads  == [w \in Worker |-> readCount[w]  - IF pc[w] = "get" THEN 1 ELSE 0]
Writes == [w \in Worker |-> writeCount[w] - IF pc[w] = "put" THEN 1 ELSE 0]

(* At m, the main thread has added up the sums of the first j workers if it *)
(* is collecting, of all n operations that f counts if it has collected.   *)
Accounted(f, n, added, m, j) ==
    \E s : /\ IsSumOf(s, f)
           /\ s[Threads] = n
           /\ m # "exited" =>
                 added = IF m \in After THEN n ELSE IF m = "collect" THEN s[j] ELSE 0

Report ==
    /\ Accounted(Reads, served.reads, total.reads, main, i)
    /\ Accounted(Writes, served.writes, total.writes, main, i)

(* The sums of a function that is zero everywhere are zero.                *)
LEMMA SumOfNothing ==
    ASSUME NEW f, \A w \in Worker : f[w] = 0
    PROVE  IsSumOf([n \in 0 .. Threads |-> 0], f)
BY OptionsAssumption DEF IsSumOf, Worker

(* One more for worker w is one more in every sum that reaches w.          *)
LEMMA SumOfOneMore ==
    ASSUME NEW f, NEW g, NEW s, IsSumOf(s, f), NEW w \in Worker,
           g[w] = f[w] + 1, \A u \in Worker \ {w} : g[u] = f[u], \A u \in Worker : f[u] \in Int
    PROVE  \E r : IsSumOf(r, g) /\ r[Threads] = s[Threads] + 1
<1> DEFINE r == [n \in 0 .. Threads |-> IF n < w THEN s[n] ELSE s[n] + 1]
<1> USE OptionsAssumption
<1>1. r \in [0 .. Threads -> Int] /\ r[0] = 0 /\ r[Threads] = s[Threads] + 1
  BY SMTT(40) DEF IsSumOf, Worker
<1>2. ASSUME NEW u \in Worker PROVE r[u] = r[u - 1] + g[u]
  <2>1. /\ u \in 0 .. Threads /\ u - 1 \in 0 .. Threads /\ w \in Int /\ u \in Int
        /\ s[u] = s[u - 1] + f[u] /\ s[u] \in Int /\ s[u - 1] \in Int
    BY SMTT(40) DEF IsSumOf, Worker
  <2>2. CASE u < w
    BY <2>1, <2>2
  <2>3. CASE u = w
    BY <2>1, <2>3
  <2>4. CASE u > w
    BY <2>1, <2>4
  <2> QED
    BY <2>1, <2>2, <2>3, <2>4
<1> HIDE DEF r
<1> QED
  BY <1>1, <1>2 DEF IsSumOf

(* A call served is one more operation accounted for: nothing has been     *)
(* collected yet.                                                          *)
LEMMA ServedOneMore ==
    ASSUME NEW f, NEW g, NEW n, NEW added, NEW m, NEW j, Accounted(f, n, added, m, j),
           NEW w \in Worker, g[w] = f[w] + 1, \A u \in Worker \ {w} : g[u] = f[u],
           \A u \in Worker : f[u] \in Int,
           m \notin After \cup {"collect", "exited"}
    PROVE  Accounted(g, n + 1, added, m, j)
<1>1. PICK s : IsSumOf(s, f) /\ s[Threads] = n /\ added = 0
  BY DEF Accounted
<1>2. PICK r : IsSumOf(r, g) /\ r[Threads] = s[Threads] + 1
  BY <1>1, SumOfOneMore
<1> QED
  BY <1>1, <1>2 DEF Accounted

(* Going elsewhere than in or out of the collection, or into it at its     *)
(* start, changes nothing in an account.                                   *)
LEMMA AccountKept ==
    ASSUME NEW f, NEW n, NEW added, NEW m, NEW j, NEW m2, NEW j2, Accounted(f, n, added, m, j),
           \/ m2 = m /\ (j2 = j \/ m # "collect")
           \/ m \notin After \cup {"collect", "exited"} /\ m2 \notin After \cup {"collect"}
           \/ m \notin After \cup {"collect", "exited"} /\ m2 = "collect" /\ j2 = 0
           \/ m \in After /\ m2 \in After
           \/ m2 = "exited"
    PROVE  Accounted(f, n, added, m2, j2)
BY DEF Accounted, IsSumOf, After

(* The operations served, as each kind of worker's step leaves them.       *)
LEMMA ServedType ==
    ASSUME TypeOK
    PROVE  \A w \in Worker : Reads[w] \in Int /\ Writes[w] \in Int
BY DEF TypeOK, Reads, Writes

(* What was counted stays what was served, and the total that of the       *)
(* workers collected.                                                      *)
LEMMA ReportStep == Inv /\ Report /\ [Next]_vars => Report'
<1> SUFFICES ASSUME Inv, Report, [Next]_vars PROVE Report'
  OBVIOUS
<1> USE OptionsAssumption DEF Inv, Goto
<1>1. ASSUME UNCHANGED <<readCount, writeCount, total, served>>, Reads' = Reads, Writes' = Writes,
             \/ main' = main /\ (i' = i \/ main # "collect")
             \/ main \notin After \cup {"collect", "exited"} /\ main' \notin After \cup {"collect"}
             \/ main \notin After \cup {"collect", "exited"} /\ main' = "collect" /\ i' = 0
             \/ main \in After /\ main' \in After
             \/ main' = "exited"
      PROVE  Report'
  BY <1>1, AccountKept DEF Report
<1>2. CASE Open \/ Wait \/ Preload \/ Preloaded \/ Spawned \/ Elapse \/ Stop \/ Join
           \/ ApplyAndReport \/ Clear \/ Delete \/ Dies
  <2>1. Reads' = Reads /\ Writes' = Writes
    BY <1>2 DEF Open, Wait, Preload, Preloaded, Spawned, Elapse, Stop, Join,
                ApplyAndReport, Clear, Delete, Dies, workers, Reads, Writes
  <2> QED
    BY <1>1, <1>2, <2>1 DEF Open, Wait, Preload, Preloaded, Spawned, Elapse, Stop, Join,
                ApplyAndReport, Clear, Delete, Dies, workers, After
<1>3. CASE Spawn
  <2>1. i + 1 \in Worker /\ pc[i + 1] = "unborn"
    BY <1>3 DEF Spawn, Worker, TypeOK, Progress
  <2>2. Reads' = Reads /\ Writes' = Writes
    BY <1>3, <2>1 DEF Spawn, TypeOK, Reads, Writes
  <2> QED
    BY <1>1, <1>3, <2>2 DEF Spawn
<1>4. CASE Collect
  <2>1. Reads' = Reads /\ Writes' = Writes
    BY <1>4 DEF Collect, workers, Reads, Writes
  <2>2. \A w \in Worker : Reads[w] = readCount[w] /\ Writes[w] = writeCount[w]
    BY <1>4 DEF Collect, Progress, TypeOK, Reads, Writes
  <2>3. PICK r : /\ IsSumOf(r, Reads) /\ r[Threads] = served.reads /\ total.reads = r[i]
    BY <1>4 DEF Collect, Report, Accounted, After
  <2>4. PICK u : /\ IsSumOf(u, Writes) /\ u[Threads] = served.writes /\ total.writes = u[i]
    BY <1>4 DEF Collect, Report, Accounted, After
  <2>5. CASE i < Threads
    <3>1. i + 1 \in Worker /\ (i + 1) - 1 = i
      BY <1>4, <2>5 DEF Collect, Worker, TypeOK
    <3>2. main' = "collect" /\ i' = i + 1 /\ served' = served
          /\ total'.reads = total.reads + readCount[i + 1]
          /\ total'.writes = total.writes + writeCount[i + 1]
      BY <1>4, <2>5 DEF Collect
    <3>3. total'.reads = r[i'] /\ total'.writes = u[i']
      BY SMTT(40), <2>2, <2>3, <2>4, <3>1, <3>2 DEF IsSumOf
    <3> QED
      BY <2>1, <2>3, <2>4, <3>2, <3>3 DEF Report, Accounted, After
  <2>6. CASE ~(i < Threads)
    <3>1. i = Threads
      BY <1>4, <2>6 DEF Collect, TypeOK
    <3> QED
      BY <1>4, <2>1, <2>3, <2>4, <2>6, <3>1 DEF Collect, Report, Accounted, After
  <2> QED
    BY <2>5, <2>6
<1>5. ASSUME NEW w \in Worker, WorkerNext(w) PROVE Report'
  <2>1. /\ main \notin After \cup {"collect", "exited"} /\ UNCHANGED <<main, i, total>>
        /\ \A x \in Worker \ {w} : pc'[x] = pc[x]
    BY <1>5, WorkerFrame, StepsWhileRunning DEF After, Running
  <2>2. \A x \in Worker : Reads[x] \in Int /\ Writes[x] \in Int
    BY ServedType
  <2>3. CASE Finish(w)
    <3>1. Reads' = Reads /\ Writes' = Writes
      BY <2>3 DEF Finish, TypeOK, Reads, Writes
    <3> QED
      BY <1>1, <2>1, <2>3, <3>1 DEF Finish
  <2>4. CASE Draw(w)
    <3>1. PICK read \in BOOLEAN :
            /\ pc' = [pc EXCEPT ![w] = IF read THEN "get" ELSE "put"]
            /\ readCount' = IF read THEN [readCount EXCEPT ![w] = @ + 1] ELSE readCount
            /\ writeCount' = IF read THEN writeCount ELSE [writeCount EXCEPT ![w] = @ + 1]
      BY <2>4 DEF Draw
    <3>2. pc[w] = "check"
      BY <2>4 DEF Draw
    <3>3. Reads' = Reads /\ Writes' = Writes
      BY SMTT(40), <3>1, <3>2 DEF TypeOK, Reads, Writes
    <3> QED
      BY <2>1, <2>4, <3>3, AccountKept DEF Draw, Report
  <2>5. CASE Get(w)
    <3>1. /\ Reads'[w] = Reads[w] + 1 /\ \A x \in Worker \ {w} : Reads'[x] = Reads[x]
          /\ Writes' = Writes
      BY <2>5 DEF Get, Back, TypeOK, Reads, Writes
    <3>2. served'.reads = served.reads + 1 /\ served'.writes = served.writes
      BY <2>5 DEF Get, TypeOK, Counts
    <3>3. Accounted(Reads', served'.reads, total.reads, main, i)
      BY <2>1, <2>2, <3>1, <3>2, ServedOneMore DEF Report
    <3> QED
      BY <2>1, <3>1, <3>2, <3>3 DEF Report
  <2>6. CASE Put(w)
    <3>1. /\ Writes'[w] = Writes[w] + 1 /\ \A x \in Worker \ {w} : Writes'[x] = Writes[x]
          /\ Reads' = Reads
      BY <2>6 DEF Put, Back, TypeOK, Reads, Writes
    <3>2. served'.writes = served.writes + 1 /\ served'.reads = served.reads
      BY <2>6 DEF Put, TypeOK, Counts
    <3>3. Accounted(Writes', served'.writes, total.writes, main, i)
      BY <2>1, <2>2, <3>1, <3>2, ServedOneMore DEF Report
    <3> QED
      BY <2>1, <3>1, <3>2, <3>3 DEF Report
  <2> QED
    BY <1>5, <2>3, <2>4, <2>5, <2>6 DEF WorkerNext
<1>6. CASE UNCHANGED vars
  BY <1>1, <1>6 DEF vars, workers, Reads, Writes
<1> QED
  BY <1>2, <1>3, <1>4, <1>5, <1>6 DEF Next, MainNext

(* What full_test reports at the end is what the database has served:      *)
(* every operation of every worker once, however they interleaved.         *)
THEOREM ReportCountsAll == Spec => []ReportIsExact
<1>1. Init => Report
  <2> SUFFICES ASSUME Init PROVE Report
    OBVIOUS
  <2>1. \A w \in Worker : Reads[w] = 0 /\ Writes[w] = 0
    BY DEF Init, Reads, Writes
  <2>2. Threads \in 0 .. Threads
    BY OptionsAssumption
  <2> QED
    BY <2>1, <2>2, SumOfNothing DEF Init, Report, Accounted, After
<1>2. Inv /\ Report => ReportIsExact
  <2> SUFFICES ASSUME Inv, Report, main \in After PROVE total = served
    BY DEF ReportIsExact, After
  <2>1. total.reads = served.reads /\ total.writes = served.writes
    BY DEF Report, Accounted, After
  <2> QED
    BY <2>1 DEF Inv, TypeOK, Counts
<1> QED
  BY <1>1, <1>2, InvHolds, ReportStep, PTL DEF Spec

-----------------------------------------------------------------------------
(* Where no call fails, the keys the main thread has passed hold their own *)
(* value, and all of them do while workers run.                            *)
Preloads ==
    ~errors =>
       /\ main = "preload" => \A k \in Key : k < i => store[k] = "own"
       /\ main \in Running \cup {"spawn"} => \A k \in Key : k < Keys => store[k] = "own"

(* A key that was preloaded keeps its value, whoever writes it.            *)
LEMMA PreloadsStep == Inv /\ Preloads /\ PreloadedReadsMatch /\ [Next]_vars
                         => Preloads' /\ PreloadedReadsMatch'
<1> SUFFICES ASSUME Inv, Preloads, PreloadedReadsMatch, [Next]_vars
             PROVE  Preloads' /\ PreloadedReadsMatch'
  OBVIOUS
<1> USE OptionsAssumption DEF Inv, Goto, Running
<1>1. ASSUME UNCHANGED readResult, UNCHANGED errors PROVE PreloadedReadsMatch'
  BY <1>1 DEF PreloadedReadsMatch
<1>2. CASE Open \/ Spawned \/ Elapse \/ Stop \/ Join \/ Collect \/ ApplyAndReport \/ Clear
           \/ Delete \/ Spawn \/ Dies
  BY <1>1, <1>2 DEF Open, Spawned, Elapse, Stop, Join, Collect, ApplyAndReport, Clear, Delete,
                    Spawn, Dies, workers, mode, Preloads
<1>3. CASE Wait
  BY <1>1, <1>3 DEF Wait, workers, mode, Preloads, Key
<1>4. CASE Preload
  <2>1. ~errors => \A k \in Key : k < i + 1 => store'[k] = "own"
    BY <1>4 DEF Preload, ReturnsFalse, Preloads, TypeOK, Key
  <2> QED
    BY <1>1, <1>4, <2>1 DEF Preload, workers, mode, Preloads
<1>5. CASE Preloaded
  BY <1>1, <1>5 DEF Preloaded, workers, mode, Preloads
<1>6. ASSUME NEW w \in Worker, WorkerNext(w) PROVE Preloads' /\ PreloadedReadsMatch'
  <2>1. main \in Running \cup {"spawn"} /\ UNCHANGED <<main, i, errors>>
    BY <1>6, WorkerFrame, StepsWhileRunning DEF mode
  <2>2. CASE Finish(w) \/ Draw(w)
    BY <1>1, <2>1, <2>2 DEF Finish, Draw, Preloads
  <2>3. CASE Get(w)
    <3>1. Preloads'
      BY <2>1, <2>3 DEF Get, Preloads
    <3>2. key[w] \in Key /\ store[key[w]] \in Content
          /\ (~errors /\ key[w] < Keys => store[key[w]] = "own")
      BY <2>1 DEF Preloads, TypeOK
    <3>3. \/ UNCHANGED readResult
          \/ readResult' = [readResult EXCEPT ![w] = [key |-> key[w], val |-> store[key[w]]]]
      BY <2>3 DEF Get
    <3>4. CASE UNCHANGED readResult
      BY <1>1, <2>1, <3>1, <3>4
    <3>5. ASSUME readResult' = [readResult EXCEPT ![w] = [key |-> key[w], val |-> store[key[w]]]]
          PROVE  PreloadedReadsMatch'
      <4>1. readResult'[w] = [key |-> key[w], val |-> store[key[w]]]
            /\ \A u \in Worker \ {w} : readResult'[u] = readResult[u]
        BY <3>5 DEF TypeOK
      <4> QED
        BY <2>1, <3>2, <4>1 DEF PreloadedReadsMatch
    <3> QED
      BY <3>1, <3>3, <3>4, <3>5
  <2>4. CASE Put(w)
    <3>1. ~errors => \A k \in Key : k < Keys => store'[k] = "own"
      BY <2>1, <2>4 DEF Put, ReturnsFalse, Preloads, TypeOK
    <3> QED
      BY <1>1, <2>1, <2>4, <3>1 DEF Put, Preloads
  <2> QED
    BY <1>6, <2>2, <2>3, <2>4 DEF WorkerNext
<1>7. CASE UNCHANGED vars
  BY <1>1, <1>7 DEF vars, workers, mode, Preloads
<1> QED
  BY <1>2, <1>3, <1>4, <1>5, <1>6, <1>7 DEF Next, MainNext

(* A worker reads a preloaded key as the value that belongs to it, whatever*)
(* an earlier run left behind and whatever the other workers write.        *)
THEOREM PreloadedKeysRead == Spec => []PreloadedReadsMatch
<1>1. Init => Preloads /\ PreloadedReadsMatch
  BY DEF Init, Preloads, PreloadedReadsMatch, Running
<1> QED
  BY <1>1, InvHolds, PreloadsStep, PTL DEF Spec
=============================================================================

------------------------------ MODULE Options ------------------------------
(***************************************************************************)
(* main.cpp: handle_arguments() turns the flags of the command line into   *)
(* the struct options that full_test() gets, one block of ifs after        *)
(* another, and main() goes on to the benchmark.  A flag has the value it  *)
(* was given, or Absent; the struct starts as zeros (result{}).            *)
(***************************************************************************)
EXTENDS Integers

CONSTANTS
    Absent,      \* a flag that was not given
    FlagValue,   \* values a flag may be given
    Cores        \* what hardware_concurrency() may return, 0 if unknown

Flag == {"db", "read", "duration", "threads", "len", "keys"}
Step == {"help", "integrity", "db", "read", "duration", "threads", "len", "keys",
         "bench", "exit"}

VARIABLES
    help, integrity,   \* the two flags without a value
    flag,              \* the others
    cores,             \* hardware_concurrency()
    at,                \* the block handle_arguments is at
    result             \* the struct it fills

vars == <<help, integrity, flag, cores, at, result>>

Field == {"dbType", "readWeight", "writeWeight", "duration", "threads", "stringLength", "keys"}

Init ==
    /\ help \in BOOLEAN
    /\ integrity \in BOOLEAN
    /\ flag \in [Flag -> FlagValue \cup {Absent}]
    /\ cores \in Cores
    /\ at = "help"
    /\ result = [f \in Field |-> 0]

Given(f) == flag[f] # Absent
GivenOr(f, default) == IF Given(f) THEN flag[f] ELSE default

Fill(f, v) == result' = [result EXCEPT ![f] = v]
Input == <<help, integrity, flag, cores>>

Help ==
    /\ at = "help"
    /\ at' = IF help THEN "exit" ELSE "integrity"
    /\ UNCHANGED <<Input, result>>

Integrity ==
    /\ at = "integrity"
    /\ at' = IF integrity THEN "exit" ELSE "db"
    /\ UNCHANGED <<Input, result>>

(* --db is required: without it the program exits.                         *)
Db ==
    /\ at = "db"
    /\ IF Given("db")
       THEN Fill("dbType", flag["db"]) /\ at' = "read"
       ELSE at' = "exit" /\ UNCHANGED result
    /\ UNCHANGED Input

Read ==
    LET ratio == GivenOr("read", 60)
    IN  /\ at = "read"
        /\ result' = [result EXCEPT !["readWeight"] = ratio, !["writeWeight"] = 100 - ratio]
        /\ at' = "duration"
        /\ UNCHANGED Input

Duration ==
    /\ at = "duration"
    /\ Fill("duration", GivenOr("duration", 60))
    /\ at' = "threads"
    /\ UNCHANGED Input

ThreadsByDefault == IF cores = 0 THEN 1 ELSE cores - 1

Threads ==
    /\ at = "threads"
    /\ Fill("threads", GivenOr("threads", ThreadsByDefault))
    /\ at' = "len"
    /\ UNCHANGED Input

Len ==
    /\ at = "len"
    /\ Fill("stringLength", GivenOr("len", 5000))
    /\ at' = "keys"
    /\ UNCHANGED Input

(* The block of --keys writes stringLength again.                          *)
Keys ==
    /\ at = "keys"
    /\ Fill("stringLength", GivenOr("keys", 10000))
    /\ at' = "bench"
    /\ UNCHANGED Input

Next == Help \/ Integrity \/ Db \/ Read \/ Duration \/ Threads \/ Len \/ Keys

Spec == Init /\ [][Next]_vars

-----------------------------------------------------------------------------
(* "number of keys": --keys sets the number of keys.                       *)
KeysFlagSetsKeys == at = "bench" /\ Given("keys") => result["keys"] = flag["keys"]
=============================================================================

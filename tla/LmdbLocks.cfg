CONSTANTS
    Proc = {p1, p2}
    Thread = {t1, t2, t3}
    MaxReaders = 2
    MaxOpens = 3
    MaxTxns = 3
    MaxChecks = 1
SYMMETRY Symmetry
SPECIFICATION Spec
INVARIANTS
    SlotsHeld
    MutexesHeld
    OldestIsSafe
    CheckClears
    WriterFollows
CHECK_DEADLOCK FALSE

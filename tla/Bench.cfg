SPECIFICATION FairSpec
CONSTANTS
    Threads = 2
    Keys = 2
    ReadWeight = 60
    MaxOps = 2
INVARIANTS
    ReportIsExact
    NothingFreedInUse
    
PROPERTY
    Terminates
CHECK_DEADLOCK FALSE

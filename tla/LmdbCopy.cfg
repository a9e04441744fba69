CONSTANTS
    Sources <- MCSources
    WBUF = 2
    Faults = {"sigmask", "create", "begin", "page", "write"}
    MaxSpurious = 1
SPECIFICATION FairSpec
INVARIANTS BuffersApart CopyIsExact
PROPERTY Terminates
CHECK_DEADLOCK FALSE

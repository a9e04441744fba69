SPECIFICATION FairSpec
CONSTANTS
    k1 = k1
    k2 = k2
    v1 = v1
    main = main
    w1 = w1
    w2 = w2
    Key = {k1, k2}
    Value = {v1}
    Absent = Absent
    None = None
    EngineErrors = TRUE
    Thread = {main, w1, w2}
    Main = main
INVARIANTS
    HoldsMutex
PROPERTIES
    ImplementsStateDB
    CallsReturn
CHECK_DEADLOCK FALSE

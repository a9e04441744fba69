SPECIFICATION Spec
CONSTANTS
    k1 = k1
    k2 = k2
    v1 = v1
    v2 = v2
    main = main
    w1 = w1
    w2 = w2
    Key = {k1, k2}
    Value = {v1}
    Absent = Absent
    None = None
    Thread = {main, w1, w2}
    Main = main
INVARIANTS
    NoCrash
    WritersExclude
    AppliedIsCommitted
    PutsStay
PROPERTY
    ImplementsStateDB
CHECK_DEADLOCK FALSE

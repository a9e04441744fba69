SPECIFICATION Spec
CONSTANTS
    k1 = k1
    k2 = k2
    e = e
    Key <- MCKey
    ShardOf <- MCShardOf
    EmptyKey = e
    Value = {v1}
    Absent = Absent
    None = None
    EngineErrors = TRUE
    NumShards = 2
    Thread = {main, w1}
    Main = main
INVARIANTS
    TypeOK
    OnlyOpenedShards
PROPERTIES
    ImplementsStateDB
    ImplementsStoring
CHECK_DEADLOCK FALSE

SPECIFICATION Spec
CONSTANTS
    k1 = k1
    k2 = k2
    r1 = r1
    Key = {k1, k2}
    Reader = {r1}
    MaxPg = 11
    Scenarios <- MCScenarios
    MaxTxns = 4
    MaxWrites = 4
INVARIANTS
    SaveSettles
    PagesOnce
    TxnidUpdated
    SnapshotIntact
    SnapshotIsCommitted
PROPERTY ImplementsStore
CHECK_DEADLOCK FALSE

SPECIFICATION Spec
CONSTANTS
    Absent = Absent
    FlagValue <- SomeValues
    Cores <- SomeCores
INVARIANTS
    KeysFlagSetsKeys
CHECK_DEADLOCK FALSE

CONSTANTS
    Leaf = {1, 2, 3}
    Val = {1, 2}
    Cursor = {1}
    MaxLevel = 3
    MaxPg = 11
    Needs = 1
    MaxOps = 6
    WriteFails = {"commit"}
    UM_MAX = 3
    SMALL = 2
    CheckedIds = {1, 2, 3, 4, 5}
    CheckedLen = 5
SPECIFICATION Spec
INVARIANTS
    ListsSound
    RoomExact
    PagesAccounted
    CursorsCurrent
    ListFunctionsSound
PROPERTY ImplementsNested

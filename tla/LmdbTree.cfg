CONSTANTS
    d0 = d0
    d2 = d2
    b2 = b2
    Key = {1, 2, 3, 4, 5, 6}
    KeySize <- MCKeySize
    Data = {d0, d2, b2}
    DataSize <- MCDataSize
    OvPages <- MCOvPages
    NoData = NoData
    Values <- MCValues
    PageSize = 9
    Cursor = {1}
    MaxDepth = 4
    PutFlags = {"none", "append", "nooverwrite", "current"}
    AsksPastEof = FALSE
    Commits = {2}
SPECIFICATION Spec
INVARIANTS WellFormed TreeHoldsMap CountsExact CursorsKeepPlace

CONSTANTS
    Readers = {r1, r2}
    File <- MCFile
    Window = 3
    MaxWindows = 2
    Requests <- MCRequests
    MaxReads = 2
SPECIFICATION FairSpec
INVARIANTS
    OneCopyInBounds
    KeepsTheMostRecent
PROPERTIES
    ReadsAsPromised
CHECK_DEADLOCK FALSE

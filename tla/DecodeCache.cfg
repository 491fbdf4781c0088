CONSTANTS
    MaxEntries = 2
    MaxBytes = 5
    Files <- MCFiles
    FileSize = 10
    Readers = {r1, r2}
    MaxReads = 2
SPECIFICATION FairSpec
INVARIANTS
    AnswersAreOwn
PROPERTIES
    KeepsTheRecentInBounds
    EveryReadEnds
CHECK_DEADLOCK FALSE

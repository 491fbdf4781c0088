CONSTANTS
    Prefix = 1
    Budget = 2
    DataGroups <- MCChunks
SPECIFICATION FairSpec
INVARIANTS
    NeverAnothersPayload
PROPERTIES
    CoversTheRecords
    ChunksEnd
CHECK_DEADLOCK FALSE

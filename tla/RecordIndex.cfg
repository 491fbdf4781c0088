CONSTANTS
    Prefix = 1
    DataGroups <- MCDataGroups
SPECIFICATION FairIndexSpec
INVARIANTS
    IndexedAtOwnId
    RecordsDisjoint
    SeededStreamIsWhole
    CountsAreDelivered
PROPERTIES
    WalkEnds
CHECK_DEADLOCK FALSE

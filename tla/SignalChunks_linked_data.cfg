CONSTANTS
    Prefix = 1
    Budget = 2
    DataGroups <- MCLinkedData
SPECIFICATION FairSpec
PROPERTIES
    CoversTheRecords
CHECK_DEADLOCK FALSE

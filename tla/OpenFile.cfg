SPECIFICATION Spec
CONSTANTS
    Files <- MCFiles
    Header = 1
    FileSize = 18
    MaxCompositionDepth = 2
    MaxConversionDepth = 2
    MaxBlocks = 9
INVARIANTS ChannelsAreTheTree CyclesAreTold RangeIsTheSlice MapIsTheGraph
PROPERTIES ReadingEnds
CHECK_DEADLOCK FALSE

CONSTANTS
    ByteBits = 3
    WordBytes = 4
    MaxEntries = 2
    MaxBytes = 5
    MaxChain = 3
    LargestId = 7
    Mdf3Files <- MCFiles
    MaxReads = 3
    MaxMuxDepth = 2
    FlagsPerByte = 2
    RecordIds = 256
    Sources <- MCSources
    Axes <- MCAxes
    AddedKinds <- MCKinds
    MaskOf <- MCMaskOf
    Codecs = {"plain", "deflate", "transposed"}
    MaxCalls = 4
    Tasks = {"block"}
SPECIFICATION Spec
INVARIANT SummaryReadsTheFields
CHECK_DEADLOCK FALSE

CONSTANTS
    ByteBits = 3
    WordBytes = 4
    MaxEntries = 2
    MaxBytes = 5
    MaxChain = 3
    LargestId = 7
    Mdf3Files <- MCFiles
    MaxReads = 3
    Tasks = {"field", "table", "formula", "version 3", "block", "block 3", "bus field", "bus message", "bus lookup", "bus log", "writer"}
    MaxMuxDepth = 2
    FlagsPerByte = 2
    RecordIds = 256
    Sources <- MCSources
    Axes <- MCAxes
    AddedKinds <- MCKinds
    MaskOf <- MCMaskOf
    Codecs = {"plain", "deflate", "transposed"}
    MaxCalls = 4
SPECIFICATION Spec
INVARIANTS
    SamplesAreTheirFields
    PhysicalIsByItsRule
    ReadsAreTheRecording
    BlocksReadAsLaidOut
    LinksLand
    ReadsBackWhole
    NothingDroppedInSilence
CHECK_DEADLOCK FALSE

SPECIFICATION FairParts
CONSTANTS
    Parts = {"window", "batch", "web"}
    p = p
    q = q
    l = l
    Paths <- MCPaths
    Locs <- MCLocs
    Disks <- MCDisks
    Stored <- MCStored
    MaxFiles = 1
    MaxPlotted = 2
    MaxHistory = 1
    MaxOpens = 2
    NoPath = NoPath
    NoSession = NoSession
    FileSelected = FileSelected
    Queues <- MCQueues
    Ops <- MCOps
    OutDirs <- MCOutDirs
    Beside = Beside
    Panics = TRUE
    FileChannels <- MCFileChannels
    Databases <- MCDatabases
    DefinedNames <- MCDefinedNames
    Formulas <- MCFormulas
    SeriesBytes <- MCSeriesBytes
    WebCap = 3
    WebBudget = 5
INVARIANTS
    NothingPointsAtAClosedFile
    SessionsComeBackWhole
    OutcomesAreTrue
    WebFileStaysTrue
PROPERTIES
    LoadsLand
    RunEnds
CHECK_DEADLOCK FALSE

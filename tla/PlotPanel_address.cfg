SPECIFICATION Spec
CONSTANTS
    FileSets <- MCFileSets
    Bounds <- MCBounds
    MaxDerived = 1
    ChunkRows = 2
    MaxPage = 4
    TrackMaxPoints = 3
    Tasks = {"panel"}
    FirstFile = "one"
    SecondFiles = {"two", "three"}
    NoSecond = "none"
    FileHolds <- MCFileHolds
    Dated = {"one", "two"}
    m1 = m1
    m2 = m2
    m3 = m3
    Addresses <- MCAddresses
    FirstAddress = m1
    NoAddress = NoAddress
    Texts <- MCRpmAlone
    MaxDefinitions = 1
PROPERTY
    ClearedForADifferentFile
CHECK_DEADLOCK FALSE

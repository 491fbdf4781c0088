SPECIFICATION Spec
CONSTANTS
    FileSets <- MCFileSets
    Bounds <- MCBounds
    MaxDerived = 1
    ChunkRows = 2
    MaxPage = 4
    TrackMaxPoints = 3
    Tasks = {"concatenate", "stack", "resample", "plot", "computed", "asked", "search", "measured", "moved", "dated", "panel"}
    FirstFile = "one"
    SecondFiles = {"two", "three"}
    NoSecond = "none"
    FileHolds <- MCFileHolds
    Dated = {"one", "two"}
    m1 = m1
    m2 = m2
    m3 = m3
    Addresses <- MCAddresses
    FirstAddress = m1
    NoAddress = NoAddress
    Texts <- MCTexts
    MaxDefinitions = 2
SYMMETRY FreeAlike
INVARIANTS
    FilesKeepTheirSamples
    DerivedAtTheirTimes
    ThinnedStillShows
    ComputedMeansItsFormula
    AnswersAgree
    SearchFindsWhatIsMeant
    PanelsAgree
    ComputedIsOfTheActiveFile
CHECK_DEADLOCK FALSE

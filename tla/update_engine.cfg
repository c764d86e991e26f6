SPECIFICATION EngineSpec
CONSTANTS
    Files <- AllFiles
    Initial <- Before
    Releases <- Distributions
    Settings = {"settings"}
    Optional = {"extra"}
    Partial = FALSE
    MaxFails = 2
    MaxFaults = 2
CHECK_DEADLOCK FALSE
INVARIANTS
    NothingLost
    RestoresReplaced
    
    EngineInv
PROPERTY
    DownloadEnds

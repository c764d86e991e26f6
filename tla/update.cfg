SPECIFICATION Spec
CONSTANTS
    Modules = {"ekiosk", "updater"}
    ByName <- InOrder
    AutoStart = {"ekiosk"}
    Priority <- StartOrder
    ClosePriority <- CloseOrder
    MaxStarts <- StartLimits
    Kiosk = "ekiosk"
    Updater = "updater"
    Others = {"restart", "reboot"}
    MaxOthers = 1
    MaxAsks = 1
    Files = {"lib", "junk", "extra"}
    Initial <- Before
    Releases <- Distribution
    Settings = {}
    Optional = {"extra"}
    Partial = FALSE
    MaxFails = 2
    MaxFaults = 1
CHECK_DEADLOCK FALSE
INVARIANTS
    UpdateTypeOK
    DeployAloneUnlessRestarted
PROPERTY
    QuitsAfterClosing
    KioskReturns
    UpdaterEnds

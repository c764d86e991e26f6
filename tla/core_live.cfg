SPECIFICATION FairSpec
CONSTANTS
    Sessions = {s0, s1, s2}
    InitialSession = s0
    NoSession = none
    TriesLimit = 0
    PayOnline = FALSE
    UiWaits = TRUE
    Commands = {}
    MaxFaults = 1
    s0 = s0
    s1 = s1
    s2 = s2
    none = none

CHECK_DEADLOCK FALSE
PROPERTY
    ComesToAnEnd

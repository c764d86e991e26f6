SPECIFICATION Spec
CONSTANTS
    Sessions = {s0}
    InitialSession = s0
    NoSession = none
    TriesLimit = 0
    PayOnline = FALSE
    UiWaits = FALSE
    Commands = {}
    MaxFaults = 0
    s0 = s0
    s1 = s1
    s2 = s2
    none = none

CHECK_DEADLOCK FALSE
INVARIANT
    CompletedIsSent

SPECIFICATION Spec
CONSTANTS
    Units = {1, 2}
    Nominal <- Nominals
    MaxCount = 2
    MaxChange = 7
    MaxFaults = 2
    MaxRefills = 1
    Repeats = 3
    MaxPayments = 1
    MaxEncashments = 1
    MaxAmountAll = 7
CHECK_DEADLOCK FALSE
INVARIANTS
    TypeOK
    NeverOverpays
    PaidOutIsGiven
    PromiseKept
    NoNoteForgotten
PROPERTIES
    DispensingEnds

SPECIFICATION Spec
CONSTANTS
    bill = bill
    coin = coin
    Acceptors = {bill, coin}
    Coins = {coin}
    Nominal <- FedWith
    DisableAmountOverflow = TRUE
    FixedAmount = {1}
    MaxPayments = 2
    MaxEncashments = 2
    MaxAmountAll = 2
    MaxNotes = 3
    MaxFaults = 1
CHECK_DEADLOCK FALSE
INVARIANTS
    TypeOK
    Backed
    Conserved
    NotesCollectedOnce
    AmountIsFinal
    DisabledIsOff
    StopsAtMaximum
PROPERTIES
    CollectedStays
    StoppingEnds

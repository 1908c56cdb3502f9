SPECIFICATION Spec
CONSTANTS
    Digits <- TwoDigits
    Amount <- Twelve
    MinDigits = 2
    MaxText = 6
    MaxChunk = 2
    Drafts <- SomeDrafts
INVARIANTS
    OnlySupported
    NumbersAreWhole
    ValuesReachTheCustomer
    SaidOnce
CHECK_DEADLOCK FALSE

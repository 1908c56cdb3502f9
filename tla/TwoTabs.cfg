SPECIFICATION Spec
CONSTANTS
    Customers <- TwoCustomers
    MaxQuestions = 1
    MaxCodes = 1
    MaxChanges = 2
    Turns = {t1, t2}
    Services <- TwoTabsServices
    GateOf <- TwoTabsGates
    Values <- OneValue
    Messages <- TwoTabsMessages
    OpensForm = FALSE
    Faults <- BadDayFaults
SYMMETRY SameTurns
INVARIANTS
    PendingIsBacked
    TruthfulResult
PROPERTIES
    ChangedAsShown
    AuthorisedChangeSpec
CHECK_DEADLOCK FALSE

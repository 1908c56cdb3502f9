SPECIFICATION FairSpec
CONSTANTS
    Customers <- OneCustomer
    MaxQuestions = 1
    MaxCodes = 2
    MaxChanges = 2
    Turns <- OneTurn
    Services <- OneTabServices
    GateOf <- OneTabGates
    Values <- OneValue
    Messages <- OneTabMessages
    OpensForm = TRUE
    Faults <- LiveFaults
PROPERTIES
    EveryStreamEnds
    ChangeIsReported
CHECK_DEADLOCK FALSE

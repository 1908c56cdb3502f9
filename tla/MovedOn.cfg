SPECIFICATION Spec
CONSTANTS
    Customers <- OneCustomer
    MaxQuestions = 1
    MaxCodes = 1
    MaxChanges = 2
    Turns <- OneTurn
    Services <- CatalogueServices
    GateOf <- CatalogueGates
    Values <- OneValue
    Messages <- CatalogueMessages
    OpensForm = TRUE
    Faults <- NoFaults
PROPERTIES
    NothingAfterRefusal
CHECK_DEADLOCK FALSE

SPECIFICATION Spec
CONSTANTS
    Customers <- OneCustomer
    MaxQuestions = 2
    MaxCodes = 2
    MaxChanges = 2
    Turns <- OneTurn
    Services <- OneTabServices
    GateOf <- OneTabGates
    Values <- TwoValues
    Messages <- OneTabMessages
    OpensForm = TRUE
    Faults <- NoFaults
INVARIANTS
    ConsentBeforeChange
    OneChangePerQuestion
    PromptStaysOpen
    StoredTokenIsGood
    ChangesAreAudited
PROPERTIES
    NothingAfterRefusal
    CodeForItsOwnQuestion
CHECK_DEADLOCK FALSE

SPECIFICATION Spec
CONSTANTS
    Customers <- MCCustomers
    Classes <- MCClasses
    PendingClasses <- MCPending
    NoClass = "NONE"
    IdleTimeout = 1
    MaxTurns = 2
    MaxUiNotes = 1
    Horizon = 3
    MaxSaid = 3
INVARIANTS
    FreshAfterIdle
    NothingForgottenEarly
PROPERTIES
    OpenQuestionSpec
CHECK_DEADLOCK FALSE

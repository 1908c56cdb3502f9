SPECIFICATION Spec
CONSTANTS
    Accounts = {"savings", "current"}
    OldAccount = "savings"
    Books <- MCBooks
    Cards = {"gold", "blue"}
    Singles = {"loans"}
    Months = 5
    DetailMonths = 2
    Batch = 2
    MaxPages = 1
    CardLimit = 1
    MaxFaults = 2
INVARIANTS EveryMonthIsTold LostLoginEscapes HeldCardsAreKnown

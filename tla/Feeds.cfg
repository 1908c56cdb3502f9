SPECIFICATION FairSpec
CONSTANTS
    Callers = {"turn1", "turn2"}
    Keys = {"USD", "EUR"}
    Needs = {"save", "spend"}
    Ttl = 2
    Timeout = 1
    MaxKept = 1
    MaxChanges = 2
INVARIANTS AnswersAreRecent AnswersFit ServicesAreThere
PROPERTY ServicesCatchUp

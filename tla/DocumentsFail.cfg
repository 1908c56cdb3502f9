SPECIFICATION FairSpec
CONSTANTS
    Docs = {d1, d2}
    Files = {"kb.md", "rates.md"}
    MaxBatches = 1
    MaxKills = 1
    Rebuilds = TRUE
    Faults = {"store", "model", "kill"}
INVARIANTS ReadyIsSearchable
PROPERTIES OldCopyKept DeletedStaysDeleted UploadsSettle
CHECK_DEADLOCK FALSE

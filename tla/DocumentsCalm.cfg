SPECIFICATION Spec
CONSTANTS
    Docs = {d1, d2, d3}
    Files = {"kb.md", "rates.md"}
    MaxBatches = 2
    MaxKills = 0
    Rebuilds = FALSE
    Faults = {}
SYMMETRY SameDocuments
INVARIANTS SearchIsTheList OneCopyPerFile
PROPERTIES IndexingIsLeftAlone
CHECK_DEADLOCK FALSE

SPECIFICATION Spec
CONSTANTS
    Runs = {r1, r2}
    Skus = {k1}
    NoBrand = none
    Brands = {none, b1}
    DeadAfter = 0
    ReloadsOverlap = FALSE
    Issuable <- Documents
    MaxDocs = 2
    LastWeek = 2
    MaxEvents = 3
    MaxCopies = 2
SYMMETRY Symmetric
CONSTRAINT Pruned
INVARIANTS TypeOK LoggedStepsAreLoaded OneRowPerMovement LogTellsOutcome
CHECK_DEADLOCK FALSE

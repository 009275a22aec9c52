SPECIFICATION Spec
CONSTANTS
    Runs = {r1, r2}
    Skus = {k1}
    NoBrand = none
    Brands = {none}
    DeadAfter = 0
    ReloadsOverlap = FALSE
    Issuable <- Documents
    MaxDocs = 2
    LastWeek = 2
    MaxEvents = 3
    MaxCopies = 1
SYMMETRY Symmetric
INVARIANTS SalesMatchDocuments
CHECK_DEADLOCK FALSE

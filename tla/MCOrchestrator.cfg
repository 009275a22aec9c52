SPECIFICATION Spec
CONSTANTS
    Unknown = "no_such_tool"
    Tools = {"open", "restricted"}
    Roles = {"marca", "Marca", "sku"}
    Required <- MCRequired
    Lower <- MCLower
    MaxIterations = 2
    Turns = 1
    MaxBlocks = 2
INVARIANTS TypeOK CallsAreWellFormed OfferAgreesWithGate SuccessSawAllResults
PROPERTIES TurnEnds
CHECK_DEADLOCK FALSE

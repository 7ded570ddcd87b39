SPECIFICATION Spec
CONSTANTS
    Calls = {c1}
    RPCs = {"RequestTransfer"}
    StageFlags = {FALSE}
    NumLegs = 2
    NumOps = 3
    PrepareMayFail = FALSE
    BurnRejectedIds = TRUE
    ChainsBreakOnExists = TRUE
    MaxEvents = 4
    MaxCrashes = 1
INVARIANT FailedMovedNothing

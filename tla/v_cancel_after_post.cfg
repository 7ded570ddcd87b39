SPECIFICATION Spec
CONSTANTS
    Calls = {c1}
    RPCs = {"RequestTransfer", "CancelAcceptedTransfer"}
    StageFlags = {FALSE}
    NumLegs = 1
    NumOps = 2
    PrepareMayFail = FALSE
    BurnRejectedIds = TRUE
    ChainsBreakOnExists = TRUE
    MaxEvents = 4
    MaxCrashes = 1
INVARIANT PreparedCancelMovedNothing

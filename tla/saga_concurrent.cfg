SPECIFICATION Spec
CONSTANTS
    Calls = {c1, c2}
    RPCs = {"RequestTransfer", "CancelAcceptedTransfer", "ConfirmStagedTransfer", "CancelStagedTransfer", "PostPendingTransfer"}
    StageFlags = {TRUE, FALSE}
    NumLegs = 2
    NumOps = 3
    PrepareMayFail = FALSE
    BurnRejectedIds = FALSE
    ChainsBreakOnExists = TRUE
    MaxEvents = 4
    MaxCrashes = 0
SYMMETRY CallSymmetry
INVARIANTS TypeOK OperationsAgree OutcomeCoversManifest PerformedMeansMoved StagedCancelReleased PostReplyMeansMoved

SPECIFICATION FairSpec
CONSTANTS
    Calls = {c1}
    RPCs = {"RequestTransfer", "CancelAcceptedTransfer", "ConfirmStagedTransfer", "CancelStagedTransfer", "PostPendingTransfer"}
    StageFlags = {TRUE, FALSE}
    NumLegs = 1
    NumOps = 2
    PrepareMayFail = TRUE
    BurnRejectedIds = TRUE
    ChainsBreakOnExists = TRUE
    MaxEvents = 3
    MaxCrashes = 2
INVARIANTS RecordedOnce FailedMovedNothing
PROPERTIES TerminalIsFinal SelfHeals StagedResolves

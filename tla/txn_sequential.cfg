SPECIFICATION FairSpec
CONSTANTS
    t1 = t1
    t2 = t2
    t3 = t3
    bad = bad
    ghost = ghost
    Calls = {k1}
    Children = {t1, t2, t3, bad}
    NoChild = NoChild
    Requests <- AnySpecification
    Invalid = {bad}
    AutoProcess = {t1, t3, bad}
    Staged = {t2}
    RPCs = {"StartProcessingTransfer", "ResumeTransaction", "StartTransactionRollback"}
    MaxCrashes = 2
CHECK_DEADLOCK FALSE
INVARIANTS AcceptedIsAcyclic DependentsFirst ClosedIsSettled
PROPERTIES TransactionTerminalIsFinal 

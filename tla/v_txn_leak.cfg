SPECIFICATION Spec
CONSTANTS
    t1 = t1
    t2 = t2
    t3 = t3
    bad = bad
    ghost = ghost
    Calls = {k1}
    Children = {t1, t2}
    NoChild = NoChild
    Requests <- AcyclicPairs
    Invalid = {}
    AutoProcess = {t1, t2}
    Staged = {}
    RPCs = {"ResumeTransaction", "StartTransactionRollback"}
    MaxCrashes = 1
INVARIANT AllOrNothing

SPECIFICATION Spec
CONSTANTS
    t1 = t1
    t2 = t2
    t3 = t3
    bad = bad
    ghost = ghost
    Calls = {k1, k2}
    Children = {t1, t2}
    NoChild = NoChild
    Requests <- AcyclicPairs
    Invalid = {}
    AutoProcess = {t1}
    Staged = {t2}
    RPCs = {"StartProcessingTransfer", "ResumeTransaction", "StartTransactionRollback"}
    MaxCrashes = 1
SYMMETRY CallSymmetry
INVARIANTS ParentsFirst ChildFactsHold CompletedIsEarned

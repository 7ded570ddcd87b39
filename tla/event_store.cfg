SPECIFICATION FairSpec
CONSTANTS
    s1 = s1
    s2 = s2
    Streams = {s1, s2}
    Appends = {a1, a2, a3}
    Batches <- AllShapes
    ConnectionsFail = TRUE
CHECK_DEADLOCK FALSE
INVARIANTS TypeOK Gapless GlobalFollowsSequence
PROPERTIES Refinement AppendReturns

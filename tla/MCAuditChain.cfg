SPECIFICATION FairSpec
CONSTANT Writers = {w1, w2, w3}
INVARIANTS
    NoDanglingPrev
    OrderlyChain
    VerifierDecides
    WindowAgrees
PROPERTY EveryWriteEnds
CHECK_DEADLOCK FALSE

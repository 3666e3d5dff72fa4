SPECIFICATION FairSpec
CONSTANTS
    s1 = s1
    s2 = s2
    Subs <- TwoSubs
    NumBatches = 3
    CanFail <- NoSubs
    HidesAbort <- TwoSubs
INVARIANTS
    DoneClosedOnce


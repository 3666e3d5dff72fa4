SPECIFICATION FairSpec
CONSTANTS
    NumBatches = 5
    CanFail = TRUE
    HidesAbort = TRUE
INVARIANTS
    ClosedReleasesAll
PROPERTIES
    NextReturnsEventually
    CloseReturnsEventually
    ImplementsBatchSource

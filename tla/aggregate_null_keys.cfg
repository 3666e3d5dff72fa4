SPECIFICATION FairSpec
CONSTANTS
    a = a
    b = b
    nul = nul
    empty = empty
    Null = nul
    EmptyString = empty
    Keys <- MCKeys
    Hash <- MCHash
    NumWorkers = 2
    ChanBuf = 1
    KeyMode = "int641"
    Inputs <- MCInputs
    BadRouting <- None
    BadUpdate <- None
    InputFails = FALSE
INVARIANT
    EagerNullSemantics

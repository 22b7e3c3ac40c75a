CONSTANTS
    Inputs <- MCInputs
    AllocFaults <- MCAllocFaults
    Stale <- MCStale
    CanFail = TRUE
    MaxCalls = 2
    ZeroNull = FALSE
    Debug = TRUE

SPECIFICATION Spec

INVARIANTS
    NothingLeftAfterRelease
    LoadedCopiesFaithful
    DescribeShowsEveryItem

PROPERTIES
    DescribeLeavesHeap

\* The program ends once it holds nothing, or after a failed load.
CHECK_DEADLOCK FALSE

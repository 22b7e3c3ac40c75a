CONSTANTS
    Sources <- MCSources
    CanFail = TRUE
    MaxCalls = 2
    Debug = TRUE
    ZeroNull = FALSE

SPECIFICATION Spec

INVARIANTS
    TypeOK
    RefcountsExact
    CopyFaithful
    CopyIsDeep
    AssertionsHold

\* The caller stops once it holds nothing, or after a crash.
CHECK_DEADLOCK FALSE

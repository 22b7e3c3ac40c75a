CONSTANTS
    Sources <- ChunkedSources
    CanFail = TRUE
    MaxCalls = 2
    Debug = TRUE
    ZeroNull = FALSE

SPECIFICATION Spec

INVARIANT NoNullDereference

\* The caller stops once it holds nothing, or after a crash.
CHECK_DEADLOCK FALSE

CONSTANTS
    Sources <- EmptyTextSources
    CanFail = FALSE
    MaxCalls = 2
    Debug = TRUE
    ZeroNull = TRUE

SPECIFICATION Spec

INVARIANT CopyFailsOnlyWithoutMemory

\* The caller stops once it holds nothing, or after a crash.
CHECK_DEADLOCK FALSE

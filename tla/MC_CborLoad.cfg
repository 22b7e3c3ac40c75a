CONSTANTS
    Inputs <- MCInputs
    AllocFaults <- MCAllocFaults
    Stale <- MCStale

SPECIFICATION Spec

INVARIANTS
    TypeOK
    RefcountsExact
    NoLeakOnReturn

PROPERTIES
    LoadImplementsGrammar
    LoadTerminates

\* cbor_load returns: a final state has no successor.
CHECK_DEADLOCK FALSE

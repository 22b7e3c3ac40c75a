CONSTANTS
    Inputs <- MCInputs
    AllocFaults <- MCAllocFaults
    Stale <- MCStale

SPECIFICATION Spec

PROPERTIES
    LoadImplementsGrammar

\* cbor_load returns: a final state has no successor.
CHECK_DEADLOCK FALSE

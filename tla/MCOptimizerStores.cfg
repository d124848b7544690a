SPECIFICATION Spec
CONSTANTS
    Jobs <- StoreJobs
    Inputs <- Whole
    Globals <- MCGlobals
    IntMax <- MCIntMax
    MAX_STEPS <- MCMAX_STEPS
    MAX_CALL_DEPTH <- MCMAX_CALL_DEPTH
INVARIANTS
    ResultsPreserved

SPECIFICATION Spec
CONSTANTS
    Jobs <- BoolJobs
    Inputs <- Whole
    Globals <- MCGlobals
    IntMax <- MCIntMax
    MAX_STEPS <- MCMAX_STEPS
    MAX_CALL_DEPTH <- MCMAX_CALL_DEPTH
INVARIANTS
    ResultsPreserved

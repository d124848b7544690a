CONSTANTS
    IntMax <- MCIntMax
    MAX_STEPS <- MCMAX_STEPS
    MAX_CALL_DEPTH <- MCMAX_CALL_DEPTH
    Inputs <- MCInputs
    Sources <- MCSources
SPECIFICATION Spec
INVARIANTS
    NoUseLeftBehind
    FieldsAreExact

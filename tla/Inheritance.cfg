CONSTANTS
    Traits = {"T", "U"}
    Names = {"f"}
    Unknown = "X"
    MaxLinks = 3
    MAX_CHAIN_DEPTH = 3
SPECIFICATION Spec
INVARIANTS
    RejectsExactlyTheFaulty
    EveryBodyHasItsSymbol
    SuperGoesUp
    TraitCallReachesTheTrait
CHECK_DEADLOCK FALSE

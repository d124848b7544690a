CONSTANTS
    Traits = {"T", "U"}
    Names = {"f"}
    Unknown = "X"
    MaxLinks = 3
    MAX_CHAIN_DEPTH = 3
SPECIFICATION Spec
INVARIANT
    DeclaredNamesKept
CHECK_DEADLOCK FALSE

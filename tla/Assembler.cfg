CONSTANTS
    CodeLabels = 2
    Lines = {0, 1}
    MaxIR = 4
    MaxFunctions = 2
    Filler = 1
    BranchReach = 4
    JumpReach = 5
    BASE_ADDR = 7
SPECIFICATION Spec
INVARIANTS
    JumpsReachTheirTargets
    LinesFollowTheCode
    ReaderAgrees
PROPERTIES
    CompilationEnds
CHECK_DEADLOCK FALSE

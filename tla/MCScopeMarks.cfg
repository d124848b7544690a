SPECIFICATION Spec
CONSTANTS
    Codes <- MCCodes
    Base <- MCBase
    MaxOwned <- MCMaxOwned
INVARIANTS
    CallersKeepTheirs
    RejectsOnlyUnmarked

SPECIFICATION FairSpec
CONSTANTS
    Functions <- MCFunctions
    Types <- MCTypes
INVARIANTS
    NoUndefinedRead
    KnownTypesHold
    RejectsOnlyRealFaults
PROPERTIES
    Decides

CONSTANTS
    VRegs <- MCVRegs
    Pool <- MCPool
    AbiRegs <- MCAbiRegs
    ClobberLists <- MCClobberLists
    NumInstrs = 3

SPECIFICATION Spec
INVARIANTS
    MapsInverse
    NoRegisterLost
PROPERTIES
    EvictsFurthest

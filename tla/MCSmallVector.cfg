SPECIFICATION Spec
CONSTANTS
    a = a
    b = b
    x = x
    y = y
    block1 = block1
    block2 = block2
    block3 = block3
    Junk = Junk
    Vecs <- MCVecs
    Blocks <- MCBlocks
    Value <- MCValue
    Default = x
    MaxSize = 3
    N = 1
SYMMETRY Interchangeable
INVARIANTS
    OneOwner
PROPERTIES
    RefinesVector

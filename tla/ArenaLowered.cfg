SPECIFICATION Spec
CONSTANTS
    m_base = 2
    m_total = 6
    SL_BITS = 1
    RISCV_PAGE_SIZE = 4
    SEQ_PROBE_LIMIT = 1
    InitialCap = 3
    Caps = {3, 5}
    Sizes = {0, 2, 3, 7}
INVARIANT
    ThrowsAreAtomic

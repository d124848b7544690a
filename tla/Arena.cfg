SPECIFICATION Spec
CONSTANTS
    m_base = 2
    m_total = 10
    SL_BITS = 1
    RISCV_PAGE_SIZE = 4
    SEQ_PROBE_LIMIT = 1
    InitialCap = 4
    Caps = {2, 4}
    Sizes = {0, 2, 4, 5, 11}
INVARIANTS
    Valid
    RequestsAreServed
PROPERTY
    ImplementsHeap

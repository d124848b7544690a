CONSTANTS
    Futexes = {1}
    Reasons = {0, 1}
    Bits = {1, 2}
    Values = {0, 2}
    MaxTid = 4
    m_max_threads = 3
SPECIFICATION Spec
INVARIANTS
    OnePlace
PROPERTIES
    WakesInOrder
    SuspendedThreadsRun
CHECK_DEADLOCK FALSE

CONSTANTS
    Functions = {"f", "g"}
    Sites = {1}
    MAX_DEPTH = 2
    Word = 32
    MaxTime = 3
    MaxStack = 3
    MaxCalls = 5
    MaxSuspended = 1
    MaxFaults = 2
SPECIFICATION Spec
INVARIANTS
    StoresStayApart
    BacktraceIsTheStack
    TimesAreExact
    EveryCallIsCounted
CHECK_DEADLOCK FALSE

\* One timeout that expires before the answer comes, nothing lost or duplicated.
SPECIFICATION Spec
CONSTANTS
    MaxLosses = 0
    MaxDups = 0
    Faults = {}
    M = 8
    StdSize = 2
    ErrSize = 1
    RETRIES = 3
    Stray <- NoStray
    SrvAck = 1
    SrvSize = 2
    Chunks = 3
    LastSize = 1
    Debug = FALSE
    CAck = 1
    CSize = 2
    Slow = TRUE
INVARIANTS
    NoFalseSuccess
\* Both programs end: the composition stops.
CHECK_DEADLOCK FALSE

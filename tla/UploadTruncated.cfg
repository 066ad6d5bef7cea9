\* -w 3 against -a 3: a resent window carries the length of its last piece.
SPECIFICATION Spec
CONSTANTS
    MaxLosses = 1
    MaxDups = 0
    Faults = {}
    M = 8
    StdSize = 2
    ErrSize = 1
    RETRIES = 3
    Stray <- NoStray
    CAck = 3
    DataSize = 2
    Chunks = 3
    LastSize = 1
    Debug = FALSE
    SrvAck = 3
    SrvSize = 2
    Slow = FALSE
INVARIANTS
    ServerHasFile
\* Both programs end: the composition stops.
CHECK_DEADLOCK FALSE

\* -w 1 against -a 1: every interleaving of losses, duplicates and early timeouts
\* within the budgets.
SPECIFICATION Spec
CONSTANTS
    MaxLosses = 1
    MaxDups = 1
    Faults = {"open"}
    M = 8
    StdSize = 2
    ErrSize = 1
    RETRIES = 3
    Stray <- NoStray
    CAck = 1
    DataSize = 2
    Chunks = 3
    LastSize = 1
    Debug = FALSE
    SrvAck = 1
    SrvSize = 2
    Slow = TRUE
INVARIANTS
    TypeOK
    InOrder
    ServerHasFile
    AckedIsStored
PROPERTIES
    IsTransfer
\* Both programs end: the composition stops.
CHECK_DEADLOCK FALSE

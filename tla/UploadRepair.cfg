\* More pieces than block numbers (M = 4 for 2^16), delays far below the timeout, up
\* to two losses.  fclose() can fail, which nobody notices.
SPECIFICATION FairSpec
CONSTANTS
    MaxLosses = 2
    MaxDups = 0
    Faults = {"flush"}
    M = 4
    StdSize = 2
    ErrSize = 1
    RETRIES = 3
    Stray <- NoStray
    CAck = 1
    DataSize = 2
    Chunks = 6
    LastSize = 1
    Debug = FALSE
    SrvAck = 1
    SrvSize = 2
    Slow = FALSE
INVARIANTS
    InOrder
PROPERTIES
    LossRepaired
\* Both programs end: the composition stops.
CHECK_DEADLOCK FALSE

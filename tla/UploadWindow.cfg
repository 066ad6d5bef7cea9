\* -w 2 against -a 2, pieces larger than the standard 512 bytes, debug mode, packets
\* of another host, every local failure except a failing flush.
SPECIFICATION FairSpec
CONSTANTS
    MaxLosses = 1
    MaxDups = 0
    Faults = {"send", "open", "disk"}
    M = 8
    StdSize = 2
    ErrSize = 1
    RETRIES = 2
    Stray <- ForeignStray
    CAck = 2
    DataSize = 3
    Chunks = 4
    LastSize = 1
    Debug = TRUE
    SrvAck = 2
    SrvSize = 2
    Slow = TRUE
INVARIANTS
    IInv
    MissingIsKept
    NoFalseSuccess
PROPERTIES
    ClientTerminates
    ChildTerminates
\* Both programs end: the composition stops.
CHECK_DEADLOCK FALSE

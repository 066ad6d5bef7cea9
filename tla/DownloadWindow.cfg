\* -a 2 against -w 2 in debug mode, blocks of 1024 bytes, every local failure, early
\* timeouts, packets of another host.
SPECIFICATION FairSpec
CONSTANTS
    MaxLosses = 0
    MaxDups = 0
    Faults = {"send", "open", "disk", "flush"}
    M = 8
    StdSize = 2
    ErrSize = 1
    RETRIES = 2
    Stray <- ClientStray
    SrvAck = 2
    SrvSize = 3
    Chunks = 5
    LastSize = 1
    Debug = TRUE
    CAck = 2
    CSize = 2
    Slow = TRUE
INVARIANTS
    WindowResent
PROPERTIES
    ClientTerminates
    ChildTerminates
\* Both programs end: the composition stops.
CHECK_DEADLOCK FALSE

\* -w 1 against -a 1, delays far below the timeout, up to two losses.
SPECIFICATION FairSpec
CONSTANTS
    MaxLosses = 2
    MaxDups = 0
    Faults = {}
    M = 9
    StdSize = 2
    ErrSize = 1
    RETRIES = 3
    Stray <- ChildStray
    SrvAck = 1
    SrvSize = 2
    Chunks = 5
    LastSize = 0
    Debug = FALSE
    CAck = 1
    CSize = 2
    Slow = FALSE
INVARIANTS
    IInv
    InOrderUnlessAckLost
    NoFalseSuccess
    ServerKnows
PROPERTIES
    LossRepaired
\* Both programs end: the composition stops.
CHECK_DEADLOCK FALSE

\* One loss, no early timeout, nothing else.
SPECIFICATION FairSpec
CONSTANTS
    MaxLosses = 1
    MaxDups = 0
    Faults = {}
    M = 4
    StdSize = 2
    ErrSize = 1
    RETRIES = 2
    Stray = {}
    Chunks = 2
    LastSize = 1
    MaxBroken = 0
    MAX_RETRY = 3
    MaxEarly = 0
PROPERTY
    PostEnds
CHECK_DEADLOCK FALSE

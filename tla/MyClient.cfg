\* A file of two pieces, two losses, one early timeout, every local failure of the
\* client and one of the server, a datagram of another host, one with a
\* wrong operation code, or one that the daemon takes for malformed.
SPECIFICATION FairSpec
CONSTANTS
    MaxLosses = 2
    MaxDups = 0
    Faults = {"send", "recv", "fork", "open", "disk", "flush"}
    M = 4
    StdSize = 2
    ErrSize = 1
    RETRIES = 2
    Stray <- ForeignOrBad
    Chunks = 2
    LastSize = 1
    MaxBroken = 1
    MAX_RETRY = 2
    MaxEarly = 1
INVARIANTS
    IInv
    InOrder
    UploadedWhole
    UploadKept
PROPERTIES
    OverlookedBesideChild
    ClientEnds
    LossRepaired
CHECK_DEADLOCK FALSE

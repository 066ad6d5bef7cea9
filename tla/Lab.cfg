\* Three hosts, the router and dostalk on the first network, two lines, one
\* refused call.
SPECIFICATION FairSpec
CONSTANTS
    Hosts = {"1.1", "1.3", "2.1"}
    Talkers = {"dostalk"}
    Late = {"1.3"}
    Leavers = {"1.3"}
    MayFail = {"1.3", "router"}
    MaxFailures = 1
    Garbage <- MCGarbage
    Lines <- TypedDigits
    MaxLines = 2
INVARIANTS
    IInv
    OnlyAddresseeShows
    StaysOnItsWay
    SourceIsOnThisNet
    HeardOnce
    GoneOnlyAfterRefusal
PROPERTIES
    SentIsShown
CHECK_DEADLOCK FALSE

\* Two users on two connections; calls do not overlap.
SPECIFICATION FairSpec
CONSTANTS
    a = a
    b = b
    Users <- MCUsers
    Conns <- MCConns
    Ids <- MCIds
    Msgs <- MCMsgs
    Overlap = FALSE
    MaxInputs = 3
INVARIANTS
    IInv
    MailForClaimant
    LoginOfClaimant
    InsertSafe
    ListingInBounds
PROPERTIES
    StoredIsForwarded
\* A server that has ended may stay so.
CHECK_DEADLOCK FALSE

\* The same connections and users; calls overlap, a logout draws no number of a
\* connection, and no exit comes before the message.
SPECIFICATION FairSpec
CONSTANTS
    a = a
    b = b
    Users <- MCUsers
    Conns <- MCConns
    Ids <- MCFreeIds
    Msgs <- MCMsgs
    Overlap = TRUE
    MaxInputs = 2
INVARIANT
    MailForOwner
CHECK_DEADLOCK FALSE

SPECIFICATION FairSpec
CONSTANTS
    c1 = c1
    c2 = c2
    c3 = c3
    c4 = c4
    Client <- FourClients
    MaxDownloads = 2
    Ttl = TRUE
CHECK_DEADLOCK FALSE
INVARIANT CapHolds
PROPERTY ExitsAfterCap

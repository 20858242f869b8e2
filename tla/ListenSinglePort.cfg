SPECIFICATION FairSpec
CONSTANTS
    c1 = c1
    c2 = c2
    c3 = c3
    c4 = c4
    Conn <- ThreeConns
    NoConn = NoConn
    MaxStreams = 1
    MaxPending = 2
    MaxId = 3
    SinglePort = TRUE
    ParkMode = TRUE
CHECK_DEADLOCK FALSE
INVARIANTS
    IInv
    StreamsBounded
    PauseHasWaker
PROPERTIES
    WaitingEnds
    ImplementsService

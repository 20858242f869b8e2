SPECIFICATION Spec
CONSTANTS
    c1 = c1
    c2 = c2
    c3 = c3
    c4 = c4
    Conn <- FourConns
    NoConn = NoConn
    MaxStreams = 2
    MaxPending = 2
    MaxId = 2
    SinglePort = FALSE
    ParkMode = FALSE
SYMMETRY Symmetry4
CHECK_DEADLOCK FALSE
INVARIANTS
    OneTunnel
    TableExact
    PauseEffective
PROPERTIES
    SlotNeverStolen
    NoLostClient

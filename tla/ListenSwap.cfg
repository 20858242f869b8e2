SPECIFICATION Spec
CONSTANTS
    c1 = c1
    c2 = c2
    c3 = c3
    c4 = c4
    Conn <- ThreeConns
    NoConn = NoConn
    MaxStreams = 1
    MaxPending = 1
    MaxId = 3
    SinglePort = FALSE
    ParkMode = TRUE
SYMMETRY Symmetry3
CHECK_DEADLOCK FALSE
INVARIANT StreamsOnTunnel

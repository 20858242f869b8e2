SPECIFICATION MCSpec
CONSTANTS
    p1 = p1
    p2 = p2
    c1 = c1
    c2 = c2
    t1 = t1
    Client <- Clients
    Plugin <- Shims
    Tick <- Ticks
    Launches <- AllLaunches
    Requests <- AllRequests
    Commands <- AllCommands
    Numeral <- NumberTexts
    Listed <- ListTexts
    Refers <- RefTexts
    Spelling <- Ids
    Endpoint <- Urls
    HeaderOf <- Headers
    Files <- ReadableFiles
    Mistyped <- Typos
CHECK_DEADLOCK FALSE
INVARIANTS
    TrailComplete
    Precedence
    CallersKnown
    DropIn
    RightToken
    
PROPERTIES
    StopEnds

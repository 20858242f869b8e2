SPECIFICATION FairSpec
CONSTANTS
    p1 = p1
    p2 = p2
    Process <- TwoProcesses
    Refused <- OneRefused
    NoFile = NoFile
    Partial = Partial
    Skew = 1
    Life = 3
    MaxTime = 3
CHECK_DEADLOCK FALSE
INVARIANT FileWhole
PROPERTIES
    PublishesOwn
    TokenPrinted

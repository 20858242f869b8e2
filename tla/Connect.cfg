SPECIFICATION FairSpec
CONSTANTS
    Step = 1
    MaxDelay = 3
    SinglePort = TRUE
    MaxCuts = 2
    MaxOthers = 2
    MaxEarly = 1
INVARIANTS
    NoTimerLeak
PROPERTY Recovers

SPECIFICATION FairSpec
CONSTANTS
    MaxChunks = 2
    MaxBeforeLoss = 1
    HighWaterMark = 1
CHECK_DEADLOCK FALSE
INVARIANTS
    Conserved
    PauseIsLifted
    TablesAgree
PROPERTIES
    FinIsTruthful
    StreamEnds
    PauseEnds

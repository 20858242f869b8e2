SPECIFICATION Spec
CONSTANTS
    Byte <- Bytes
    MaxLength = 2
    MaxFrames = 3
CHECK_DEADLOCK FALSE
INVARIANTS
    FramesIntact
    NothingHeld

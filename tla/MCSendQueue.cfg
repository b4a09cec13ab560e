SPECIFICATION Spec
CONSTANTS
    Radix = 4
    SendQueueLen = 13
    MaxRepeaters = 1
    Info = {2, 3}
    MaxFrames = 3
INVARIANTS
    TypeOK
    FramesIntact
    NothingLost

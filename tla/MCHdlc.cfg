SPECIFICATION Spec
CONSTANTS
    Byte <- MCByte
    MaxLen = 3
    DataLen = 2
    ControlN = 10
    MaxNoise = 3
    MaxStops = 1
INVARIANTS
    TypeOK
    FrameFound
    FitsBlock

SPECIFICATION FairSpec
CONSTANTS
    Radix = 4
    Frame <- MCFrame
    SendQueueLen = 6
    Chunk <- TxChunk
    PipeLen = 3
    Silence = Silence
    TxDelayFlags = 1
    SlotTime = 1
    AxHang = {0, 2}
    CalTimeout = 1
    FullDuplex = FALSE
    UsbConsole = FALSE
    MaxFrames = 2
    MaxCmds = 2
    MaxStall = 1
    MaxLate = 2
INVARIANTS
    TypeOK
    NothingCut
    NothingStranded
    CalibrateModeAgrees
    HeardInOrder
PROPERTIES
    ListenBeforeKey
    EveryFrameHeard
    PttReleased
    CalibrateEnds

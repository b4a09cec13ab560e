SPECIFICATION Spec
CONSTANTS
    Radix = 4
    Frame <- MCFrame
    SendQueueLen = 8
    Chunk <- TxChunk
    PipeLen = 3
    Silence = Silence
    TxDelayFlags = 2
    SlotTime = 1
    AxHang = {1}
    CalTimeout = 2
    FullDuplex = FALSE
    UsbConsole = TRUE
    MaxFrames = 2
    MaxCmds = 2
    MaxStall = 1
    MaxLate = 1
INVARIANTS
    CalibrateModeAgrees

SPECIFICATION Spec
CONSTANTS
    Char = {"a", "b"}
    CmdBufLen = 1
    Slots = 2
    KissPacketLen = 2
    KissTimeout = 2
    Keys <- MCKeys
    KissFrames <- MCKissFrames
    MaxStored = 3
    MaxStoredKiss = 0
    MaxStoredEsc = 1
INVARIANTS
    TypeOK
    HistoryShown
    KissWhole

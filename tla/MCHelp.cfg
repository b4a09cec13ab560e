SPECIFICATION Spec
CONSTANTS
    Char = {"a", "b"}
    QueueSize = 1
    FifoSize = 2
    Packet = 2
    MaxDone = 1
    Text <- MCText
    Warning <- MCWarning
    NewLine <- MCNewLine
    OkText <- MCOkText
    MaxBeyond = 3
    Echo <- MCEcho
INVARIANTS
    TypeOK
    InOrder
    Awake
    HelpWhole

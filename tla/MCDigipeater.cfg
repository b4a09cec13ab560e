SPECIFICATION DigiSpec
CONSTANTS
    Station = {"A", "B", "C"}
    Calls <- MCCalls
    Hears <- MCHears
    Frames <- MCFrames
    MAX_DIGIPEATER = 4
    QueueLen = 2
    MaxFrames = 4
INVARIANT HopsInOrder
PROPERTY StormDies
CHECK_DEADLOCK FALSE

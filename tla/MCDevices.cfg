CONSTANTS
    CYCLE = 496
    BLOCK = 100
    TCYC_HRTCNT = 15
    HRTCNT_BOUND = 13
    Hrtcnt = {1, 2, 3, 13}
    SetAt = {0, 55, 98, 99, 199, 380, 495}
    MaxCounts = 40
    Task = {w, r}
    Char = {"x"}
    Received <- MCReceived
    Strings <- MCStrings
    Lengths = {2}
    Controls <- MCControls
    BUFSZ = 3
    FIFO = 1
    important = important
    detail = detail
    Message = {important, detail}
    Priority = {"emerg", "info"}
    priority <- MCPriority
    logBufferSize = 3
    LOST = LOST
    MaxLost = 4
SYMMETRY Symmetry
SPECIFICATION DevicesSpec
INVARIANTS HrtInTime SerialOK
PROPERTIES HrtSteady StreamsKept

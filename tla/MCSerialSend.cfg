CONSTANTS
    CYCLE = 496
    BLOCK = 100
    TCYC_HRTCNT = 15
    HRTCNT_BOUND = 13
    Hrtcnt = {1}
    SetAt = {0}
    MaxCounts = 0
    Task = {w}
    Char = {"x"}
    Received <- MCFlow
    Strings <- MCStrings
    Lengths = {}
    Controls = {}
    BUFSZ = 3
    FIFO = 1
    important = important
    detail = detail
    Message = {important, detail}
    Priority = {"emerg", "info"}
    priority <- MCPriority
    logBufferSize = 1
    LOST = LOST
    MaxLost = 0
SPECIFICATION PortSpec
PROPERTIES SendGoesOn

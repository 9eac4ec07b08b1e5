SPECIFICATION LoggerSpec
CONSTANTS
    w = w
    a = a
    b = b
    h = h
    Word = {w}
    Pid = {a, b}
    Host = {h}
    Process = {a, b}
    HostOf <- MCHostOf
    Connected = {a}
    Id = {1}
    Input <- MCInput
    MAX_ENTRIES = 2
INVARIANTS
    LoggerTypeOK
    SameNames
    CountsCoverFile
PROPERTIES
    AppendOnlyOnceOpened
CHECK_DEADLOCK FALSE

SPECIFICATION FairSpec
CONSTANTS
    w = w
    u = u
    l = l
    k = k
    s = s
    h = h
    g = g
    Word = {w}
    Pid = {u, l, k, s}
    Host = {h, g}
    Process = {k, s}
    HostOf <- MCHostOf
    Connected = {k, s}
    Id <- MCId
    Input <- MCInputJson
    MAX_ENTRIES = 2
    Server = s
    BufferSize = 8
    maxRetries = 1
    MaxSubmit <- MCSubmitTwo
    MaxCopies = 0
    Faults = {}
PROPERTIES
    EveryRequestAnswered
CHECK_DEADLOCK FALSE

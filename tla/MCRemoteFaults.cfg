SPECIFICATION Spec
CONSTANTS
    w = w
    u = u
    l = l
    k = k
    s = s
    h = h
    g = g
    Word = {w}
    Pid = {u, l, k, s}
    Host = {h, g}
    Process = {l, s}
    HostOf <- MCHostOf
    Connected = {l, s}
    Id <- MCId
    Input <- MCInputAll
    MAX_ENTRIES = 2
    Server = s
    BufferSize = 8
    maxRetries = 1
    MaxSubmit <- MCSubmitThree
    MaxCopies = 0
    Faults = {"disk", "init", "socket", "recv", "loss", "interrupt", "signal", "early"}
INVARIANTS
    TypeOK
    Provenance
    OneCopy
    BlockedIsExplained
    AckedIsAccountedFor
    FileOrder
    ServerNeverForwards
CHECK_DEADLOCK FALSE

SPECIFICATION FairSpec
CONSTANTS
    w = w
    u = u
    l = l
    k = k
    s = s
    h = h
    g = g
    Word = {w}
    Pid = {u, l, k, s}
    Host = {h, g}
    Process = {l, k, s}
    HostOf <- MCHostOf
    Connected = {l, k, s}
    Id <- MCId
    Input <- MCInputPlain
    MAX_ENTRIES = 3
    Server = s
    BufferSize = 8
    maxRetries = 1
    MaxSubmit <- MCSubmitTwo
    MaxCopies = 1
    Faults = {"loss", "early"}
INVARIANTS
    Provenance
    OneCopy
    BlockedIsExplained
    AckedIsAccountedFor
    FileOrder
PROPERTIES
    StoresEntries
    EveryInstructionHandled
CHECK_DEADLOCK FALSE

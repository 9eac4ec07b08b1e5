SPECIFICATION FairSpec
CONSTANTS
    c1 = c1
    c2 = c2
    c3 = c3
    Client = {c1, c2, c3}
    Texts <- MCTextsRemote
    MaxFd = 4
    MAX_EVENTS = 2
    Backlog = 1
    BufferSize = 2
    Faults = {}
INVARIANTS
    DescriptorsOK
    NoLostEdge
PROPERTIES
    AcceptedIsHandled
CHECK_DEADLOCK FALSE

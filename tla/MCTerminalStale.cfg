SPECIFICATION Spec
CONSTANTS
    c1 = c1
    c2 = c2
    c3 = c3
    Client = {c1, c2}
    Texts <- MCTextsRemote
    MaxFd = 5
    MAX_EVENTS = 16
    Backlog = 10
    BufferSize = 2
    Faults = {}
PROPERTIES
    ClosedAfterClient
CHECK_DEADLOCK FALSE

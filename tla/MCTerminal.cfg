SPECIFICATION Spec
CONSTANTS
    c1 = c1
    c2 = c2
    c3 = c3
    Client = {c1, c2}
    Texts <- MCTextsAll
    MaxFd = 4
    MAX_EVENTS = 16
    Backlog = 10
    BufferSize = 3
    Faults = {"start", "accept", "recv", "request", "signal"}
SYMMETRY MCSymmetry
INVARIANTS
    TypeOK
    DescriptorsOK
    NoLostEdge
    NothingOverlooked
    ClientOrder
CHECK_DEADLOCK FALSE

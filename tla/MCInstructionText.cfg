SPECIFICATION Spec
CONSTANTS
    Char <- MCChar
    Text <- MCText
    BufferSize = 9
    MaxSent = 3
INVARIANTS
    TypeOK
    TakenForWhatItIs
    NothingMadeUp
CHECK_DEADLOCK FALSE

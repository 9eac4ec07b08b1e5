SPECIFICATION Spec
CONSTANTS
    Byte <- MCByte
    BufferSize = 16
    MaxLength = 5
INVARIANTS
    TypeOK
    WithinBuffer
    NothingLostOrTwice
    ThrowsUnlessUTF8
    StaysOneString
PROPERTIES
    CompletesCharacters
CHECK_DEADLOCK FALSE

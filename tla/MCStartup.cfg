SPECIFICATION FairSpec
CONSTANTS
    Launch = {a, b}
    None = None
    max_attempts = 2
    Faults = {"fork", "setup", "socket", "unlink", "init", "accept", "file", "signal"}
INVARIANTS
    TypeOK
    LeadsToTheLiving
    RestartsCleanly
PROPERTIES
    NoClientLeftBehind
CHECK_DEADLOCK FALSE

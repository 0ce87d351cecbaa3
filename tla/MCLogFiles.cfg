CONSTANTS
    MaxSize = 2
    MaxFiles = 1
    MaxAge = 1
    MaxLines = 3
    MaxWriters = 2
    MaxClock = 2
    MaxSetbacks = 1
SPECIFICATION Spec
INVARIANTS LinesKept ArchivesBounded
CHECK_DEADLOCK FALSE

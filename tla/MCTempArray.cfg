CONSTANTS
    ArenaSize = 5
    Alignment = 2
    MaxRequest = 2
    MaxMarks = 2
    Values = {a, b}
    MinCapacity = 1
    MaxCount = 3
SPECIFICATION StorageSpec
INVARIANTS TypeOK BlocksDisjoint BlocksZeroed ArrayContentsKept
PROPERTIES ImplementsList
\* An assertion may fail.
CHECK_DEADLOCK FALSE

CONSTANTS
    ArenaSize = 4
    Alignment = 2
    MaxRequest = 2
SPECIFICATION Spec
INVARIANT MarksAccepted

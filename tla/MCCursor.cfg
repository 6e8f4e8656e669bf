CONSTANTS
    NULL = NULL
    ScreenEnd = 6
    MaxCount = 3
    Rects <- MCRects
SPECIFICATION Spec
INVARIANTS TypeOK VisibleAsWanted LockedInside TurnFollowsMovement

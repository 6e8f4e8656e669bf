CONSTANTS
    NULL = NULL
    Cascades = 4
    ShadowSize = 9
    Sizes = {0, 1, 2}
    BloomPasses = 10
SPECIFICATION FairProgramSpec
INVARIANTS PassesReadThisFrame TargetsFitWindow PresentsFrame EndsAccounted
PROPERTIES ReleasedTargetsUnbound NothingUsedUnmade ProgramEnds
\* The program ends.
CHECK_DEADLOCK FALSE

CONSTANTS
    fixed_update_dt = 2
    Dts = {1, 2, 5}
    Gravities = {1, 2}
    JumpVelocities = {2, 4}
    HeadYs <- MCHeadYs
    MaxFall = 7
SPECIFICATION FairSpec
INVARIANTS TypeOK TimeConserved StandsOnGround JumpsDoNotAddUp
PROPERTIES JumpEnds

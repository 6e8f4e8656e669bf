CONSTANTS
    Alt = Alt  w = w  right = right
    Keys = {Alt, w}
    Buttons = {right}
    MaxPresses <- MCMaxPresses
    MaxQueue = 2
SPECIFICATION Spec
INVARIANTS StatesFollowMessages PressedOncePerPress EdgesReported

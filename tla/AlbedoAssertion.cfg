CONSTANTS
    t1 = t1  t2 = t2  house = house  cube = cube
    TextureNames = {t1, t2}
    MeshNames = {house, cube}
    NoName = NoName
    White = White
    NULL = NULL
    MaxObjects = 12
    Slots <- MCSlots
    Submeshes <- MCSubmeshes
SPECIFICATION Spec
INVARIANT AlbedoPresent
CHECK_DEADLOCK FALSE

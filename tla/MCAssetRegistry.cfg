CONSTANTS
    t1 = t1  t2 = t2  house = house  cube = cube
    TextureNames = {t1, t2}
    MeshNames = {house, cube}
    NoName = NoName
    White = White
    NULL = NULL
    MaxObjects = 12
    Slots <- MCSlots
    Submeshes <- MCSubmeshes
SPECIFICATION Spec
INVARIANTS TypeOK LiveObjectsAccounted TexturesShared ListedMeshesComplete
PROPERTIES CacheStable
\* Once both destructors have run there is nothing left to call.
CHECK_DEADLOCK FALSE

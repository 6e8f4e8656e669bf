CONSTANTS
    Meshes = {m1, m2}
    MaxNodes = 2
    MaxPrimitives = 2
    NULL = NULL
    Unset = Unset
SPECIFICATION FileSpec
INVARIANTS TypeOK MeshFollowsFile SavedMeshLoadsBack PathsKept
\* The last call returns, or an assertion fails.
CHECK_DEADLOCK FALSE

CONSTANTS
    k1 = k1  k2 = k2  k3 = k3  k4 = k4 
    v1 = v1  v2 = v2
    Keys = {k1, k2, k3, k4}
    Values = {v1, v2}
    NULL = NULL
    Empty = Empty
    InitialCapacity = 2
    MaxCount = 6
    Hash <- MCHash
SPECIFICATION FairSpec
INVARIANTS TypeOK TableSound FreeBucketForAdd RehashComplete
PROPERTIES CallsReturn ImplementsMap

SPECIFICATION MCSpec
CONSTANTS
    Deques = {o1, o2}
    Blocks = {b1, b2, b3}
    NULL = NULL
    Vals = {v1, v2}
    Raw = Raw
    Moved = Moved
    BlockCapacity = 2
    kMaxBlocks = 2
    SvoCapacity = 1
    SmallCapacity = 2
    FirstDynamic = 2
    Requests = {1, 3}
SYMMETRY Names
INVARIANTS StorageOwned ObjectsOwned
PROPERTIES PointersStable ImplementSequences

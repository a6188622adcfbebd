SPECIFICATION Spec
CONSTANTS
    Maps = {m1, m2}
    Keys = {1, 2}
    Vals = {v1}
    Hash <- MCHash
    H2 <- MCH2
    kGroupSize = 2
    FirstCapacity = 4
    Capacities = {4, 8}
    Requests = {3, 4, 7}
    Blocks = {b1, b2, b3}
    NULL = NULL
INVARIANTS OwnedOnce
PROPERTIES ImplementsMap

SPECIFICATION Spec
CONSTANTS
    Maps = {m1}
    Keys = {1, 2, 3, 4}
    Vals = {v1, v2}
    Hash <- MCHash
    H2 <- MCH2
    kGroupSize = 2
    FirstCapacity = 4
    Capacities = {4, 8}
    Requests = {3, 4, 7}
    Blocks = {b1, b2}
    NULL = NULL
INVARIANTS LoadLimit EmptySlotRemains Findable
PROPERTIES ImplementsMap ReserveMakesRoom

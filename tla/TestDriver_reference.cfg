SPECIFICATION DriverSpec
CONSTANTS
    MAX_TEST_THREADS = 1
    Requested = 1
    PCores = {0, 2}
    ActiveProcs = {1}
    Iterations = 1
    Tests = 1
    Tiers = 1
    MasterReferenceMayFail = TRUE
    LogMax = 4
    LineLengths = {1, 3}
INVARIANTS UnloadedSafely

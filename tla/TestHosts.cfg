SPECIFICATION HostSpec
CONSTANTS
    MAX_TEST_THREADS = 2
    Requested = 3
    PCores = {0, 2, 3}
    ActiveProcs = {0, 1}
    Iterations = 1
    Tests = 1
    Tiers = 2
    MasterReferenceMayFail = FALSE
    LogMax = 4
    LineLengths = {1, 3}
INVARIANTS NoUseAfterFree NothingLeft FailureReported LeftSafely LogBufferValid
PROPERTY HarnessEnds

SPECIFICATION FairSpec
CONSTANTS
    Addr = {a1, a2, a3}
    NULL = NULL
    CharAlign = 4
    SlabChars = 8
    MaxLength = 9
    Lengths = {0, 3, 4, 9, 10}
INVARIANTS Chained NoUseAfterFree BuffersSafe
PROPERTIES RevertRestores ImplementsArena LoopsEnd

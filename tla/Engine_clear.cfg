SPECIFICATION Spec
CONSTANTS
    Patterns <- FewPatterns
    Texts <- AllTexts
    Scopes = {"SCOPE_PATH_SEGMENT"}
    CaseModes = {FALSE}
    Hash <- MCHash
    FilterBits = 1024
    BlockCapacity = 512
    MaxBlocks = 256
    SvoCapacity = 2
    FirstTable = 16
    MaxCalls = 2
    PatternChars = {}
    TextChars = {"a", "b"}
    MaxPattern = 0
    MaxText = 2
INVARIANT ClearReleasesPool

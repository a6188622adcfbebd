SPECIFICATION Spec
CONSTANTS
    Patterns <- FewPatterns
    Texts <- AllTexts
    Scopes = {"SCOPE_PATH_SEGMENT"}
    CaseModes = {FALSE}
    Hash <- MCHash
    FilterBits = 2
    BlockCapacity = 2
    MaxBlocks = 1
    SvoCapacity = 1
    FirstTable = 1
    MaxCalls = 3
    PatternChars = {}
    TextChars = {"a", "b"}
    MaxPattern = 0
    MaxText = 2
INVARIANT QuotaMeansLimit

SPECIFICATION Spec
CONSTANTS
    Patterns <- AllPatterns
    Texts <- AllTexts
    Scopes = {"SCOPE_DEFAULT", "SCOPE_PATH_SEGMENT"}
    CaseModes = {TRUE, FALSE}
    Hash <- MCHash
    FilterBits = 2
    BlockCapacity = 1
    MaxBlocks = 1
    SvoCapacity = 2
    FirstTable = 16
    MaxCalls = 1
    PatternChars <- SyntaxPatternChars
    TextChars <- SyntaxTextChars
    MaxPattern = 5
    MaxText = 3
INVARIANTS SearchExact MatcherContract

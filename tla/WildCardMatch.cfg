SPECIFICATION MCSpec
CONSTANTS
    Patterns <- MCPatterns
    Texts <- MCTexts
    CaseModes = {TRUE, FALSE}
    MaxSyntax = 4
    MaxPath = 5
INVARIANTS ReadsInBounds LengthsExact Correct NoMatchLost
PROPERTY Terminates
CHECK_DEADLOCK FALSE

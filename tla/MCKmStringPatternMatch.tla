------------------------ MODULE MCKmStringPatternMatch ------------------------
(* Small instances of the engine.  The hash collides on purpose: prefixes  *)
(* with the same number of letters "a" and lengths equal modulo 2 share a  *)
(* bucket, and with two filter bits some absent hashes pass the filter.    *)
EXTENDS KmStringPatternMatch

CONSTANTS PatternChars, TextChars, MaxPattern, MaxText

SyntaxPatternChars == Special \cup {"a"}
SyntaxTextChars    == {"a", "A", kStar, Separator}

MCHash(s) == (2 * Len(s) + Cardinality({i \in DOMAIN s : s[i] \in {"a", "A"}})) % 4

\* Every pattern up to the bound.
AllPatterns == BoundedSeq(PatternChars, MaxPattern)
AllTexts    == BoundedSeq(TextChars, MaxText)

\* A few patterns that meet in the index: the empty pattern, literals of the
\* same and of different lengths with colliding hashes, one prefix shared by
\* a literal and a wildcard pattern, and a pattern of the slow path.
FewPatterns == { << >>, << "a", "b" >>, << "b", "a" >>, << "a", "*" >>, << "*", "b" >> }
===============================================================================

--------------------------- MODULE MCWildCardMatch ---------------------------
(* Small instances of WildCardMatch: every wildcard suffix and every text  *)
(* up to the bounds over two pairs of alphabets.                           *)
EXTENDS WildCardMatch, SequencesExt, TLC

CONSTANTS MaxSyntax, MaxPath   \* lengths of patterns and texts

\* Escapes and a separator; the text's letter matches if case is ignored.
SyntaxPatterns ==
    {x \in BoundedSeq(Special \cup {"A", Separator}, MaxSyntax) : IsWildSuffix(x)}
SyntaxTexts == BoundedSeq({"a", kStar, Separator}, MaxSyntax)

\* Longer patterns and texts, without escapes.
PathPatterns ==
    {x \in BoundedSeq(Wild \cup {"A", Separator}, MaxPath) : IsWildSuffix(x)}
PathTexts == BoundedSeq({"A", "B", Separator}, MaxPath)

MCPatterns == SyntaxPatterns \cup PathPatterns
MCTexts    == SyntaxTexts \cup PathTexts

MCInit ==
    /\ \/ pat \in SyntaxPatterns /\ txt \in SyntaxTexts /\ ci \in CaseModes
       \/ pat \in PathPatterns /\ txt \in PathTexts /\ ci = FALSE
    /\ Init

MCSpec == MCInit /\ [][Next]_vars /\ WF_vars(Next)
=============================================================================

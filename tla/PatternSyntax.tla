---------------------------- MODULE PatternSyntax ----------------------------
(***************************************************************************)
(* The pattern language of KmStringPatternMatch.h: the two wildcards, the  *)
(* escape character, the path separator, upper-casing, and, as the         *)
(* reference every component is compared with, what it means for a text to *)
(* match a raw pattern.                                                    *)
(*                                                                         *)
(* Strings are sequences of one-character TLA+ strings.  The code's        *)
(* offsets start at 0, so the character at offset i of s is At(s, i).      *)
(***************************************************************************)
EXTENDS Naturals, Sequences, FiniteSets

kStar     == "*"
kQuestion == "?"
kEscape   == "|"
Separator == "\\"

SCOPE_DEFAULT      == "SCOPE_DEFAULT"
SCOPE_PATH_SEGMENT == "SCOPE_PATH_SEGMENT"
WILD_CARD_SCOPE    == {SCOPE_DEFAULT, SCOPE_PATH_SEGMENT}

At(s, i) == s[i + 1]

IsPathSeparator(c) == c = Separator

\* The pairs of letters the runs use; every other character maps to itself.
CaseMap == [a |-> "A", b |-> "B"]

ASSUME UpperAssumption == \A c \in DOMAIN CaseMap : CaseMap[c] \in STRING

ToUpperFast(c) == IF c \in DOMAIN CaseMap THEN CaseMap[c] ELSE c

\* ToUpperFast on every character, when the engine ignores case.
Fold(ci, s) == IF ci THEN [i \in DOMAIN s |-> ToUpperFast(s[i])] ELSE s

Special == {kStar, kQuestion, kEscape}
Wild    == {kStar, kQuestion}

\* The escape character at offset i takes the next character literally only
\* if that one is special and lies before `end`; otherwise it is a literal.
IsEscapeAt(pat, i, end) ==
    At(pat, i) = kEscape /\ i + 1 < end /\ At(pat, i + 1) \in Special

\* Offsets the token at i takes: 2 for an escape pair, 1 for anything else.
WidthAt(pat, i, end) == IF IsEscapeAt(pat, i, end) THEN 2 ELSE 1

\* The literal the token at i stands for (i is not a wildcard).
LiteralAt(pat, i, end) ==
    IF IsEscapeAt(pat, i, end) THEN At(pat, i + 1) ELSE At(pat, i)

-----------------------------------------------------------------------------
(***************************************************************************)
(* The reference.  A raw pattern is a sequence of tokens; a text matches   *)
(* when it can be cut into one piece per token: a literal takes itself, a  *)
(* question mark takes one character, a star any number of them, and in    *)
(* the scope SCOPE_PATH_SEGMENT neither wildcard takes a path separator.   *)
(***************************************************************************)
TokenAt(pat, i) ==
    [wild |-> At(pat, i) \in Wild, char |-> LiteralAt(pat, i, Len(pat))]

\* The tokens from every offset of the pattern on.
TokensFrom(pat) ==
    LET from[i \in 0 .. Len(pat)] ==
          IF i = Len(pat) THEN << >>
          ELSE << TokenAt(pat, i) >> \o from[i + WidthAt(pat, i, Len(pat))]
    IN  from

Tokens(pat) == TokensFrom(pat)[0]

StarToken == [wild |-> TRUE, char |-> kStar]

\* A wildcard may take the character c.
Takes(scope, c) == scope = SCOPE_DEFAULT \/ ~IsPathSeparator(c)

\* The offsets of the text where a match of the token may start, if what
\* follows the token may start at the offsets in `next`.
StartsBefore(tok, next, text, scope) ==
    IF tok = StarToken
    THEN {j \in 0 .. Len(text) :
            \E k \in next : j <= k /\ \A l \in j .. k - 1 : Takes(scope, At(text, l))}
    ELSE {j \in 0 .. Len(text) - 1 :
            /\ j + 1 \in next
            /\ IF tok.wild THEN Takes(scope, At(text, j)) ELSE At(text, j) = tok.char}

\* For every i, the offsets from which on the tokens i, i + 1, ... (counted
\* from 0) match all of the rest of the text.
StartsOf(toks, text, scope) ==
    LET starts[i \in 0 .. Len(toks)] ==
          IF i = Len(toks) THEN {Len(text)}
          ELSE StartsBefore(At(toks, i), starts[i + 1], text, scope)
    IN  starts

GlobTokens(toks, text, scope) == 0 \in StartsOf(toks, text, scope)[0]

Glob(pat, text, scope, ci) ==
    GlobTokens(Tokens(Fold(ci, pat)), Fold(ci, text), scope)

\* Characters a text needs at least: one per token that is not a star.
NeededBy(toks) == Cardinality({k \in DOMAIN toks : toks[k] # StarToken})
MinLength(pat) == NeededBy(Tokens(pat))

=============================================================================

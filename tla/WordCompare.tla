------------------------------ MODULE WordCompare ------------------------------
(***************************************************************************)
(* EvaluatePrefixMatch and EvaluateTailMatch: a literal of the pattern is  *)
(* compared with the start or the end of the text in whole words, the rest *)
(* with one word that overlaps the previous one, and a literal shorter     *)
(* than a word character by character.  The literal was folded when the    *)
(* pattern was added, the text is folded here.                             *)
(***************************************************************************)
EXTENDS CharWords

CONSTANTS
    Chars,         \* the characters of texts and literals
    MaxText        \* bound on the length of a text

VARIABLES
    lit, txt, IsCaseInsensitive,
    base,          \* offset in the text: 0, or where the tail begins
    i,             \* turns of the loop
    result         \* "run", "equal" or "different"

args == << lit, txt, IsCaseInsensitive, base >>
vars == << args, i, result >>

\* Bound: the literals that differ from x in one place at most, where a
\* comparison returns.
AlmostEqual(x) ==
    {x} \cup {[x EXCEPT ![k] = c] : k \in DOMAIN x,
                                   c \in Chars \cup {ToUpperFast(a) : a \in Chars}}

EvaluatePrefixMatch == base = 0
EvaluateTailMatch == base = Len(txt) - Len(lit)

Init ==
    /\ \E n \in 0 .. MaxText : txt \in [1 .. n -> Chars]
    /\ IsCaseInsensitive \in BOOLEAN
    /\ base \in 0 .. Len(txt)
    /\ \E end \in base .. Len(txt) :
          lit \in AlmostEqual(Fold(IsCaseInsensitive, SubSeq(txt, base + 1, end)))
    /\ lit = Fold(IsCaseInsensitive, lit)
    /\ EvaluatePrefixMatch \/ EvaluateTailMatch
    /\ i = 0 /\ result = "run"

SameChar(k) ==
    At(lit, k) = IF IsCaseInsensitive THEN ToUpperFast(At(txt, base + k))
                 ELSE At(txt, base + k)

\* The words that start at offset k.
SameWord(k) ==
    LET wPat == Load(lit, k)
        wTxt == Load(txt, base + k)
    IN  IF ~IsCaseInsensitive THEN wPat = wTxt
        ELSE IF IsAsciiSWAR(wTxt) THEN wPat = ToUpperSWAR(wTxt)
        ELSE \A j \in k .. k + kCharsPerBlock - 1 : SameChar(j)

HasWords == Len(lit) >= kCharsPerBlock
chunks   == Len(lit) \div kCharsPerBlock

Return(v) == result' = v /\ UNCHANGED << args, i >>
Turn(same) ==
    \/ same /\ i' = i + 1 /\ UNCHANGED << args, result >>
    \/ ~same /\ Return("different")

CompareWord ==
    result = "run" /\ HasWords /\ i < chunks /\ Turn(SameWord(i * kCharsPerBlock))

\* Where the word begins that ends with the literal.
OverlapFromChunk(n) == (n \div kCharsPerBlock - 1) * kCharsPerBlock   \* mutant
OverlapFrom(n) == n - kCharsPerBlock

CompareRest ==
    /\ result = "run" /\ HasWords /\ i = chunks
    /\ Len(lit) % kCharsPerBlock # 0
    /\ Return(IF SameWord(OverlapFrom(Len(lit))) THEN "equal" ELSE "different")

CompareChar == result = "run" /\ ~HasWords /\ i < Len(lit) /\ Turn(SameChar(i))

AllCompared == IF HasWords THEN i = chunks /\ Len(lit) % kCharsPerBlock = 0
               ELSE i = Len(lit)
Finish == result = "run" /\ AllCompared /\ Return("equal")

Returned == result # "run" /\ UNCHANGED vars

Next == CompareWord \/ CompareRest \/ CompareChar \/ Finish \/ Returned

Spec == Init /\ [][Next]_vars

-----------------------------------------------------------------------------
(***************************************************************************)
(* The comparison by words answers whether every character of the literal  *)
(* equals the folded character of the text: characters that are not ASCII, *)
(* in the words or in the overlapping rest, are neither skipped nor folded *)
(* twice (EvaluatePrefixMatch, EvaluateTailMatch).                         *)
(***************************************************************************)
CompareExact ==
    LET part == SubSeq(txt, base + 1, base + Len(lit))
    IN  result # "run" =>
            (result = "equal" <=> Fold(IsCaseInsensitive, part) = lit)

=============================================================================

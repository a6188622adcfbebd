---------------------------- MODULE WildCardMatch ----------------------------
(***************************************************************************)
(* KmStringPatternMatch::WildCardMatch: the non-recursive matcher for the  *)
(* wildcard part of a pattern.  One action is one turn of the code's main  *)
(* loop.  The cursors p and s are offsets into the pattern and the text;   *)
(* after a mismatch the code goes back to the last star only, and it uses  *)
(* the number of characters the rest of the pattern still needs (`rem`) to *)
(* bound its scans and to give up early.                                   *)
(***************************************************************************)
EXTENDS PatternSyntax, Integers, FiniteSetsExt

CONSTANTS
    Patterns,  \* wildcard suffixes given to the matcher
    Texts,     \* texts given to the matcher
    CaseModes  \* the values of the template parameter IsCaseInsensitive

ASSUME StringsAssumption ==
    Patterns \subseteq Seq(STRING) /\ Texts \subseteq Seq(STRING)
ASSUME ModesAssumption == CaseModes \subseteq BOOLEAN

None == -1     \* a null pointer, or no fast-forward target

VARIABLES
    pat, txt, scope, ci,   \* the arguments of the call
    p, s,                  \* cursors into pat and txt
    rem,                   \* remainingMinLength
    lastStarP, lastStarS,  \* where to resume after a mismatch
    starRem,               \* starRemainingMinLength
    starTarget,            \* literal after the star, << >> if none
    result                 \* "run" until the call returns

args == << pat, txt, scope, ci >>
vars == << args, p, s, rem, lastStarP, lastStarS, starRem, starTarget, result >>

PatternEnd == Len(pat)
StringEnd  == Len(txt)

\* A suffix cut out by AddPattern starts and ends with an unescaped wildcard.
IsWildSuffix(x) ==
    LET toks == Tokens(x)
    IN  x # << >> /\ toks[1].wild /\ toks[Len(toks)].wild

\* The text's character at offset i as the matcher compares it.
TextChar(i) == IF ci THEN ToUpperFast(At(txt, i)) ELSE At(txt, i)

Blocked(i) == scope = SCOPE_PATH_SEGMENT /\ IsPathSeparator(At(txt, i))

\* minWildLen, as EvaluatePatternSuffix passes it.
MinWildLenShort(x) == IF MinLength(x) = 0 THEN 0 ELSE MinLength(x) - 1 \* mutant
MinWildLen(x) == MinLength(x)

(***************************************************************************)
(* The fast-forward scan: the first offset from `from` on that holds the   *)
(* target, looking only where at least r characters are left, and never    *)
(* past a path separator in the segment scope.  None when there is none.   *)
(***************************************************************************)
FastForwardSeparatorFirst(from, target, r) ==    \* mutant
    LET hits == {k \in from .. StringEnd - r :
                    /\ TextChar(k) = target
                    /\ \A j \in from .. k : ~Blocked(j)}
    IN  IF hits = {} THEN None ELSE Min(hits)

FastForward(from, target, r) ==
    LET SearchEnd == StringEnd - (r - 1)
        hits == {k \in from .. SearchEnd - 1 :
                    /\ TextChar(k) = target
                    /\ \A j \in from .. k - 1 : ~Blocked(j)}
    IN  IF hits = {} THEN None ELSE Min(hits)

Init ==
    /\ pat \in Patterns
    /\ txt \in Texts
    /\ scope \in WILD_CARD_SCOPE
    /\ ci \in CaseModes
    /\ IsWildSuffix(pat) /\ Fold(ci, pat) = pat /\ MinWildLen(pat) <= Len(txt)
    /\ p = 0 /\ s = 0
    /\ rem = MinWildLen(pat)
    /\ lastStarP = None /\ lastStarS = None
    /\ starRem = 0 /\ starTarget = << >>
    /\ result = "run"

Return(v) ==
    /\ result' = v
    /\ UNCHANGED << args, p, s, rem, lastStarP, lastStarS, starRem, starTarget >>

InLoop  == result = "run" /\ s < StringEnd
Enough  == StringEnd - s >= rem
AtStar  == InLoop /\ Enough /\ p < PatternEnd /\ At(pat, p) = kStar

\* First offset after the run of stars at p.
AfterStars == Min({q \in p .. PatternEnd :
                     q = PatternEnd \/ At(pat, q) # kStar})

\* A star that ends the pattern takes the rest of the text.
TrailingStar ==
    /\ AtStar /\ AfterStars = PatternEnd
    /\ Return(IF \E i \in s .. StringEnd - 1 : Blocked(i)
              THEN "false" ELSE "true")

\* A star followed by something: remember it, and unless a question mark
\* follows, move to the next place where the literal after it occurs.
StarTarget(q) ==
    IF At(pat, q) = kQuestion THEN << >>
    ELSE << LiteralAt(pat, q, PatternEnd) >>

Star ==
    /\ AtStar /\ AfterStars < PatternEnd
    /\ LET q      == AfterStars
           target == StarTarget(q)
           pos    == IF target = << >> THEN s
                     ELSE FastForward(s, target[1], rem)
       IN  IF pos = None THEN Return("false")
           ELSE /\ p' = q /\ s' = pos
                /\ lastStarP' = q /\ lastStarS' = pos
                /\ starRem' = rem /\ starTarget' = target
                /\ UNCHANGED << args, rem, result >>

\* Does the token at p take the text's character at s?
TokenMatches ==
    /\ p < PatternEnd
    /\ CASE At(pat, p) = kStar     -> FALSE
         [] At(pat, p) = kQuestion -> ~Blocked(s)
         [] OTHER -> LiteralAt(pat, p, PatternEnd) = TextChar(s)

Advance ==
    /\ InLoop /\ Enough /\ TokenMatches
    /\ p' = p + WidthAt(pat, p, PatternEnd)
    /\ s' = s + 1
    /\ rem' = rem - 1
    /\ UNCHANGED << args, lastStarP, lastStarS, starRem, starTarget, result >>

Mismatch == InLoop /\ (~Enough \/ (~AtStar /\ ~TokenMatches))

\* HandleMismatch without a star to go back to.
Fail == Mismatch /\ lastStarP = None /\ Return("false")

\* HandleMismatch: the last star takes more text and matching resumes at
\* `from` or where the literal after the star occurs next, unless the star
\* would swallow a separator or too little text is left.
ResumeAt(from, blocked, newRem) ==
    /\ Mismatch /\ lastStarP # None
    /\ LET pos == IF starTarget = << >> THEN from
                  ELSE FastForward(from, starTarget[1], starRem)
       IN  IF blocked \/ StringEnd - from < starRem \/ pos = None
           THEN Return("false")
           ELSE /\ p' = lastStarP /\ s' = pos /\ lastStarS' = pos
                /\ rem' = newRem
                /\ UNCHANGED << args, lastStarP, starRem, starTarget, result >>

BacktrackKeepsRem    == ResumeAt(lastStarS + 1, Blocked(lastStarS), rem)     \* mutant
BacktrackInPlace     == ResumeAt(lastStarS, Blocked(lastStarS), starRem)     \* mutant
BacktrackUnscoped    == ResumeAt(lastStarS + 1, FALSE, starRem)              \* mutant

Backtrack == ResumeAt(lastStarS + 1, Blocked(lastStarS), starRem)

\* The text is used up: only stars may be left in the pattern.
Finish ==
    /\ result = "run" /\ s >= StringEnd
    /\ Return(IF \A i \in p .. PatternEnd - 1 : At(pat, i) = kStar
              THEN "true" ELSE "false")

Next == TrailingStar \/ Star \/ Advance \/ Fail \/ Backtrack \/ Finish

Spec == Init /\ [][Next]_vars /\ WF_vars(Next)

-----------------------------------------------------------------------------
Returned == result # "run"
Rest(i, j) == GlobTokens(Tokens(SubSeq(pat, i + 1, PatternEnd)),
                         Fold(ci, SubSeq(txt, j + 1, StringEnd)), scope)

TypeOK ==
    /\ scope \in WILD_CARD_SCOPE /\ ci \in BOOLEAN
    /\ p \in 0 .. PatternEnd /\ s \in 0 .. StringEnd
    /\ rem \in 0 .. PatternEnd /\ starRem \in 0 .. PatternEnd
    /\ lastStarP \in {None} \cup (0 .. PatternEnd)
    /\ lastStarS \in {None} \cup (0 .. StringEnd)
    /\ result \in {"run", "true", "false"}

\* Every read is inside its buffer and no unsigned subtraction wraps: the
\* cursors and counters stay in their ranges, a scan
\* starts only where the rest of the pattern needs a character (otherwise
\* StringEnd - (rem - 1) lies past the text), and the character re-read at
\* lastStarS on a mismatch is in the text.
ReadsInBounds ==
    /\ TypeOK
    /\ ~Returned =>
         /\ AtStar /\ AfterStars < PatternEnd /\ StarTarget(AfterStars) # << >>
              => rem >= 1
         /\ lastStarP # None =>
              /\ Mismatch => lastStarS < StringEnd
              /\ starTarget # << >> => starRem >= 1

\* The two length counters are exactly what the rest of the pattern needs
\* from the cursor and from the remembered star: a count too large loses
\* matches, one too small lets a scan leave the text.
LengthsExact ==
    ~Returned =>
      /\ rem = MinLength(SubSeq(pat, p + 1, PatternEnd))
      /\ lastStarP # None =>
           starRem = MinLength(SubSeq(pat, lastStarP + 1, PatternEnd))

\* Keeping only the last star loses no match: the call's answer is what the
\* cursors, or a later resumption at the last star, can still find.
NoMatchLost ==
    ~Returned =>
      (Rest(0, 0) <=>
         \/ Rest(p, s)
         \/ /\ lastStarP # None
            /\ \E k \in lastStarS + 1 .. StringEnd :
                 /\ \A j \in lastStarS .. k - 1 : ~Blocked(j)
                 /\ Rest(lastStarP, k))

\* The call returns what the reference says.
Correct == Returned => ((result = "true") = Glob(pat, txt, scope, ci))

\* Every call returns.
Terminates == <>Returned

=============================================================================

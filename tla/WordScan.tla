------------------------------- MODULE WordScan -------------------------------
(***************************************************************************)
(* The fastForward scan of WildCardMatch: from the cursor s it looks for   *)
(* the first character equal to the target, a word at a time while a whole *)
(* word lies before SearchEnd and the build allows it, and character by    *)
(* character otherwise.  In the segment scope a separator ends the scan.   *)
(***************************************************************************)
EXTENDS CharWords

CONSTANTS
    Chars,        \* the characters of the texts
    MaxText,      \* bound on the length of a text
    Targets,      \* literals that can follow a star
    MaxNeeded     \* bound on remainingMinLength

VARIABLES
    txt, target,
    IsCaseInsensitive, LimitWildScope,   \* template parameters
    SearchEnd,                           \* offset, from remainingMinLength
    s,                                   \* cursor
    result                               \* "run", "found" or "none"

args == << txt, target, IsCaseInsensitive, LimitWildScope, SearchEnd >>
vars == << args, s, result >>

Init ==
    /\ \E n \in 1 .. MaxText : txt \in [1 .. n -> Chars]
    /\ IsCaseInsensitive \in BOOLEAN /\ LimitWildScope \in BOOLEAN
    /\ target \in {c \in Targets : IsCaseInsensitive => ToUpperFast(c) = c}
    /\ \E remainingMinLength \in 1 .. MaxNeeded :
          /\ remainingMinLength <= Len(txt)
          /\ SearchEnd = Len(txt) - (remainingMinLength - 1)
    /\ s = 0 /\ result = "run"

checkChar(i) ==
    (IF IsCaseInsensitive THEN ToUpperFast(At(txt, i)) ELSE At(txt, i)) = target
Blocked(i) == LimitWildScope /\ IsPathSeparator(At(txt, i))

Found(i) == s' = i /\ result' = "found" /\ UNCHANGED args
NotFound == result' = "none" /\ UNCHANGED << args, s >>
GoOn(n)  == s' = s + n /\ UNCHANGED << args, result >>

-----------------------------------------------------------------------------
(***************************************************************************)
(* Scalar code on the n characters from s on: the target is tested before  *)
(* the separator.                                                          *)
(***************************************************************************)
ScanChars(n) ==
    LET stops == {i \in s .. s + n - 1 : checkChar(i) \/ Blocked(i)}
        first == Min(stops)
    IN  \/ stops = {} /\ GoOn(n)
        \/ stops # {} /\ checkChar(first) /\ Found(first)
        \/ stops # {} /\ ~checkChar(first) /\ NotFound

UsesWords == CharBits = 8 \/ IsCaseInsensitive
InBlocks == UsesWords /\ s + kCharsPerBlock <= SearchEnd
Unrolled == ~UsesWords /\ s + 3 < SearchEnd

bUseSwar == IsCaseInsensitive => IsAsciiSWAR(Load(txt, s))
Word == IF IsCaseInsensitive THEN ToUpperSWAR(Load(txt, s)) ELSE Load(txt, s)

hasMatch == EqualLanes(Word, Splat(Code(target)))
hasSep   == IF LimitWildScope THEN EqualLanes(Word, Splat(kSep)) ELSE Zero
combined == WOr(hasMatch, hasSep)

SkipWord ==
    result = "run" /\ InBlocks /\ bUseSwar /\ combined = Zero /\ GoOn(kCharsPerBlock)

DecideInWord ==
    /\ result = "run" /\ InBlocks /\ bUseSwar /\ combined # Zero
    /\ IF hasMatch[LowestLane(combined) + 1] # 0
       THEN Found(s + LowestLane(combined))
       ELSE NotFound

ScanWord == result = "run" /\ InBlocks /\ ~bUseSwar /\ ScanChars(kCharsPerBlock)
ScanFour == result = "run" /\ Unrolled /\ ScanChars(4)
ScanTail == result = "run" /\ ~InBlocks /\ ~Unrolled /\ s < SearchEnd /\ ScanChars(1)
GiveUp   == result = "run" /\ s >= SearchEnd /\ NotFound

Returned == result # "run" /\ UNCHANGED vars

Next ==
    \/ SkipWord \/ DecideInWord \/ ScanWord \/ ScanFour \/ ScanTail \/ GiveUp
    \/ Returned

Spec == Init /\ [][Next]_vars

-----------------------------------------------------------------------------
(***************************************************************************)
(* The scan finds what a character by character reading finds: it stops at *)
(* the first target at which enough text is left and before which there is *)
(* no separator in scope, and finds nothing only if there is none.  Carries*)
(* between lanes, characters that are not ASCII, and both hits in one word *)
(* make no difference (fastForward, also relied on by the matcher's model).*)
(***************************************************************************)
ScanExact ==
    LET hits == {i \in 0 .. SearchEnd - 1 :
                    checkChar(i) /\ \A j \in 0 .. i - 1 : ~Blocked(j)}
    IN  /\ result = "found" => hits # {} /\ s = Min(hits)
        /\ result = "none" => hits = {}

=============================================================================

---------------------------- MODULE PatternParser ----------------------------
(***************************************************************************)
(* How AddPattern takes a raw pattern apart: an unescaped literal prefix,  *)
(* the wildcard suffix (raw, from the first wildcard up to the last), the  *)
(* unescaped literal tail after the last wildcard, and the lengths and the *)
(* probe character that let Search reject a text early.                    *)
(***************************************************************************)
EXTENDS PatternSyntax, FiniteSetsExt

\* Offset of the first unescaped wildcard, Len(pat) if there is none.
PrefixRawLen(pat) ==
    LET stop[i \in 0 .. Len(pat)] ==
          IF i = Len(pat) \/ At(pat, i) \in Wild THEN i
          ELSE stop[i + WidthAt(pat, i, Len(pat))]
    IN  stop[0]

\* The literals that the offsets from .. end - 1 of x stand for.
Unescape(x, from, end) ==
    LET lits[i \in from .. end] ==
          IF i = end THEN << >>
          ELSE << LiteralAt(x, i, end) >> \o lits[i + WidthAt(x, i, end)]
    IN  lits[from]

Prefix(pat) == Unescape(pat, 0, PrefixRawLen(pat))

WildPart(pat) == SubSeq(pat, PrefixRawLen(pat) + 1, Len(pat))

\* One character for every token of the wildcard part that is not a star.
SuffixMinLength(w) ==
    LET need[i \in 0 .. Len(w)] ==
          IF i = Len(w) THEN 0
          ELSE (IF At(w, i) = kStar THEN 0 ELSE 1)
               + need[i + WidthAt(w, i, Len(w))]
    IN  need[0]

LastWildcardEndRaw(w) ==    \* mutant: takes escaped wildcards for wildcards
    Max({0} \cup {i + 1 : i \in {k \in 0 .. Len(w) - 1 : At(w, k) \in Wild}})

\* Offset just after the last unescaped wildcard of the wildcard part.
LastWildcardEnd(w) ==
    LET last[i \in 0 .. Len(w)] ==
          IF i = Len(w) THEN 0
          ELSE Max({last[i + WidthAt(w, i, Len(w))],
                    IF At(w, i) \in Wild THEN i + 1 ELSE 0})
    IN  last[0]

TailAnchor(w) == Unescape(w, LastWildcardEnd(w), Len(w))

FirstLiteralCharRaw(w) ==    \* mutant: probes for the escape character
    LET end == LastWildcardEnd(w)
        j   == Min({i \in 0 .. end : i = end \/ At(w, i) \notin Wild})
    IN  IF j < end /\ \A c \in Wild : \E i \in 0 .. j - 1 : At(w, i) = c
        THEN << At(w, j) >> ELSE << >>

\* The first literal of a suffix, as << char >>, when both a star and a
\* question mark come before it; << >> (no probe) otherwise.
FirstLiteralChar(w) ==
    LET end == LastWildcardEnd(w)
        j   == Min({i \in 0 .. end : i = end \/ At(w, i) \notin Wild})
    IN  IF j < end /\ \A c \in Wild : \E i \in 0 .. j - 1 : At(w, i) = c
        THEN << LiteralAt(w, j, end) >> ELSE << >>

=============================================================================

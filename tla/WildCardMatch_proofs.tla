------------------------ MODULE WildCardMatch_proofs ------------------------
(***************************************************************************)
(* Proofs about the matcher: for every wildcard suffix, every text, both   *)
(* scopes and both case modes, a call reads inside its buffers and returns *)
(* what the pattern language says.                                         *)
(***************************************************************************)
EXTENDS WildCardMatch, PatternParser_proofs

(* The arguments of a call.                                                *)

ArgsOK ==
    /\ pat \in Strings /\ txt \in Strings
    /\ scope \in WILD_CARD_SCOPE /\ ci \in BOOLEAN
    /\ Fold(ci, pat) = pat

S(i)      == StartsAt(pat, i, Fold(ci, txt), scope)
Need(i)   == NeedAt(pat, i)
Width(i)  == WidthAt(pat, i, PatternEnd)
Literal(i) == LiteralAt(pat, i, PatternEnd)
Open(j, k) == \A l \in j .. k - 1 : ~Blocked(l)

LEMMA FoldFacts ==
    ASSUME ArgsOK
    PROVE  /\ Len(Fold(ci, txt)) = StringEnd /\ StringEnd \in Nat
           /\ \A j \in 0 .. StringEnd - 1 :
                /\ At(Fold(ci, txt), j) = TextChar(j)
                /\ Takes(scope, TextChar(j)) <=> ~Blocked(j)
<1>1. /\ txt \in Seq(STRING) /\ StringEnd \in Nat /\ StringEnd = Len(txt)
      /\ DOMAIN txt = 1 .. StringEnd
  BY DEF ArgsOK, Strings, StringEnd
<1>2. \A c : ToUpperFast(c) = Separator <=> c = Separator
  <2>1. DOMAIN CaseMap = {"a", "b"} /\ CaseMap["a"] = "A" /\ CaseMap["b"] = "B"
    BY DEF CaseMap
  <2> QED BY <2>1 DEF ToUpperFast, Separator
<1>3. \A j : Takes(scope, TextChar(j)) <=> ~Blocked(j)
  BY <1>2 DEF ArgsOK, WILD_CARD_SCOPE, SCOPE_DEFAULT, SCOPE_PATH_SEGMENT, Takes, Blocked,
              IsPathSeparator, TextChar
<1>4. Len(Fold(ci, txt)) = StringEnd
  <2>1. CASE ci
    <3>1. Fold(ci, txt) = [i \in 1 .. StringEnd |-> ToUpperFast(txt[i])]
      BY <1>1, <2>1 DEF Fold
    <3>2. DOMAIN Fold(ci, txt) = 1 .. StringEnd
      BY <3>1
    <3> QED BY <1>1, <3>1
  <2>2. CASE ~ci
    BY <1>1, <2>2 DEF Fold
  <2> QED BY <2>1, <2>2
<1>5. ASSUME NEW j \in 0 .. StringEnd - 1 PROVE At(Fold(ci, txt), j) = TextChar(j)
  <2>1. j + 1 \in DOMAIN txt
    BY <1>1
  <2> QED BY <2>1 DEF At, Fold, TextChar
<1> QED BY <1>1, <1>3, <1>4, <1>5

\* The pattern language, offset by offset, in the matcher's own terms.
LEMMA MatchFacts ==
    ASSUME ArgsOK
    PROVE  /\ S(PatternEnd) = {StringEnd} /\ Need(PatternEnd) = 0
           /\ PatternEnd \in Nat /\ StringEnd \in Nat
           /\ \A i \in 0 .. PatternEnd - 1 :
                /\ Width(i) \in {1, 2} /\ i + Width(i) \in i + 1 .. PatternEnd
                /\ At(pat, i) \in Wild => Width(i) = 1
                /\ Need(i + Width(i)) \in Nat
                /\ Need(i) = Need(i + Width(i)) + (IF At(pat, i) = kStar THEN 0 ELSE 1)
                /\ At(pat, i) = kStar => \A j : j \in S(i) <=>
                     j \in 0 .. StringEnd /\ \E k \in S(i + 1) : j <= k /\ Open(j, k)
                /\ At(pat, i) = kQuestion => \A j : j \in S(i) <=>
                     j \in 0 .. StringEnd - 1 /\ j + 1 \in S(i + 1) /\ ~Blocked(j)
                /\ At(pat, i) \notin Wild => \A j : j \in S(i) <=>
                     /\ j \in 0 .. StringEnd - 1 /\ j + 1 \in S(i + Width(i))
                     /\ Literal(i) = TextChar(j)
<1>1. pat \in Strings /\ PatternEnd = Len(pat) /\ PatternEnd \in Nat
  BY DEF ArgsOK, Strings, PatternEnd
<1>2. PICK text : text = Fold(ci, txt)
  OBVIOUS
<1>3. PICK n \in Nat : n = StringEnd /\ n = Len(text)
  BY <1>2, FoldFacts
<1>4. \A j \in 0 .. n - 1 : At(text, j) = TextChar(j) /\ (Takes(scope, At(text, j)) <=> ~Blocked(j))
  BY <1>2, <1>3, FoldFacts
<1>5. S(PatternEnd) = {StringEnd} /\ Need(PatternEnd) = 0
  BY <1>1, <1>2, <1>3, PatternEnds DEF S, Need
<1>6. ASSUME NEW i \in 0 .. PatternEnd - 1
      PROVE  /\ Width(i) = W(pat, i) /\ Width(i) \in {1, 2}
             /\ i + Width(i) \in i + 1 .. PatternEnd
             /\ At(pat, i) \in Wild => Width(i) = 1 /\ Literal(i) = At(pat, i)
             /\ Need(i + Width(i)) \in Nat
             /\ Need(i) = Need(i + Width(i)) + (IF At(pat, i) = kStar THEN 0 ELSE 1)
             /\ S(i) = StartsBefore(TokenAt(pat, i), S(i + Width(i)), text, scope)
             /\ TokenAt(pat, i) = [wild |-> At(pat, i) \in Wild, char |-> Literal(i)]
  BY <1>1, <1>2, TokenFacts, PatternStep DEF Width, W, S, Need, Literal, TokenAt
<1>7. ASSUME NEW i \in 0 .. PatternEnd - 1, At(pat, i) = kStar, NEW j
      PROVE  j \in S(i) <=>
               j \in 0 .. StringEnd /\ \E k \in S(i + 1) : j <= k /\ Open(j, k)
  <2>1. Width(i) = 1 /\ TokenAt(pat, i) = StarToken
    BY <1>6, <1>7 DEF StarToken, Wild
  <2>2. S(i) = {l \in 0 .. n : \E k \in S(i + 1) :
                   l <= k /\ \A m \in l .. k - 1 : Takes(scope, At(text, m))}
    BY <1>3, <1>6, <2>1 DEF StartsBefore
  <2>3. S(i + 1) \subseteq 0 .. n
    <3>1. CASE i + 1 = PatternEnd
      BY <1>3, <1>5, <3>1
    <3>2. CASE i + 1 # PatternEnd
      <4>1. i + 1 \in 0 .. PatternEnd - 1
        BY <1>1, <3>2
      <4>2. PICK R, tok : S(i + 1) = StartsBefore(tok, R, text, scope)
        BY <1>6, <4>1
      <4> QED BY <1>3, <4>2 DEF StartsBefore
    <3> QED BY <3>1, <3>2
  <2>4. ASSUME NEW l \in 0 .. n, NEW k \in S(i + 1)
        PROVE  (\A m \in l .. k - 1 : Takes(scope, At(text, m))) <=> Open(l, k)
    <3>1. \A m \in l .. k - 1 : m \in 0 .. n - 1
      BY <2>3
    <3> QED BY <1>4, <3>1 DEF Open
  <2> QED BY <1>3, <2>2, <2>4
<1>8. ASSUME NEW i \in 0 .. PatternEnd - 1, At(pat, i) = kQuestion, NEW j
      PROVE  j \in S(i) <=>
               j \in 0 .. StringEnd - 1 /\ j + 1 \in S(i + 1) /\ ~Blocked(j)
  <2>0. Width(i) = 1 /\ At(pat, i) \in Wild /\ Literal(i) = kQuestion
    BY <1>6, <1>8 DEF Wild
  <2>1. /\ Width(i) = 1 /\ TokenAt(pat, i) # StarToken /\ TokenAt(pat, i).wild
    <3>1. TokenAt(pat, i).wild = (At(pat, i) \in Wild) /\ TokenAt(pat, i).char = Literal(i)
      BY TokenFields DEF Literal, PatternEnd
    <3>2. StarToken.char = kStar /\ kStar # kQuestion
      BY DEF StarToken, kStar, kQuestion
    <3> QED BY <2>0, <3>1, <3>2, Zenon
  <2>2. S(i) = {l \in 0 .. n - 1 : l + 1 \in S(i + 1) /\ Takes(scope, At(text, l))}
    BY <1>3, <1>6, <2>1 DEF StartsBefore
  <2> QED BY <1>3, <1>4, <2>2
<1>9. ASSUME NEW i \in 0 .. PatternEnd - 1, At(pat, i) \notin Wild, NEW j
      PROVE  j \in S(i) <=>
               /\ j \in 0 .. StringEnd - 1 /\ j + 1 \in S(i + Width(i))
               /\ Literal(i) = TextChar(j)
  <2>1. /\ TokenAt(pat, i) # StarToken /\ ~TokenAt(pat, i).wild
        /\ TokenAt(pat, i).char = Literal(i)
    <3>1. TokenAt(pat, i).wild = (At(pat, i) \in Wild) /\ TokenAt(pat, i).char = Literal(i)
      BY TokenFields DEF Literal, PatternEnd
    <3>2. StarToken.wild
      BY DEF StarToken
    <3> QED BY <1>9, <3>1, <3>2, Zenon
  <2>2. S(i) = {l \in 0 .. n - 1 : l + 1 \in S(i + Width(i)) /\ At(text, l) = Literal(i)}
    BY <1>3, <1>6, <2>1 DEF StartsBefore
  <2> QED BY <1>3, <1>4, <2>2
<1> QED BY <1>1, <1>3, <1>5, <1>6, <1>7, <1>8, <1>9

\* A match needs at least the characters that are counted.
LEMMA NeedBound ==
    ASSUME ArgsOK
    PROVE  \A i \in 0 .. PatternEnd :
             /\ S(i) \subseteq 0 .. StringEnd
             /\ Need(i) \in 0 .. PatternEnd - i
             /\ \A j \in S(i) : StringEnd - j >= Need(i)
             /\ i < PatternEnd /\ At(pat, i) # kStar => Need(i) >= 1
<1>1. PICK n \in Nat, m \in Nat : n = PatternEnd /\ m = StringEnd
  BY MatchFacts
<1>2. S(n) = {m} /\ Need(n) = 0
  BY <1>1, MatchFacts
<1>3. \A i \in 0 .. n - 1 :
        /\ i + Width(i) \in i + 1 .. n
        /\ At(pat, i) \in Wild => Width(i) = 1
        /\ Need(i + Width(i)) \in Nat
        /\ Need(i) = Need(i + Width(i)) + (IF At(pat, i) = kStar THEN 0 ELSE 1)
  BY <1>1, MatchFacts
<1> DEFINE Bounded(i) == /\ S(i) \subseteq 0 .. m
                         /\ Need(i) \in 0 .. n - i
                         /\ \A j \in S(i) : m - j >= Need(i)
           G == {i \in 0 .. n : Bounded(i)}
<1>4. ASSUME NEW i \in 0 .. n, \A k \in i + 1 .. n : k \in G
      PROVE  i \in G
  <2>1. CASE i = n
    BY <1>2, <2>1
  <2>2. CASE i # n
    <3>1. PICK q \in i + 1 .. n : q = i + Width(i)
      BY <1>3, <2>2
    <3>2. Bounded(q)
      BY <1>4, <3>1
    <3>i. i \in 0 .. n - 1
      BY <2>2
    <3>3. CASE At(pat, i) = kStar
      <4>1. q = i + 1
        BY <1>3, <3>1, <3>3, <3>i DEF Wild
      <4>2. \A j : j \in S(i) <=> j \in 0 .. m /\ \E k \in S(q) : j <= k /\ Open(j, k)
        BY <1>1, <3>3, <3>i, <4>1, MatchFacts
      <4>3. Need(i) = Need(q)
        BY <1>3, <3>1, <3>3, <3>i
      <4>4. S(i) \subseteq 0 .. m
        BY <4>2
      <4>5. \A j \in S(i) : m - j >= Need(i)
        BY <3>2, <4>2, <4>3
      <4>6. Need(i) \in 0 .. n - i
        BY <3>2, <3>i, <4>3
      <4> QED BY <4>4, <4>5, <4>6
    <3>4. CASE At(pat, i) # kStar
      <4>1. \A j : j \in S(i) => j \in 0 .. m - 1 /\ j + 1 \in S(q)
        <5>1. CASE At(pat, i) = kQuestion
          <6>1. q = i + 1
            BY <1>3, <3>1, <3>i, <5>1 DEF Wild
          <6> QED BY <1>1, <3>i, <5>1, <6>1, MatchFacts
        <5>2. CASE At(pat, i) # kQuestion
          <6>1. At(pat, i) \notin Wild
            BY <3>4, <5>2 DEF Wild
          <6> QED BY <1>1, <3>1, <3>i, <6>1, MatchFacts
        <5> QED BY <5>1, <5>2
      <4>2. Need(i) = Need(q) + 1
        BY <1>3, <3>1, <3>4, <3>i
      <4>3. S(i) \subseteq 0 .. m
        BY <4>1
      <4>4. \A j \in S(i) : m - j >= Need(i)
        BY <3>2, <4>1, <4>2
      <4>5. Need(i) \in 0 .. n - i
        BY <3>1, <3>2, <3>i, <4>2
      <4> QED BY <4>3, <4>4, <4>5
    <3> QED BY <3>3, <3>4
  <2> QED BY <2>1, <2>2
<1>5. \A i \in 0 .. n : i \in G
  <2>1. \A i \in 0 .. n : (\A k \in i + 1 .. n : k \in G) => i \in G
    BY <1>4
  <2> HIDE DEF G
  <2> QED BY <2>1, FromTheEnd
<1>6. ASSUME NEW i \in 0 .. n, i < n, At(pat, i) # kStar PROVE Need(i) >= 1
  BY <1>3, <1>6
<1> QED BY <1>1, <1>5, <1>6

\* A run of stars is one star.
LEMMA StarRun ==
    ASSUME ArgsOK, NEW q \in 0 .. PatternEnd, NEW i \in 0 .. PatternEnd, i < q,
           \A l \in i .. q - 1 : At(pat, l) = kStar
    PROVE  /\ Need(i) = Need(q)
           /\ \A j : j \in S(i) <=>
                j \in 0 .. StringEnd /\ \E k \in S(q) : j <= k /\ Open(j, k)
<1>1. PICK n \in Nat, m \in Nat : n = PatternEnd /\ m = StringEnd
  BY MatchFacts
<1> DEFINE Stars(h) == \A l \in h .. q - 1 : At(pat, l) = kStar
           One(h) == /\ Need(h) = Need(q)
                     /\ \A j : j \in S(h) <=>
                          j \in 0 .. m /\ \E k \in S(q) : j <= k /\ Open(j, k)
           G == {h \in 0 .. n : h < q /\ Stars(h) => One(h)}
<1>2. ASSUME NEW h \in 0 .. n, \A k \in h + 1 .. n : k \in G
      PROVE  h \in G
  <2>1. SUFFICES ASSUME h < q, Stars(h) PROVE One(h)
    OBVIOUS
  <2>2. h \in 0 .. n - 1 /\ At(pat, h) = kStar
    BY <1>1, <2>1
  <2>3. Need(h) = Need(h + 1) /\ Need(h + 1) \in Nat
    <3>1. Width(h) = 1
      BY <1>1, <2>2, MatchFacts DEF Wild
    <3>2. /\ Need(h + Width(h)) \in Nat
          /\ Need(h) = Need(h + Width(h)) + (IF At(pat, h) = kStar THEN 0 ELSE 1)
      BY <1>1, <2>2, MatchFacts
    <3> QED BY <2>2, <3>1, <3>2
  <2>4. \A j : j \in S(h) <=> j \in 0 .. m /\ \E k \in S(h + 1) : j <= k /\ Open(j, k)
    BY <1>1, <2>2, MatchFacts
  <2>5. CASE h + 1 = q
    BY <2>3, <2>4, <2>5
  <2>6. CASE h + 1 # q
    <3>1. h + 1 \in h + 1 .. n /\ h + 1 < q /\ Stars(h + 1)
      BY <1>1, <2>1, <2>6
    <3>2. One(h + 1)
      BY <1>2, <3>1
    <3>3. S(q) \subseteq 0 .. m
      BY <1>1, NeedBound
    <3>4. ASSUME NEW j, j \in S(h)
          PROVE  j \in 0 .. m /\ \E k \in S(q) : j <= k /\ Open(j, k)
      <4>1. j \in 0 .. m /\ \E k \in S(h + 1) : j <= k /\ Open(j, k)
        BY <2>4, <3>4
      <4>2. PICK k \in S(h + 1) : j <= k /\ Open(j, k)
        BY <4>1
      <4>3. k \in 0 .. m /\ \E k1 \in S(q) : k <= k1 /\ Open(k, k1)
        BY <3>2
      <4>4. PICK k1 \in S(q) : k <= k1 /\ Open(k, k1)
        BY <4>3
      <4>5. k1 \in 0 .. m
        BY <3>3
      <4>6. j <= k1 /\ Open(j, k1)
        BY <4>1, <4>2, <4>3, <4>4, <4>5 DEF Open
      <4> QED BY <4>1, <4>6
    <3>5. ASSUME NEW j, j \in 0 .. m, NEW k \in S(q), j <= k, Open(j, k)
          PROVE  j \in S(h)
      <4>1. j \in S(h + 1)
        BY <3>2, <3>5
      <4>2. Open(j, j) /\ j <= j
        BY <3>5 DEF Open
      <4> QED BY <2>4, <3>5, <4>1, <4>2
    <3>6. \A j : j \in S(h) <=> j \in 0 .. m /\ \E k \in S(q) : j <= k /\ Open(j, k)
      BY <3>4, <3>5
    <3> QED BY <2>3, <3>2, <3>6
  <2> QED BY <2>5, <2>6
<1>3. \A h \in 0 .. n : h \in G
  <2>1. \A h \in 0 .. n : (\A k \in h + 1 .. n : k \in G) => h \in G
    BY <1>2
  <2> HIDE DEF G
  <2> QED BY <2>1, FromTheEnd
<1>4. One(i)
  BY <1>1, <1>3
<1> QED BY <1>1, <1>4

\* Where the run of stars that starts at offset i ends.
StarsEnd(i) == Min({q \in i .. PatternEnd : q = PatternEnd \/ At(pat, q) # kStar})

LEMMA StarsEndFacts ==
    ASSUME ArgsOK, NEW i \in 0 .. PatternEnd
    PROVE  /\ StarsEnd(i) \in i .. PatternEnd
           /\ StarsEnd(i) < PatternEnd => At(pat, StarsEnd(i)) # kStar
           /\ \A l \in i .. StarsEnd(i) - 1 : At(pat, l) = kStar
           /\ i < PatternEnd /\ At(pat, i) = kStar => i < StarsEnd(i)
<1>1. PICK n \in Nat : n = PatternEnd
  BY MatchFacts
<1> DEFINE T == {q \in i .. n : q = n \/ At(pat, q) # kStar}
<1>2. PICK e : e = StarsEnd(i)
  OBVIOUS
<1>3. T \subseteq Nat /\ n \in T
  BY <1>1
<1>4. e = Min(T)
  BY <1>1, <1>2 DEF StarsEnd
<1>5. e \in T /\ \A m \in T : e <= m
  <2> HIDE DEF T
  <2> QED BY <1>3, <1>4, MinFacts
<1>6. ASSUME NEW l \in i .. e - 1 PROVE At(pat, l) = kStar
  <2>1. l \in i .. n /\ l < e
    BY <1>5
  <2> QED BY <1>5, <2>1
<1> QED BY <1>1, <1>2, <1>5, <1>6

\* At the end of the text only stars may be left.
LEMMA OnlyStars ==
    ASSUME ArgsOK, NEW i \in 0 .. PatternEnd
    PROVE  (StringEnd \in S(i)) <=> \A l \in i .. PatternEnd - 1 : At(pat, l) = kStar
<1>1. PICK n \in Nat, m \in Nat : n = PatternEnd /\ m = StringEnd
  BY MatchFacts
<1>2. S(n) = {m} /\ Need(n) = 0
  BY <1>1, MatchFacts
<1>3. PICK e \in i .. n : e = StarsEnd(i)
  BY <1>1, StarsEndFacts
<1>4. /\ e < n => At(pat, e) # kStar
      /\ \A l \in i .. e - 1 : At(pat, l) = kStar
  BY <1>1, <1>3, StarsEndFacts
<1>5. CASE e = n
  <2>1. CASE i = n
    BY <1>1, <1>2, <2>1
  <2>2. CASE i < n
    <3>0. n \in 0 .. PatternEnd /\ \A l \in i .. n - 1 : At(pat, l) = kStar
      BY <1>1, <1>4, <1>5
    <3>1. \A j : j \in S(i) <=>
            j \in 0 .. m /\ \E k \in S(n) : j <= k /\ Open(j, k)
      BY <1>1, <2>2, <3>0, StarRun
    <3>2. Open(m, m)
      BY DEF Open
    <3>3. m \in S(i)
      BY <1>2, <3>1, <3>2
    <3> QED BY <1>1, <1>4, <1>5, <3>3
  <2> QED BY <1>1, <2>1, <2>2
<1>6. CASE e < n
  <2>1. Need(e) >= 1 /\ Need(e) \in Nat
    BY <1>1, <1>4, <1>6, NeedBound
  <2>2. Need(i) = Need(e)
    <3>1. CASE i = e
      BY <3>1
    <3>2. CASE i < e
      BY <1>1, <1>4, <3>2, StarRun
    <3> QED BY <1>1, <3>1, <3>2
  <2>3. m \notin S(i)
    BY <1>1, <2>1, <2>2, NeedBound
  <2>4. e \in i .. n - 1 /\ At(pat, e) # kStar
    BY <1>4, <1>6
  <2> QED BY <1>1, <2>3, <2>4
<1> QED BY <1>5, <1>6

\* Where the matcher goes on for a star whose run ends at q, once the star
\* has taken the text before `from`.
ScanFrom(q, from) ==
    IF StarTarget(q) = << >> THEN from
    ELSE FastForward(from, StarTarget(q)[1], Need(q))

\* The scan skips no place from which on the rest of the pattern matches.
LEMMA ScanFacts ==
    ASSUME ArgsOK, NEW q \in 0 .. PatternEnd - 1, At(pat, q) # kStar,
           NEW from \in 0 .. StringEnd
    PROVE  /\ ScanFrom(q, from) # None =>
                ScanFrom(q, from) \in from .. StringEnd /\ Open(from, ScanFrom(q, from))
           /\ \A k \in S(q) : k >= from /\ Open(from, k) =>
                ScanFrom(q, from) # None /\ k >= ScanFrom(q, from) /\ Open(ScanFrom(q, from), k)
<1>1. PICK n \in Nat, m \in Nat : n = PatternEnd /\ m = StringEnd
  BY MatchFacts
<1>2. PICK pos : pos = ScanFrom(q, from)
  OBVIOUS
<1>s. S(q) \subseteq 0 .. m
  BY <1>1, NeedBound
<1>3. CASE At(pat, q) = kQuestion
  <2>1. pos = from
    BY <1>2, <1>3 DEF ScanFrom, StarTarget
  <2>2. Open(from, from)
    BY DEF Open
  <2> QED BY <1>1, <1>2, <1>s, <2>1, <2>2 DEF None
<1>4. CASE At(pat, q) # kQuestion
  <2>1. At(pat, q) \notin Wild
    BY <1>4 DEF Wild
  <2>2. PICK r \in Nat : r = Need(q) /\ r >= 1 /\ \A k \in S(q) : m - k >= r
    BY <1>1, NeedBound
  <2> DEFINE Hits == {k \in from .. (m - (r - 1)) - 1 :
                        /\ TextChar(k) = Literal(q)
                        /\ \A j \in from .. k - 1 : ~Blocked(j)}
  <2>3. pos = IF Hits = {} THEN None ELSE Min(Hits)
    <3>1. StarTarget(q) # << >> /\ StarTarget(q)[1] = Literal(q)
      BY <1>4 DEF StarTarget, Literal
    <3>2. pos = FastForward(from, Literal(q), r)
      BY <1>2, <2>2, <3>1, Zenon DEF ScanFrom
    <3> QED BY <1>1, <3>2, Zenon DEF FastForward
  <2>4. Hits \subseteq Nat
    BY <1>1
  <2>5. ASSUME NEW k \in S(q), k >= from, Open(from, k) PROVE k \in Hits
    <3>1. TextChar(k) = Literal(q)
      BY <1>1, <2>1, MatchFacts
    <3>2. k \in from .. (m - (r - 1)) - 1
      BY <1>1, <1>s, <2>2, <2>5
    <3> QED BY <2>5, <3>1, <3>2 DEF Open
  <2>6. ASSUME NEW k \in Hits PROVE k \in from .. m /\ Open(from, k)
    BY <1>1, <2>2 DEF Open
  <2> HIDE DEF Hits
  <2>7. Hits # {} => pos \in Hits /\ \A k \in Hits : pos <= k
    BY <2>3, <2>4, MinFacts
  <2>8. Hits = {} => pos = None
    BY <2>3
  <2>9. ASSUME NEW k \in S(q), k >= from, Open(from, k)
        PROVE  pos # None /\ k >= pos /\ Open(pos, k)
    <3>1. k \in Hits /\ pos \in Hits /\ pos <= k
      BY <2>5, <2>7, <2>9
    <3>2. pos \in from .. m
      BY <2>6, <3>1
    <3> QED BY <1>1, <1>s, <2>9, <3>1, <3>2 DEF None, Open
  <2>10. ASSUME pos # None PROVE pos \in from .. m /\ Open(from, pos)
    BY <2>6, <2>7, <2>8, <2>10
  <2> QED BY <1>1, <1>2, <2>9, <2>10
<1> QED BY <1>3, <1>4

-----------------------------------------------------------------------------
(* The inductive invariant.                                                *)

\* The last star can take the text up to k and the rest of the pattern
\* match from there on.
Later(k) == k \in lastStarS + 1 .. StringEnd /\ Open(lastStarS, k) /\ k \in S(lastStarP)

Cursors ==
    /\ p \in 0 .. PatternEnd /\ s \in 0 .. StringEnd
    /\ \/ lastStarP = None /\ lastStarS = None /\ starRem = 0
       \/ /\ lastStarP \in 0 .. PatternEnd - 1 /\ At(pat, lastStarP) # kStar
          /\ lastStarS \in 0 .. s
          /\ starTarget = StarTarget(lastStarP) /\ starRem = Need(lastStarP)
    /\ rem = Need(p)

\* What a later resumption finds, the cursors reach as well, moved by what
\* they have read since the star: this is why one star is enough.
Resumable ==
    lastStarP # None =>
      \A k : Later(k) =>
        LET l == k + (s - lastStarS)
        IN  l <= StringEnd /\ l \in S(p) /\ Open(s, l)

NothingLost ==
    (0 \in S(0)) <=> ((s \in S(p)) \/ (lastStarP # None /\ \E k : Later(k)))

Running == Cursors /\ Resumable /\ NothingLost

WInv ==
    /\ ArgsOK
    /\ TypeOK
    /\ result = "run" => Running
    /\ result # "run" => (result = "true" <=> 0 \in S(0))

\* The facts a step uses.
LEMMA RunningFacts ==
    ASSUME WInv, result = "run"
    PROVE  /\ ArgsOK /\ TypeOK /\ Running
           /\ PatternEnd \in Nat /\ StringEnd \in Nat
           /\ p \in 0 .. PatternEnd /\ s \in 0 .. StringEnd
           /\ rem = Need(p)
           /\ lastStarP # None =>
                /\ lastStarP \in 0 .. PatternEnd - 1 /\ At(pat, lastStarP) # kStar
                /\ lastStarS \in 0 .. s
                /\ starTarget = StarTarget(lastStarP) /\ starRem = Need(lastStarP)
  BY MatchFacts DEF WInv, Running, Cursors

\* At a star the cursors see everything a later resumption would find.
LEMMA StarAbsorbs ==
    ASSUME WInv, AtStar
    PROVE  (0 \in S(0)) <=> (s \in S(p))
<1>1. /\ ArgsOK /\ Running /\ result = "run" /\ p \in 0 .. PatternEnd - 1
      /\ s \in 0 .. StringEnd /\ StringEnd \in Nat /\ PatternEnd \in Nat
      /\ At(pat, p) = kStar
  BY RunningFacts DEF AtStar, InLoop
<1>2. \A j : j \in S(p) <=>
        j \in 0 .. StringEnd /\ \E k \in S(p + 1) : j <= k /\ Open(j, k)
  BY <1>1, MatchFacts
<1>3. S(p + 1) \subseteq 0 .. StringEnd
  BY <1>1, NeedBound
<1>4. ASSUME lastStarP # None, NEW k, Later(k) PROVE s \in S(p)
  <2>1. PICK l : l = k + (s - lastStarS)
    OBVIOUS
  <2>2. l \in S(p) /\ Open(s, l)
    BY <1>1, <1>4, <2>1 DEF Running, Resumable
  <2>3. s <= l
    <3>1. k \in lastStarS + 1 .. StringEnd /\ lastStarS \in 0 .. s
      BY <1>1, <1>4, RunningFacts DEF Later
    <3> QED BY <1>1, <2>1, <3>1
  <2>4. PICK h \in S(p + 1) : l <= h /\ Open(l, h)
    BY <1>2, <2>2
  <2>5. l \in 0 .. StringEnd /\ h \in 0 .. StringEnd
    BY <1>2, <1>3, <2>2
  <2>6. s <= h /\ Open(s, h)
    BY <1>1, <2>2, <2>3, <2>4, <2>5 DEF Open
  <2> QED BY <1>1, <1>2, <2>6
<1> QED BY <1>1, <1>4 DEF Running, NothingLost

\* At a mismatch the cursors themselves match nothing.
LEMMA MismatchFinal ==
    ASSUME WInv, Mismatch
    PROVE  s \notin S(p)
<1>1. /\ ArgsOK /\ result = "run" /\ p \in 0 .. PatternEnd
      /\ s \in 0 .. StringEnd /\ StringEnd \in Nat /\ PatternEnd \in Nat
      /\ s < StringEnd /\ rem = Need(p)
  BY RunningFacts DEF Mismatch, InLoop
<1>2. CASE ~Enough
  BY <1>1, <1>2, NeedBound DEF Enough
<1>3. CASE Enough /\ p = PatternEnd
  BY <1>1, <1>3, MatchFacts
<1>4. CASE Enough /\ p # PatternEnd
  <2>1. p \in 0 .. PatternEnd - 1 /\ At(pat, p) # kStar /\ ~TokenMatches
    BY <1>1, <1>4 DEF Mismatch, AtStar, InLoop
  <2>2. CASE At(pat, p) = kQuestion
    BY <1>1, <2>1, <2>2, MatchFacts DEF TokenMatches
  <2>3. CASE At(pat, p) # kQuestion
    <3>1. At(pat, p) \notin Wild
      BY <2>1, <2>3 DEF Wild
    <3>2. Literal(p) # TextChar(s)
      BY <1>1, <2>1, <2>3 DEF TokenMatches, Literal
    <3> QED BY <1>1, <2>1, <3>1, <3>2, MatchFacts
  <2> QED BY <2>2, <2>3
<1> QED BY <1>2, <1>3, <1>4

\* What the invariant speaks of does not change with the cursors.
LEMMA ArgsFixed ==
    ASSUME UNCHANGED args
    PROVE  /\ ArgsOK' <=> ArgsOK
           /\ PatternEnd' = PatternEnd /\ StringEnd' = StringEnd
           /\ \A i : S(i)' = S(i) /\ Need(i)' = Need(i) /\ StarTarget(i)' = StarTarget(i)
           /\ \A j, k : Open(j, k)' <=> Open(j, k)
<1>1. pat' = pat /\ txt' = txt /\ scope' = scope /\ ci' = ci
  BY DEF args
<1>2. PatternEnd' = PatternEnd /\ StringEnd' = StringEnd /\ (ArgsOK' <=> ArgsOK)
  BY <1>1 DEF PatternEnd, StringEnd, ArgsOK
<1>3. ASSUME NEW i PROVE S(i)' = S(i) /\ Need(i)' = Need(i)
  BY <1>1 DEF S, Need
<1>4. ASSUME NEW i PROVE StarTarget(i)' = StarTarget(i)
  BY <1>1, <1>2 DEF StarTarget
<1>5. ASSUME NEW j, NEW k PROVE Open(j, k)' <=> Open(j, k)
  BY <1>1 DEF Open, Blocked
<1> QED BY <1>2, <1>3, <1>4, <1>5

LEMMA Returns ==
    ASSUME WInv, NEW v \in {"true", "false"}, v = "true" <=> 0 \in S(0), Return(v)
    PROVE  WInv'
<1>1. result' = v /\ UNCHANGED << p, s, rem, lastStarP, lastStarS, starRem >> /\ UNCHANGED args
  BY DEF Return
<1>2. ArgsOK' /\ ((0 \in S(0))' <=> (0 \in S(0)))
  BY <1>1, ArgsFixed DEF WInv
<1>3. TypeOK'
  BY <1>1, ArgsFixed DEF WInv, TypeOK, args
<1> QED BY <1>1, <1>2, <1>3, ArgsFixed DEF WInv

\* A star is remembered, or resumed, at the next place the scan finds.
LEMMA Resumes ==
    ASSUME WInv, result = "run", NEW q \in 0 .. PatternEnd - 1, At(pat, q) # kStar,
           NEW from \in 0 .. StringEnd,
           (0 \in S(0)) <=> \E k \in S(q) : k >= from /\ Open(from, k),
           ScanFrom(q, from) # None,
           p' = q, s' = ScanFrom(q, from), lastStarP' = q, lastStarS' = ScanFrom(q, from),
           rem' = Need(q), starRem' = Need(q), starTarget' = StarTarget(q),
           UNCHANGED << args, result >>
    PROVE  WInv'
<1>1. PICK n \in Nat, m \in Nat : n = PatternEnd /\ m = StringEnd
  BY RunningFacts
<1>2. ArgsOK /\ TypeOK
  BY RunningFacts
<1>3. PICK pos : pos = ScanFrom(q, from)
  OBVIOUS
<1>4. pos \in from .. m /\ Open(from, pos)
  BY <1>1, <1>2, <1>3, ScanFacts
<1>5. \A k \in S(q) : k >= from /\ Open(from, k) => k >= pos /\ Open(pos, k)
  BY <1>1, <1>2, <1>3, ScanFacts
<1>6. ArgsOK' /\ PatternEnd' = n /\ StringEnd' = m
  BY <1>1, <1>2, ArgsFixed
<1>7. TypeOK'
  <2>1. Need(q) \in 0 .. n
    BY <1>1, <1>2, NeedBound
  <2>2. scope' = scope /\ ci' = ci /\ result' = result
    BY DEF args
  <2>3. scope \in WILD_CARD_SCOPE /\ ci \in BOOLEAN
    BY <1>2 DEF TypeOK
  <2>4. q \in 0 .. n /\ pos \in 0 .. m
    BY <1>1, <1>4
  <2> QED BY <1>3, <1>6, <2>1, <2>2, <2>3, <2>4 DEF TypeOK
<1>8. S(q) \subseteq 0 .. m
  BY <1>1, <1>2, NeedBound
<1>9. S(q)' = S(q) /\ ((0 \in S(0))' <=> (0 \in S(0)))
  BY ArgsFixed
<1>10. q # None /\ lastStarP' # None
  BY DEF None
<1>11. ASSUME NEW k PROVE Later(k)' <=> k \in S(q) /\ k > pos /\ Open(pos, k)
  <2>1. Later(k)' <=> k \in pos + 1 .. m /\ Open(pos, k) /\ k \in S(q)
    BY <1>3, <1>6, ArgsFixed DEF Later
  <2> QED BY <1>1, <1>4, <1>8, <2>1
<1>12. Cursors'
  <2>1. At(pat, q)' = At(pat, q) /\ StarTarget(q)' = StarTarget(q) /\ Need(q)' = Need(q)
    BY ArgsFixed DEF args
  <2>2. q \in 0 .. n /\ pos \in 0 .. m
    BY <1>1, <1>4
  <2> QED BY <1>1, <1>3, <1>6, <2>1, <2>2 DEF Cursors
<1>13. Resumable'
  <2>1. ASSUME NEW k, Later(k)'
        PROVE  LET l == k + (pos - pos)
               IN  l <= m /\ l \in S(q) /\ Open(pos, l)
    BY <1>1, <1>4, <1>8, <1>11, <2>1
  <2>2. ASSUME NEW k, Later(k)'
        PROVE  (LET l == k + (s - lastStarS)
                IN  l <= StringEnd /\ l \in S(p) /\ Open(s, l))'
    BY <1>3, <1>6, <2>1, <2>2, ArgsFixed
  <2> QED BY <2>2 DEF Resumable
<1>14. NothingLost'
  <2>1. (0 \in S(0)) <=> (pos \in S(q) \/ \E k : Later(k)')
    <3>1. ASSUME NEW k \in S(q), k >= from, Open(from, k)
          PROVE  pos \in S(q) \/ \E h : Later(h)'
      <4>1. k >= pos /\ Open(pos, k)
        BY <1>5, <3>1
      <4>2. k = pos \/ k > pos
        BY <1>1, <1>4, <1>8, <4>1
      <4> QED BY <1>11, <4>1, <4>2
    <3>2. ASSUME pos \in S(q)
          PROVE  \E k \in S(q) : k >= from /\ Open(from, k)
      BY <1>1, <1>4, <3>2
    <3>3. ASSUME NEW k, Later(k)'
          PROVE  \E h \in S(q) : h >= from /\ Open(from, h)
      <4>1. k \in S(q) /\ k > pos /\ Open(pos, k)
        BY <1>11, <3>3
      <4>2. k >= from /\ Open(from, k)
        BY <1>1, <1>4, <1>8, <4>1 DEF Open
      <4> QED BY <4>1, <4>2
    <3> QED BY <3>1, <3>2, <3>3
  <2>2. (s \in S(p))' <=> pos \in S(q)
    BY <1>3, <1>9, ArgsFixed
  <2>3. (0 \in S(0))' <=> ((s \in S(p))' \/ (lastStarP' # None /\ \E k : Later(k)'))
    BY <1>9, <1>10, <2>1, <2>2, Zenon
  <2> QED BY <2>3, Zenon DEF NothingLost
<1> QED BY <1>6, <1>7, <1>12, <1>13, <1>14 DEF WInv, Running

-----------------------------------------------------------------------------
(* The actions, one by one.                                                *)

LEMMA StarRunAt ==
    ASSUME WInv, AtStar
    PROVE  /\ ArgsOK /\ result = "run" /\ s \in 0 .. StringEnd
           /\ StringEnd \in Nat /\ PatternEnd \in Nat
           /\ AfterStars \in 0 .. PatternEnd
           /\ AfterStars < PatternEnd => At(pat, AfterStars) # kStar
           /\ rem = Need(AfterStars)
           /\ (0 \in S(0)) <=> \E k \in S(AfterStars) : k >= s /\ Open(s, k)
<1>1. /\ ArgsOK /\ result = "run" /\ p \in 0 .. PatternEnd - 1 /\ rem = Need(p)
      /\ s \in 0 .. StringEnd /\ StringEnd \in Nat /\ PatternEnd \in Nat
      /\ At(pat, p) = kStar
  BY RunningFacts DEF AtStar, InLoop
<1>2. PICK q : q = AfterStars
  OBVIOUS
<1>3. /\ q \in 0 .. PatternEnd /\ p < q
      /\ q < PatternEnd => At(pat, q) # kStar
      /\ \A l \in p .. q - 1 : At(pat, l) = kStar
  <2>1. q = StarsEnd(p)
    BY <1>2 DEF AfterStars, StarsEnd
  <2> QED BY <1>1, <2>1, StarsEndFacts
<1>4. /\ Need(p) = Need(q)
      /\ \A j : j \in S(p) <=>
           j \in 0 .. StringEnd /\ \E k \in S(q) : j <= k /\ Open(j, k)
  BY <1>1, <1>3, StarRun
<1>5. S(q) \subseteq 0 .. StringEnd
  BY <1>1, <1>3, NeedBound
<1>6. (0 \in S(0)) <=> \E k \in S(q) : k >= s /\ Open(s, k)
  <2>1. (0 \in S(0)) <=> (s \in S(p))
    BY StarAbsorbs
  <2>2. (s \in S(p)) <=> \E k \in S(q) : s <= k /\ Open(s, k)
    BY <1>1, <1>4
  <2>3. \A k \in S(q) : k >= s <=> s <= k
    BY <1>1, <1>5
  <2> QED BY <2>1, <2>2, <2>3
<1> QED BY <1>1, <1>2, <1>3, <1>4, <1>6

LEMMA TrailingStarStep ==
    ASSUME WInv, TrailingStar
    PROVE  WInv'
<1>1. AtStar /\ AfterStars = PatternEnd
  BY DEF TrailingStar
<1>2. PICK m \in Nat : m = StringEnd
  BY <1>1, StarRunAt
<1>3. S(PatternEnd) = {m} /\ s \in 0 .. m
  BY <1>1, <1>2, StarRunAt, MatchFacts
<1>4. (0 \in S(0)) <=> Open(s, m)
  <2>1. (0 \in S(0)) <=> \E k \in S(PatternEnd) : k >= s /\ Open(s, k)
    BY <1>1, StarRunAt
  <2> QED BY <1>3, <2>1
<1>5. PICK v \in {"true", "false"} :
        /\ v = (IF \E i \in s .. m - 1 : Blocked(i) THEN "false" ELSE "true")
        /\ Return(v)
  BY <1>2 DEF TrailingStar
<1>6. v = "true" <=> 0 \in S(0)
  BY <1>4, <1>5 DEF Open
<1> QED BY <1>5, <1>6, Returns

LEMMA StarStep ==
    ASSUME WInv, Star
    PROVE  WInv'
<1>1. AtStar /\ AfterStars < PatternEnd
  BY DEF Star
<1>2. PICK q : q = AfterStars
  OBVIOUS
<1>3. /\ ArgsOK /\ result = "run" /\ s \in 0 .. StringEnd
      /\ q \in 0 .. PatternEnd - 1 /\ At(pat, q) # kStar /\ rem = Need(q)
      /\ (0 \in S(0)) <=> \E k \in S(q) : k >= s /\ Open(s, k)
  BY <1>1, <1>2, StarRunAt
<1>4. PICK pos : pos = ScanFrom(q, s)
  OBVIOUS
<1>5. IF pos = None THEN Return("false")
      ELSE /\ p' = q /\ s' = pos
           /\ lastStarP' = q /\ lastStarS' = pos
           /\ starRem' = rem /\ starTarget' = StarTarget(q)
           /\ UNCHANGED << args, rem, result >>
  <2>1. pos = IF StarTarget(q) = << >> THEN s ELSE FastForward(s, StarTarget(q)[1], rem)
    BY <1>3, <1>4 DEF ScanFrom
  <2> QED BY <1>2, <2>1, Zenon DEF Star
<1>6. CASE pos = None
  <2>1. ~(0 \in S(0))
    BY <1>3, <1>4, <1>6, ScanFacts
  <2>2. Return("false")
    BY <1>5, <1>6
  <2> QED BY <2>1, <2>2, Returns
<1>7. CASE pos # None
  <2>1. /\ p' = q /\ s' = pos /\ lastStarP' = q /\ lastStarS' = pos
        /\ rem' = Need(q) /\ starRem' = Need(q) /\ starTarget' = StarTarget(q)
        /\ UNCHANGED << args, result >>
    BY <1>3, <1>5, <1>7
  <2> QED BY <1>3, <1>4, <1>7, <2>1, Resumes
<1> QED BY <1>6, <1>7

LEMMA FailStep ==
    ASSUME WInv, Fail
    PROVE  WInv'
<1>1. Mismatch /\ lastStarP = None /\ Return("false") /\ result = "run"
  BY DEF Fail, Mismatch, InLoop
<1>2. ~(0 \in S(0))
  BY <1>1, MismatchFinal, RunningFacts DEF Running, NothingLost
<1> QED BY <1>1, <1>2, Returns

LEMMA BacktrackStep ==
    ASSUME WInv, Backtrack
    PROVE  WInv'
<1>1. Mismatch /\ lastStarP # None /\ result = "run" /\ s < StringEnd
  BY DEF Backtrack, ResumeAt, Mismatch, InLoop
<1>2. PICK q, f, m \in Nat : q = lastStarP /\ f = lastStarS /\ m = StringEnd
  BY <1>1, RunningFacts
<1>3. /\ ArgsOK /\ Running /\ s \in 0 .. m /\ f \in 0 .. s /\ f < m
      /\ q \in 0 .. PatternEnd - 1 /\ At(pat, q) # kStar
      /\ starTarget = StarTarget(q) /\ starRem = Need(q)
  BY <1>1, <1>2, RunningFacts
<1>4. PICK from \in 0 .. m : from = f + 1
  BY <1>3
<1>5. PICK pos : pos = ScanFrom(q, from)
  OBVIOUS
<1>6. IF Blocked(f) \/ m - from < Need(q) \/ pos = None
      THEN Return("false")
      ELSE /\ p' = q /\ s' = pos /\ lastStarS' = pos
           /\ rem' = Need(q)
           /\ UNCHANGED << args, lastStarP, starRem, starTarget, result >>
  <2>1. pos = IF starTarget = << >> THEN from ELSE FastForward(from, starTarget[1], starRem)
    BY <1>3, <1>5 DEF ScanFrom
  <2> QED BY <1>2, <1>3, <1>4, <2>1, Zenon DEF Backtrack, ResumeAt
<1>n. q \in 0 .. PatternEnd /\ PatternEnd \in Nat
  BY <1>1, <1>3, RunningFacts
<1>7. S(q) \subseteq 0 .. m /\ Need(q) \in Nat /\ \A k \in S(q) : m - k >= Need(q)
  BY <1>2, <1>3, <1>n, NeedBound
<1>8. (0 \in S(0)) <=> ~Blocked(f) /\ \E k \in S(q) : k >= from /\ Open(from, k)
  <2>1. (0 \in S(0)) <=> \E k : Later(k)
    BY <1>1, <1>3, MismatchFinal DEF Running, NothingLost
  <2>2. ASSUME NEW k
        PROVE  Later(k) <=> k \in S(q) /\ k >= from /\ ~Blocked(f) /\ Open(from, k)
    <3>1. Later(k) <=> k \in from .. m /\ Open(f, k) /\ k \in S(q)
      BY <1>2, <1>4 DEF Later
    <3>2. k \in from .. m => (Open(f, k) <=> ~Blocked(f) /\ Open(from, k))
      <4>1. ASSUME k \in from .. m PROVE f .. k - 1 = {f} \cup (from .. k - 1)
        BY <1>3, <1>4, <4>1
      <4> QED BY <4>1 DEF Open
    <3>3. k \in S(q) => (k \in from .. m <=> k >= from)
      BY <1>4, <1>7
    <3> QED BY <3>1, <3>2, <3>3
  <2> QED BY <2>1, <2>2
<1>9. CASE Blocked(f) \/ m - from < Need(q) \/ pos = None
  <2>1. ~(0 \in S(0))
    <3>1. CASE Blocked(f)
      BY <1>8, <3>1
    <3>2. CASE m - from < Need(q)
      BY <1>3, <1>4, <1>7, <1>8, <3>2
    <3>3. CASE pos = None
      BY <1>2, <1>3, <1>5, <1>8, <3>3, ScanFacts
    <3> QED BY <1>9, <3>1, <3>2, <3>3
  <2>2. Return("false")
    BY <1>6, <1>9
  <2> QED BY <2>1, <2>2, Returns
<1>10. CASE ~(Blocked(f) \/ m - from < Need(q) \/ pos = None)
  <2>1. /\ p' = q /\ s' = pos /\ lastStarS' = pos /\ lastStarP' = q
        /\ rem' = Need(q) /\ starRem' = Need(q) /\ starTarget' = StarTarget(q)
        /\ UNCHANGED << args, result >>
    BY <1>2, <1>3, <1>6, <1>10
  <2>2. (0 \in S(0)) <=> \E k \in S(q) : k >= from /\ Open(from, k)
    BY <1>8, <1>10
  <2> QED BY <1>1, <1>2, <1>3, <1>5, <1>10, <2>1, <2>2, Resumes
<1> QED BY <1>9, <1>10

LEMMA FinishStep ==
    ASSUME WInv, Finish
    PROVE  WInv'
<1>1. result = "run" /\ s >= StringEnd
  BY DEF Finish
<1>2. PICK m \in Nat : m = StringEnd
  BY <1>1, RunningFacts
<1>3. ArgsOK /\ Running /\ p \in 0 .. PatternEnd /\ s = m
  BY <1>1, <1>2, RunningFacts
<1>4. ASSUME lastStarP # None, NEW k, Later(k) PROVE FALSE
  <2>1. k \in lastStarS + 1 .. m /\ lastStarS \in 0 .. s
    BY <1>1, <1>2, <1>4, RunningFacts DEF Later
  <2>2. k + (s - lastStarS) <= m
    BY <1>2, <1>3, <1>4 DEF Running, Resumable
  <2> QED BY <1>3, <2>1, <2>2
<1>5. (0 \in S(0)) <=> \A i \in p .. PatternEnd - 1 : At(pat, i) = kStar
  BY <1>2, <1>3, <1>4, OnlyStars DEF Running, NothingLost
<1>6. PICK v \in {"true", "false"} :
        /\ v = (IF \A i \in p .. PatternEnd - 1 : At(pat, i) = kStar THEN "true" ELSE "false")
        /\ Return(v)
  BY DEF Finish
<1>7. v = "true" <=> 0 \in S(0)
  BY <1>5, <1>6
<1> QED BY <1>6, <1>7, Returns

LEMMA AdvanceStep ==
    ASSUME WInv, Advance
    PROVE  WInv'
<1>1. /\ result = "run" /\ s < StringEnd /\ Enough /\ TokenMatches
      /\ p' = p + Width(p) /\ s' = s + 1 /\ rem' = rem - 1
      /\ UNCHANGED args
      /\ UNCHANGED << lastStarP, lastStarS, starRem, starTarget, result >>
  BY DEF Advance, InLoop, Width
<1>2. PICK n \in Nat, m \in Nat : n = PatternEnd /\ m = StringEnd
  BY <1>1, RunningFacts
<1>3. /\ ArgsOK /\ TypeOK /\ Running /\ rem = Need(p)
      /\ p \in 0 .. n - 1 /\ s \in 0 .. m - 1 /\ At(pat, p) # kStar
  <2>1. p < PatternEnd /\ At(pat, p) # kStar
    BY <1>1 DEF TokenMatches, kStar, kQuestion
  <2> QED BY <1>1, <1>2, <2>1, RunningFacts
<1>4. PICK q \in p + 1 .. n : q = p + Width(p) /\ (At(pat, p) = kQuestion => q = p + 1)
  BY <1>2, <1>3, MatchFacts DEF Wild
<1>5. Need(p) = Need(q) + 1 /\ Need(q) \in 0 .. n
  <2>1. q \in 0 .. PatternEnd
    BY <1>2, <1>3, <1>4
  <2>2. Need(q) \in 0 .. n - q
    BY <1>2, <1>3, <2>1, NeedBound
  <2> QED BY <1>2, <1>3, <1>4, <2>2, MatchFacts
\* The token takes the same characters wherever it matches.
<1>6. ASSUME NEW j PROVE j \in S(p) => j \in 0 .. m - 1 /\ j + 1 \in S(q)
  <2>1. CASE At(pat, p) = kQuestion
    BY <1>2, <1>3, <1>4, <2>1, MatchFacts
  <2>2. CASE At(pat, p) # kQuestion
    <3>1. At(pat, p) \notin Wild
      BY <1>3, <2>2 DEF Wild
    <3> QED BY <1>2, <1>3, <1>4, <3>1, MatchFacts
  <2> QED BY <2>1, <2>2
<1>7. (s \in S(p)) <=> (s + 1 \in S(q))
  <2>1. CASE At(pat, p) = kQuestion
    <3>1. ~Blocked(s)
      BY <1>1, <2>1 DEF TokenMatches, kStar, kQuestion
    <3> QED BY <1>2, <1>3, <1>4, <2>1, <3>1, MatchFacts
  <2>2. CASE At(pat, p) # kQuestion
    <3>1. At(pat, p) \notin Wild
      BY <1>3, <2>2 DEF Wild
    <3>2. Literal(p) = TextChar(s)
      BY <1>1, <1>3, <2>2 DEF TokenMatches, Literal
    <3> QED BY <1>2, <1>3, <1>4, <3>1, <3>2, MatchFacts
  <2> QED BY <2>1, <2>2
<1>8. ASSUME NEW j, j \in S(p), ~Blocked(s) PROVE ~Blocked(j)
  <2>1. CASE At(pat, p) = kQuestion
    BY <1>2, <1>3, <1>8, <2>1, MatchFacts
  <2>2. CASE At(pat, p) # kQuestion
    <3>1. At(pat, p) \notin Wild
      BY <1>3, <2>2 DEF Wild
    <3>2. Literal(p) = TextChar(s)
      BY <1>1, <1>3, <2>2 DEF TokenMatches, Literal
    <3>3. Literal(p) = TextChar(j) /\ j \in 0 .. m - 1
      BY <1>2, <1>3, <1>8, <3>1, MatchFacts
    <3> QED BY <1>2, <1>3, <1>8, <3>2, <3>3, FoldFacts
  <2> QED BY <2>1, <2>2
<1>9. ArgsOK' /\ PatternEnd' = n /\ StringEnd' = m
  BY <1>1, <1>2, <1>3, ArgsFixed
<1>10. TypeOK'
  <2>1. scope' = scope /\ ci' = ci
    BY <1>1 DEF args
  <2>2. q \in 0 .. n /\ s + 1 \in 0 .. m /\ rem - 1 \in 0 .. n
    BY <1>2, <1>3, <1>4, <1>5
  <2> QED BY <1>1, <1>2, <1>3, <1>4, <1>9, <2>1, <2>2 DEF TypeOK
<1>11. \A k : Later(k)' <=> Later(k)
  BY <1>1, <1>2, <1>9, ArgsFixed DEF Later
<1>12. /\ S(q)' = S(q) /\ ((0 \in S(0))' <=> (0 \in S(0)))
       /\ Need(q)' = Need(q)
       /\ \A j, k : Open(j, k)' <=> Open(j, k)
  BY <1>1, ArgsFixed
<1>13. Cursors'
  <2>1. Cursors
    BY <1>3 DEF Running
  <2>2. \A i : At(pat, i)' = At(pat, i) /\ StarTarget(i)' = StarTarget(i) /\ Need(i)' = Need(i)
    BY <1>1, ArgsFixed DEF args
  <2>3. rem' = Need(q) /\ q \in 0 .. n /\ s' \in 0 .. m
    BY <1>1, <1>2, <1>3, <1>4, <1>5
  <2>4. /\ p' \in 0 .. PatternEnd' /\ s' \in 0 .. StringEnd' /\ rem' = Need(p)'
    <3>1. p' = q /\ Need(p)' = Need(q)
      BY <1>1, <1>4, <1>12
    <3> QED BY <1>9, <2>3, <3>1
  <2>5. CASE lastStarP = None
    <3>1. lastStarS = None /\ starRem = 0
      BY <1>2, <2>1, <2>5 DEF Cursors, None
    <3> QED BY <1>1, <2>4, <2>5, <3>1 DEF Cursors
  <2>6. CASE lastStarP # None
    <3>1. /\ lastStarP \in 0 .. n - 1 /\ At(pat, lastStarP) # kStar
          /\ lastStarS \in 0 .. s
          /\ starTarget = StarTarget(lastStarP) /\ starRem = Need(lastStarP)
      BY <1>2, <2>1, <2>6 DEF Cursors
    <3>2. lastStarS \in 0 .. s'
      BY <1>1, <1>3, <3>1
    <3> QED BY <1>1, <1>9, <2>2, <2>4, <3>1, <3>2 DEF Cursors
  <2> QED BY <2>5, <2>6
<1>14. Resumable'
  <2>1. SUFFICES ASSUME lastStarP # None, NEW k, Later(k)
                 PROVE  LET l == k + ((s + 1) - lastStarS)
                        IN  l <= m /\ l \in S(q) /\ Open(s + 1, l)
    BY <1>1, <1>4, <1>9, <1>11, <1>12 DEF Resumable
  <2>2. PICK l : l = k + (s - lastStarS)
    OBVIOUS
  <2>3. l <= m /\ l \in S(p) /\ Open(s, l)
    BY <1>2, <1>3, <2>1, <2>2 DEF Running, Resumable
  <2>4. k \in lastStarS + 1 .. m /\ lastStarS \in 0 .. s
    BY <1>1, <1>2, <2>1, RunningFacts DEF Later
  <2>5. l \in 0 .. m - 1 /\ l + 1 \in S(q) /\ s < l
    BY <1>3, <1>6, <2>2, <2>3, <2>4
  <2>6. ~Blocked(s)
    BY <1>3, <2>3, <2>5 DEF Open
  <2>7. ~Blocked(l)
    BY <1>8, <2>3, <2>6
  <2>8. Open(s + 1, l + 1)
    <3>1. \A j \in s + 1 .. (l + 1) - 1 : j = l \/ j \in s .. l - 1
      BY <1>3, <2>5
    <3> QED BY <2>3, <2>7, <3>1 DEF Open
  <2>9. k + ((s + 1) - lastStarS) = l + 1
    BY <1>3, <2>2, <2>4
  <2> QED BY <2>5, <2>8, <2>9
<1>15. NothingLost'
  <2>1. (0 \in S(0)) <=> ((s \in S(p)) \/ (lastStarP # None /\ \E k : Later(k)))
    BY <1>3 DEF Running, NothingLost
  <2>2. (s \in S(p))' <=> (s + 1 \in S(q))
    BY <1>1, <1>4, <1>12
  <2>3. (0 \in S(0))' <=> ((s \in S(p))' \/ (lastStarP' # None /\ \E k : Later(k)'))
    BY <1>1, <1>7, <1>11, <1>12, <2>1, <2>2
  <2> QED BY <2>3, Zenon DEF NothingLost
<1> QED BY <1>1, <1>9, <1>10, <1>13, <1>14, <1>15 DEF WInv, Running

LEMMA InitStep ==
    ASSUME Init
    PROVE  WInv
<1>1. ArgsOK
  BY StringsAssumption, ModesAssumption DEF Init, ArgsOK, Strings
<1>2. PICK n \in Nat, m \in Nat : n = PatternEnd /\ m = StringEnd
  BY <1>1, MatchFacts
<1>3. rem = Need(0) /\ Need(0) \in 0 .. n
  BY <1>1, <1>2, NeedBound DEF Init, MinWildLen, MinLength, Tokens, Need, NeedAt
<1>4. TypeOK
  BY <1>2, <1>1, <1>3 DEF Init, ArgsOK, TypeOK
<1>5. Running
  BY <1>2, <1>3 DEF Init, Running, Cursors, Resumable, NothingLost
<1> QED BY <1>1, <1>4, <1>5 DEF Init, WInv

LEMMA StutterStep ==
    ASSUME WInv, UNCHANGED vars
    PROVE  WInv'
<1>1. /\ UNCHANGED args
      /\ UNCHANGED << p, s, rem, lastStarP, lastStarS, starRem, starTarget, result >>
  BY DEF vars
<1>2. /\ pat' = pat /\ txt' = txt /\ scope' = scope /\ ci' = ci
  BY <1>1 DEF args
<1>3. TypeOK' <=> TypeOK
  BY <1>1, <1>2, ArgsFixed DEF TypeOK
<1>4. \A k : Later(k)' <=> Later(k)
  BY <1>1, ArgsFixed DEF Later
<1>5. Cursors' <=> Cursors
  BY <1>1, <1>2, ArgsFixed DEF Cursors
<1>6. Resumable' <=> Resumable
  BY <1>1, <1>4, ArgsFixed DEF Resumable
<1>7. NothingLost' <=> NothingLost
  BY <1>1, <1>4, ArgsFixed DEF NothingLost
<1> QED BY <1>1, <1>3, <1>5, <1>6, <1>7, ArgsFixed DEF WInv, Running

\* The inductive invariant: while the call runs, the counters are what the
\* rest of the pattern needs and the call's answer is what the cursors or a
\* later resumption at the last star find; when it returns, its answer is
\* the pattern language's.
THEOREM MatcherInvariant == Spec => []WInv
<1>1. Init => WInv
  BY InitStep
<1>2. WInv /\ [Next]_vars => WInv'
  BY TrailingStarStep, StarStep, AdvanceStep, FailStep, BacktrackStep, FinishStep,
     StutterStep DEF Next
<1> QED BY <1>1, <1>2, PTL DEF Spec

\* The matcher never reads outside its buffers and no counter of it wraps,
\* for every wildcard suffix and text.
THEOREM ReadsInBoundsHolds == Spec => []ReadsInBounds
<1>1. WInv => ReadsInBounds
  <2>1. SUFFICES ASSUME WInv, result = "run"
                 PROVE  /\ AtStar /\ AfterStars < PatternEnd /\ StarTarget(AfterStars) # << >>
                             => rem >= 1
                        /\ lastStarP # None =>
                             /\ Mismatch => lastStarS < StringEnd
                             /\ starTarget # << >> => starRem >= 1
    BY DEF WInv, ReadsInBounds, Returned
  <2>2. ASSUME AtStar, AfterStars < PatternEnd PROVE rem >= 1
    BY <2>1, <2>2, StarRunAt, NeedBound
  <2>3. ASSUME lastStarP # None PROVE starRem >= 1 /\ (Mismatch => lastStarS < StringEnd)
    <3>1. /\ lastStarP \in 0 .. PatternEnd - 1 /\ At(pat, lastStarP) # kStar
          /\ starRem = Need(lastStarP) /\ PatternEnd \in Nat /\ ArgsOK
          /\ lastStarS \in 0 .. s /\ s \in 0 .. StringEnd /\ StringEnd \in Nat
      BY <2>1, <2>3, RunningFacts
    <3>2. starRem >= 1
      BY <3>1, NeedBound
    <3> QED BY <3>1, <3>2 DEF Mismatch, InLoop
  <2> QED BY <2>2, <2>3
<1> QED BY <1>1, MatcherInvariant, PTL

\* The call returns what the pattern language says, for every wildcard
\* suffix and text, in both scopes and both case modes.
THEOREM CorrectHolds == Spec => []Correct
<1>1. WInv => Correct
  <2>1. SUFFICES ASSUME WInv, result # "run"
                 PROVE  (result = "true") = Glob(pat, txt, scope, ci)
    BY DEF Correct, Returned
  <2>2. Fold(ci, pat) = pat
    BY <2>1 DEF WInv, ArgsOK
  <2>3. Glob(pat, txt, scope, ci) = (0 \in S(0))
    BY <2>2 DEF Glob, GlobTokens, Tokens, S, StartsAt
  <2>4. result = "true" <=> 0 \in S(0)
    BY <2>1 DEF WInv
  <2> QED BY <2>3, <2>4
<1> QED BY <1>1, MatcherInvariant, PTL

\* The counters of the matcher are exactly what the rest of the pattern
\* needs from the cursor and from the remembered star on.
THEOREM LengthsExactHolds == Spec => []LengthsExact
<1>1. WInv => LengthsExact
  <2>1. SUFFICES ASSUME WInv, result = "run"
                 PROVE  /\ rem = MinLength(SubSeq(pat, p + 1, PatternEnd))
                        /\ lastStarP # None =>
                             starRem = MinLength(SubSeq(pat, lastStarP + 1, PatternEnd))
    BY DEF LengthsExact, Returned
  <2>2. pat \in Strings /\ PatternEnd = Len(pat) /\ PatternEnd \in Nat
    BY <2>1, RunningFacts DEF ArgsOK, PatternEnd
  <2>3. ASSUME NEW i \in 0 .. PatternEnd
        PROVE  MinLength(SubSeq(pat, i + 1, PatternEnd)) = Need(i)
    BY <2>2, TokensOfRest DEF MinLength, Need, NeedAt, From
  <2> QED BY <2>1, <2>2, <2>3, RunningFacts
<1> QED BY <1>1, MatcherInvariant, PTL

LEMMA RestFacts ==
    ASSUME ArgsOK, NEW i \in 0 .. PatternEnd, NEW j \in 0 .. StringEnd
    PROVE  Rest(i, j) <=> j \in S(i)
<1>1. /\ pat \in Strings /\ PatternEnd = Len(pat) /\ txt \in Strings /\ StringEnd = Len(txt)
      /\ PatternEnd \in Nat /\ ci \in BOOLEAN
  BY MatchFacts DEF ArgsOK, PatternEnd, StringEnd
<1>2. PICK m \in Nat : m = StringEnd
  BY MatchFacts
<1>3. PICK text : text = Fold(ci, txt) /\ Len(text) = m
  BY <1>2, FoldFacts
<1>4. PICK rest : rest = Fold(ci, From(txt, j))
  OBVIOUS
<1>5. PICK toks \in Seq(TokenSet) : toks = TokensFrom(pat)[i]
  BY <1>1, TokensRecursion
<1>6. PICK n \in Nat : n = Len(toks)
  OBVIOUS
<1>7. PICK y \in Strings, d \in Nat : y = From(txt, j) /\ d = m - j /\ Len(y) = d
  <2>1. m - j \in Nat
    BY <1>2
  <2> QED BY <1>1, <1>2, <2>1, FromFacts
<1>8. DOMAIN y = 1 .. d /\ DOMAIN txt = 1 .. m
  BY <1>1, <1>2, <1>7 DEF Strings
<1>9. Len(rest) = d
  <2>1. CASE ci
    <3>1. rest = [h \in 1 .. d |-> ToUpperFast(y[h])]
      BY <1>4, <1>7, <1>8, <2>1 DEF Fold
    <3>2. DOMAIN rest = 1 .. d
      BY <3>1
    <3> QED BY <1>7, <3>1
  <2>2. CASE ~ci
    BY <1>4, <1>7, <2>2 DEF Fold
  <2> QED BY <1>1, <2>1, <2>2
<1>10. ASSUME NEW l \in 0 .. d - 1 PROVE At(rest, l) = At(text, j + l)
  <2>1. l + 1 \in 1 .. d /\ (j + l) + 1 \in 1 .. m
    BY <1>2, <1>7
  <2>2. At(y, l) = At(txt, j + l)
    BY <1>1, <1>2, <1>7, FromFacts
  <2> QED BY <1>3, <1>4, <1>7, <1>8, <2>1, <2>2 DEF At, Fold
<1>11. (0 \in StartsOf(toks, rest, scope)[0]) <=> (j \in StartsOf(toks, text, scope)[0])
  BY <1>2, <1>3, <1>6, <1>7, <1>9, <1>10, StartsOfRest
<1>12. Tokens(From(pat, i)) = toks
  BY <1>1, <1>5, TokensOfRest
<1>13. Rest(i, j) <=> 0 \in StartsOf(toks, rest, scope)[0]
  BY <1>1, <1>4, <1>12 DEF Rest, GlobTokens, From
<1> QED BY <1>3, <1>5, <1>11, <1>13 DEF S, StartsAt

\* Remembering only the last star loses no match.
THEOREM NoMatchLostHolds == Spec => []NoMatchLost
<1>1. WInv => NoMatchLost
  <2>1. SUFFICES ASSUME WInv, result = "run"
                 PROVE  Rest(0, 0) <=>
                          \/ Rest(p, s)
                          \/ /\ lastStarP # None
                             /\ \E k \in lastStarS + 1 .. StringEnd :
                                  /\ \A j \in lastStarS .. k - 1 : ~Blocked(j)
                                  /\ Rest(lastStarP, k)
    BY DEF NoMatchLost, Returned
  <2>2. /\ ArgsOK /\ Running /\ p \in 0 .. PatternEnd /\ s \in 0 .. StringEnd
        /\ PatternEnd \in Nat /\ StringEnd \in Nat
    BY <2>1, RunningFacts
  <2>3. (Rest(0, 0) <=> 0 \in S(0)) /\ (Rest(p, s) <=> s \in S(p))
    <3>1. 0 \in 0 .. PatternEnd /\ 0 \in 0 .. StringEnd
      BY <2>2
    <3> QED BY <2>2, <3>1, RestFacts
  <2>4. ASSUME lastStarP # None, NEW k \in lastStarS + 1 .. StringEnd
        PROVE  Later(k) <=> (\A j \in lastStarS .. k - 1 : ~Blocked(j)) /\ Rest(lastStarP, k)
    <3>1. lastStarP \in 0 .. PatternEnd /\ lastStarS \in 0 .. StringEnd
      BY <2>1, <2>2, <2>4, RunningFacts
    <3>2. k \in 0 .. StringEnd
      BY <2>2, <3>1
    <3>3. Rest(lastStarP, k) <=> k \in S(lastStarP)
      BY <2>2, <3>1, <3>2, RestFacts
    <3> QED BY <3>3 DEF Later, Open
  <2>5. \A k : Later(k) => k \in lastStarS + 1 .. StringEnd
    BY DEF Later
  <2>6. (0 \in S(0)) <=> ((s \in S(p)) \/ (lastStarP # None /\ \E k : Later(k)))
    BY <2>2 DEF Running, NothingLost
  <2> QED BY <2>3, <2>4, <2>5, <2>6
<1> QED BY <1>1, MatcherInvariant, PTL
===============================================================================

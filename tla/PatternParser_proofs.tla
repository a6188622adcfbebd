------------------------- MODULE PatternParser_proofs -------------------------
(***************************************************************************)
(* Facts about the pattern language and the parser, for every pattern:     *)
(* what the tokens of a pattern are, how a token in front changes where a  *)
(* match may start and how much of a text the tokens need; what the        *)
(* parser's scanning loops compute, and that the parts it cuts a pattern   *)
(* into - literal prefix, wildcard suffix, literal tail - together match   *)
(* what the pattern does.                                                  *)
(***************************************************************************)
EXTENDS PatternParser, Integers, FiniteSetsExt, FiniteSetTheorems,
        SequenceTheorems, WellFoundedInduction, TLAPS

Strings  == Seq(STRING)
TokenSet == [wild : BOOLEAN, char : STRING]
W(x, i)  == WidthAt(x, i, Len(x))

-----------------------------------------------------------------------------
(* Induction from the end of a sequence.                                   *)

LEMMA LeastOf ==
    ASSUME NEW T, T \subseteq Nat, T # {}
    PROVE  \E n \in T : \A m \in T : n <= m
<1> DEFINE R == OpToRel(<, Nat)
<1>1. IsWellFoundedOn(R, Nat)
  BY NatLessThanWellFounded
<1>2. \A n, m \in Nat : n < m => << n, m >> \in R
  BY DEF OpToRel
<1> HIDE DEF R
<1>3. PICK n \in T : \A m \in T : ~ (<< m, n >> \in R)
  BY <1>1, WFMin, Zenon
<1>4. ASSUME NEW m \in T PROVE n <= m
  <2>1. n \in Nat /\ m \in Nat OBVIOUS
  <2>2. ~(m < n) BY <1>2, <1>3, <2>1, Zenon
  <2> QED BY <2>1, <2>2
<1> QED BY <1>4, Zenon

LEMMA FromTheEnd ==
    ASSUME NEW n \in Nat, NEW G,
           \A i \in 0 .. n : (\A k \in i + 1 .. n : k \in G) => i \in G
    PROVE  \A i \in 0 .. n : i \in G
<1> DEFINE T == {m \in 0 .. n : n - m \notin G}
<1>1. SUFFICES ASSUME T # {} PROVE FALSE
  <2>1. ASSUME NEW i \in 0 .. n, i \notin G PROVE FALSE
    <3>1. n - i \in 0 .. n /\ n - (n - i) = i
      OBVIOUS
    <3> QED BY <1>1, <2>1, <3>1
  <2> QED BY <2>1
<1>2. PICK m \in T : \A l \in T : m <= l
  <2>1. T \subseteq Nat
    OBVIOUS
  <2> QED BY <1>1, <2>1, LeastOf
<1>3. m \in 0 .. n /\ n - m \in 0 .. n /\ n - m \notin G
  OBVIOUS
<1>4. ASSUME NEW k \in (n - m) + 1 .. n PROVE k \in G
  <2>1. n - k \in 0 .. n /\ n - k < m /\ n - (n - k) = k
    BY <1>3
  <2>2. n - k \notin T
    BY <1>2, <1>3, <2>1
  <2> QED BY <2>1, <2>2
<1> QED BY <1>3, <1>4

LEMMA MinFacts ==
    ASSUME NEW T, T \subseteq Nat, T # {}
    PROVE  Min(T) \in T /\ \A m \in T : Min(T) <= m
<1>1. \E n \in T : \A m \in T : n <= m
  BY LeastOf
<1> QED BY <1>1, Zenon DEF Min

-----------------------------------------------------------------------------
(* The tokens of a pattern.                                                *)

LEMMA TokenFacts ==
    ASSUME NEW x \in Strings, NEW i \in 0 .. Len(x) - 1
    PROVE  /\ Len(x) \in Nat
           /\ W(x, i) \in {1, 2} /\ i + W(x, i) \in i + 1 .. Len(x)
           /\ At(x, i) \in STRING
           /\ LiteralAt(x, i, Len(x)) \in STRING
           /\ TokenAt(x, i) \in TokenSet
           /\ At(x, i) \in Wild => W(x, i) = 1 /\ LiteralAt(x, i, Len(x)) = At(x, i)
<1>1. Len(x) \in Nat /\ \A k \in 1 .. Len(x) : x[k] \in STRING
  BY DEF Strings
<1>2. At(x, i) \in STRING /\ (i + 1 < Len(x) => At(x, i + 1) \in STRING)
  BY <1>1 DEF At
<1>3. At(x, i) \in Wild => ~IsEscapeAt(x, i, Len(x))
  BY DEF IsEscapeAt, Wild, kEscape, kStar, kQuestion
<1>4. IsEscapeAt(x, i, Len(x)) => i + 1 < Len(x)
  BY DEF IsEscapeAt
<1>5. W(x, i) \in {1, 2} /\ i + W(x, i) \in i + 1 .. Len(x)
  BY <1>1, <1>4 DEF W, WidthAt
<1>6. LiteralAt(x, i, Len(x)) \in STRING
  BY <1>2, <1>4 DEF LiteralAt
<1>7. TokenAt(x, i) \in TokenSet
  BY <1>6 DEF TokenAt, TokenSet
<1>8. At(x, i) \in Wild => W(x, i) = 1 /\ LiteralAt(x, i, Len(x)) = At(x, i)
  BY <1>3 DEF W, WidthAt, LiteralAt
<1> QED BY <1>1, <1>2, <1>5, <1>6, <1>7, <1>8

LEMMA TokenFields ==
    ASSUME NEW x, NEW i
    PROVE  /\ TokenAt(x, i).wild = (At(x, i) \in Wild)
           /\ TokenAt(x, i).char = LiteralAt(x, i, Len(x))
<1>1. \A b, c : [wild |-> b, char |-> c].wild = b /\ [wild |-> b, char |-> c].char = c
  OBVIOUS
<1> QED BY <1>1, Zenon DEF TokenAt

LEMMA TokensDefined ==
    ASSUME NEW x \in Strings
    PROVE  TokensFrom(x) = [i \in 0 .. Len(x) |->
             IF i = Len(x) THEN << >> ELSE << TokenAt(x, i) >> \o TokensFrom(x)[i + W(x, i)]]
<1>1. PICK n \in Nat : n = Len(x)
  BY DEF Strings
<1> DEFINE Nil == << >>
           Cons(k, r) == << TokenAt(x, k) >> \o r
           IsTable(g, i) == g = [k \in i .. n |-> IF k = n THEN Nil ELSE Cons(k, g[k + W(x, k)])]
           G == {i \in 0 .. n : \E g : IsTable(g, i)}
<1>w. \A i \in 0 .. n - 1 : i + W(x, i) \in i + 1 .. n
  BY <1>1, TokenFacts
<1> HIDE DEF Nil, Cons
<1>2. ASSUME NEW i \in 0 .. n, \A k \in i + 1 .. n : k \in G
      PROVE  i \in G
  <2>1. CASE i = n
    <3> DEFINE g == [k \in i .. n |-> Nil]
    <3>1. i .. n = {n}
      BY <2>1, <1>1
    <3>2. IsTable(g, i)
      BY <3>1
    <3> QED BY <3>2
  <2>2. CASE i # n
    <3>1. i + 1 \in G /\ i \in 0 .. n - 1
      BY <1>1, <1>2, <2>2
    <3>2. PICK g : IsTable(g, i + 1)
      BY <3>1
    <3>3. \A k \in i + 1 .. n : g[k] = IF k = n THEN Nil ELSE Cons(k, g[k + W(x, k)])
      BY <3>2
    <3> DEFINE h == [k \in i .. n |-> IF k > i THEN g[k] ELSE Cons(i, g[i + W(x, i)])]
    <3>4. ASSUME NEW k \in i .. n
          PROVE  h[k] = IF k = n THEN Nil ELSE Cons(k, h[k + W(x, k)])
      <4>1. CASE k < n
        <5>1. k + W(x, k) \in k + 1 .. n
          BY <1>w, <4>1
        <5>2. h[k + W(x, k)] = g[k + W(x, k)]
          BY <5>1
        <5>3. h[k] = Cons(k, g[k + W(x, k)])
          BY <3>3, <4>1
        <5> HIDE DEF h
        <5> QED BY <4>1, <5>2, <5>3
      <4>2. CASE k = n
        BY <2>2, <3>3, <4>2
      <4> QED BY <4>1, <4>2
    <3>5. IsTable(h, i)
      <4>1. h = [k \in i .. n |-> h[k]]
        OBVIOUS
      <4> HIDE DEF h
      <4> QED BY <3>4, <4>1
    <3> QED BY <3>5
  <2> QED BY <2>1, <2>2
<1>3. \A i \in 0 .. n : (\A k \in i + 1 .. n : k \in G) => i \in G
  BY <1>2
<1>4. 0 \in G
  <2> HIDE DEF G
  <2>1. \A i \in 0 .. n : i \in G
    BY <1>3, FromTheEnd
  <2> QED BY <2>1
<1>5. PICK g : IsTable(g, 0)
  BY <1>4
<1>6. g = [i \in 0 .. Len(x) |->
             IF i = Len(x) THEN << >> ELSE << TokenAt(x, i) >> \o g[i + W(x, i)]]
  BY <1>1, <1>5, Zenon DEF Nil, Cons
<1> QED BY <1>6 DEF TokensFrom, W

LEMMA TokensRecursion ==
    ASSUME NEW x \in Strings
    PROVE  /\ TokensFrom(x)[Len(x)] = << >>
           /\ \A i \in 0 .. Len(x) - 1 :
                TokensFrom(x)[i] = << TokenAt(x, i) >> \o TokensFrom(x)[i + W(x, i)]
           /\ \A i \in 0 .. Len(x) : TokensFrom(x)[i] \in Seq(TokenSet)
<1>1. PICK n \in Nat : n = Len(x)
  BY DEF Strings
<1>2. PICK F : F = TokensFrom(x)
  OBVIOUS
<1> DEFINE Cons(k, r) == << TokenAt(x, k) >> \o r
           G == {i \in 0 .. n : F[i] \in Seq(TokenSet)}
<1>3. F = [i \in 0 .. n |-> IF i = n THEN << >> ELSE Cons(i, F[i + W(x, i)])]
  BY <1>1, <1>2, TokensDefined, Zenon
<1>4. ASSUME NEW i \in 0 .. n - 1
      PROVE  /\ i + W(x, i) \in i + 1 .. n /\ TokenAt(x, i) \in TokenSet
             /\ \A r \in Seq(TokenSet) : Cons(i, r) \in Seq(TokenSet)
  <2>1. i + W(x, i) \in i + 1 .. n /\ TokenAt(x, i) \in TokenSet
    BY <1>1, TokenFacts
  <2> QED BY <2>1
<1> HIDE DEF Cons
<1>5. F[n] = << >> /\ \A i \in 0 .. n - 1 : F[i] = Cons(i, F[i + W(x, i)])
  BY <1>3
<1>6. ASSUME NEW i \in 0 .. n, \A k \in i + 1 .. n : k \in G
      PROVE  i \in G
  <2>1. CASE i = n
    <3>1. F[i] = << >>
      BY <1>5, <2>1
    <3>2. << >> \in Seq(TokenSet)
      OBVIOUS
    <3>3. F[i] \in Seq(TokenSet)
      BY <3>1, <3>2, Zenon
    <3> QED BY <3>3
  <2>2. CASE i # n
    <3>1. i \in 0 .. n - 1
      BY <2>2
    <3> QED BY <1>4, <1>5, <1>6, <3>1
  <2> QED BY <2>1, <2>2
<1>7. \A i \in 0 .. n : i \in G
  <2>1. \A i \in 0 .. n : (\A k \in i + 1 .. n : k \in G) => i \in G
    BY <1>6
  <2> HIDE DEF G
  <2> QED BY <2>1, FromTheEnd
<1>8. \A i \in 0 .. n - 1 : F[i] = << TokenAt(x, i) >> \o F[i + W(x, i)]
  BY <1>5, Zenon DEF Cons
<1> QED BY <1>1, <1>2, <1>5, <1>7, <1>8

-----------------------------------------------------------------------------
(* Where the rest of a pattern may start to match.                         *)

LEMMA StartsDefined ==
    ASSUME NEW toks, NEW n \in Nat, n = Len(toks), NEW text, NEW sc
    PROVE  StartsOf(toks, text, sc) = [i \in 0 .. n |->
             IF i = n THEN {Len(text)}
             ELSE StartsBefore(At(toks, i), StartsOf(toks, text, sc)[i + 1], text, sc)]
<1> DEFINE Last == {Len(text)}
           Before(k, r) == StartsBefore(At(toks, k), r, text, sc)
           IsTable(g, i) == g = [k \in i .. n |-> IF k = n THEN Last ELSE Before(k, g[k + 1])]
           G == {i \in 0 .. n : \E g : IsTable(g, i)}
<1> HIDE DEF Last, Before
<1>1. ASSUME NEW i \in 0 .. n, \A k \in i + 1 .. n : k \in G
      PROVE  i \in G
  <2>1. CASE i = n
    <3> DEFINE g == [k \in i .. n |-> Last]
    <3>1. i .. n = {n}
      BY <2>1
    <3>2. IsTable(g, i)
      BY <3>1
    <3> QED BY <3>2
  <2>2. CASE i # n
    <3>1. i + 1 \in G
      BY <1>1, <2>2
    <3>2. PICK g : IsTable(g, i + 1)
      BY <3>1
    <3>3. \A k \in i + 1 .. n : g[k] = IF k = n THEN Last ELSE Before(k, g[k + 1])
      BY <3>2
    <3> DEFINE h == [k \in i .. n |-> IF k > i THEN g[k] ELSE Before(i, g[i + 1])]
    <3>4. ASSUME NEW k \in i .. n
          PROVE  h[k] = IF k = n THEN Last ELSE Before(k, h[k + 1])
      <4>1. CASE k < n
        <5>1. h[k + 1] = g[k + 1]
          BY <4>1
        <5>2. h[k] = Before(k, g[k + 1])
          BY <3>3, <4>1
        <5> HIDE DEF h
        <5> QED BY <4>1, <5>1, <5>2
      <4>2. CASE k = n
        BY <2>2, <3>3, <4>2
      <4> QED BY <4>1, <4>2
    <3>5. IsTable(h, i)
      <4>1. h = [k \in i .. n |-> h[k]]
        OBVIOUS
      <4> HIDE DEF h
      <4> QED BY <3>4, <4>1
    <3> QED BY <3>5
  <2> QED BY <2>1, <2>2
<1>2. \A i \in 0 .. n : (\A k \in i + 1 .. n : k \in G) => i \in G
  BY <1>1
<1>3. 0 \in G
  <2> HIDE DEF G
  <2>1. \A i \in 0 .. n : i \in G
    BY <1>2, FromTheEnd
  <2> QED BY <2>1
<1>4. PICK g : IsTable(g, 0)
  BY <1>3
<1>5. g = [i \in 0 .. Len(toks) |-> IF i = Len(toks) THEN {Len(text)}
             ELSE StartsBefore(At(toks, i), g[i + 1], text, sc)]
  BY <1>4, Zenon DEF Last, Before
<1>6. StartsOf(toks, text, sc) = [i \in 0 .. Len(toks) |->
        IF i = Len(toks) THEN {Len(text)}
        ELSE StartsBefore(At(toks, i), StartsOf(toks, text, sc)[i + 1], text, sc)]
  BY <1>5 DEF StartsOf
<1> QED BY <1>6, Zenon

LEMMA StartsLast ==
    ASSUME NEW toks, NEW n \in Nat, n = Len(toks), NEW text, NEW sc
    PROVE  StartsOf(toks, text, sc)[n] = {Len(text)}
<1> DEFINE Before(t, r) == StartsBefore(t, r, text, sc)
           Last == {Len(text)}
<1>1. PICK A : A = StartsOf(toks, text, sc)
  OBVIOUS
<1>2. A = [i \in 0 .. n |-> IF i = n THEN Last ELSE Before(At(toks, i), A[i + 1])]
  BY <1>1, StartsDefined
<1> HIDE DEF Before, Last
<1>3. A[n] = Last
  BY <1>2
<1> QED BY <1>1, <1>3 DEF Last

\* A token in front does not change what the tokens behind it match.
LEMMA StartsShift ==
    ASSUME NEW tok \in TokenSet, NEW toks \in Seq(TokenSet), NEW text, NEW sc
    PROVE  /\ StartsOf(<< >>, text, sc)[0] = {Len(text)}
           /\ StartsOf(<< tok >> \o toks, text, sc)[0]
                = StartsBefore(tok, StartsOf(toks, text, sc)[0], text, sc)
<1>1. PICK n \in Nat : n = Len(toks)
  OBVIOUS
<1>2. PICK more \in Seq(TokenSet) : more = << tok >> \o toks
  <2>1. << tok >> \in Seq(TokenSet)
    OBVIOUS
  <2>2. << tok >> \o toks \in Seq(TokenSet)
    BY <2>1, ConcatProperties
  <2> QED BY <2>2
<1>3. /\ Len(more) = n + 1 /\ n + 1 \in Nat
      /\ more[1] = tok /\ \A i \in 1 .. n : more[i + 1] = toks[i]
  BY <1>1, <1>2
<1>4. PICK A : A = StartsOf(toks, text, sc)
  OBVIOUS
<1>5. PICK B : B = StartsOf(more, text, sc)
  OBVIOUS
<1> DEFINE Before(t, r) == StartsBefore(t, r, text, sc)
           Last == {Len(text)}
<1>6. A = [i \in 0 .. n |-> IF i = n THEN Last ELSE Before(At(toks, i), A[i + 1])]
  BY <1>1, <1>4, StartsDefined
<1>7. B = [i \in 0 .. n + 1 |-> IF i = n + 1 THEN Last ELSE Before(At(more, i), B[i + 1])]
  BY <1>3, <1>5, StartsDefined
<1>8. /\ At(more, 0) = tok
      /\ \A i \in 0 .. n - 1 : At(more, i + 1) = At(toks, i)
  BY <1>3 DEF At
<1> HIDE DEF Before, Last
<1> DEFINE G == {i \in 0 .. n : B[i + 1] = A[i]}
<1>9. ASSUME NEW i \in 0 .. n, \A k \in i + 1 .. n : k \in G
      PROVE  i \in G
  <2>1. CASE i = n
    BY <1>6, <1>7, <2>1
  <2>2. CASE i # n
    <3>1. B[i + 1] = Before(At(more, i + 1), B[i + 1 + 1])
      BY <1>7, <2>2
    <3>2. A[i] = Before(At(toks, i), A[i + 1])
      BY <1>6, <2>2
    <3>3. B[i + 1 + 1] = A[i + 1]
      BY <1>9, <2>2
    <3>4. At(more, i + 1) = At(toks, i)
      BY <1>8, <2>2
    <3> QED BY <3>1, <3>2, <3>3, <3>4
  <2> QED BY <2>1, <2>2
<1>10. \A i \in 0 .. n : (\A k \in i + 1 .. n : k \in G) => i \in G
  BY <1>9
<1>11. 0 \in G
  <2> HIDE DEF G
  <2>1. \A i \in 0 .. n : i \in G
    BY <1>10, FromTheEnd
  <2> QED BY <2>1
<1>12. B[0] = Before(tok, A[0])
  <2>1. B[0] = Before(At(more, 0), B[0 + 1])
    BY <1>7
  <2>2. B[0 + 1] = A[0]
    BY <1>11
  <2> QED BY <1>8, <2>1, <2>2
<1>13. StartsOf(<< >>, text, sc)[0] = Last
  <2>1. 0 \in Nat /\ 0 = Len(<< >>)
    OBVIOUS
  <2>2. StartsOf(<< >>, text, sc)[0] = {Len(text)}
    BY <2>1, StartsLast
  <2> QED BY <2>2 DEF Last
<1> QED BY <1>2, <1>4, <1>5, <1>12, <1>13 DEF Before, Last

\* Characters that tokens need.
LEMMA NeededShift ==
    ASSUME NEW tok \in TokenSet, NEW toks \in Seq(TokenSet)
    PROVE  /\ NeededBy(toks) \in Nat /\ NeededBy(<< >>) = 0
           /\ NeededBy(<< tok >> \o toks)
                = NeededBy(toks) + (IF tok = StarToken THEN 0 ELSE 1)
<1>1. PICK n \in Nat : n = Len(toks)
  OBVIOUS
<1>2. PICK more \in Seq(TokenSet) : more = << tok >> \o toks
  <2>1. << tok >> \in Seq(TokenSet)
    OBVIOUS
  <2>2. << tok >> \o toks \in Seq(TokenSet)
    BY <2>1, ConcatProperties
  <2> QED BY <2>2
<1>3. /\ Len(more) = n + 1 /\ n + 1 \in Nat
      /\ more[1] = tok /\ \A i \in 1 .. n : more[i + 1] = toks[i]
  BY <1>1, <1>2
<1> DEFINE A == {k \in 1 .. n : toks[k] # StarToken}
           B == {k \in 1 .. n + 1 : more[k] # StarToken}
           C == {k \in 2 .. n + 1 : toks[k - 1] # StarToken}
           F == [k \in A |-> k + 1]
<1>4. NeededBy(toks) = Cardinality(A) /\ NeededBy(more) = Cardinality(B)
  <2>1. DOMAIN toks = 1 .. n /\ DOMAIN more = 1 .. n + 1
    BY <1>1, <1>3, LenProperties
  <2> QED BY <2>1 DEF NeededBy
<1>5. IsFiniteSet(A)
  <2>1. IsFiniteSet(1 .. n)
    BY FS_Interval
  <2>2. A \in SUBSET (1 .. n)
    OBVIOUS
  <2> QED BY <2>1, <2>2, FS_Subset
<1>6. IsFiniteSet(C) /\ Cardinality(C) = Cardinality(A)
  <2>1. F \in [A -> C]
    OBVIOUS
  <2>2. \A j, k \in A : F[j] = F[k] => j = k
    OBVIOUS
  <2>3. ASSUME NEW c \in C PROVE \E k \in A : F[k] = c
    <3>1. c - 1 \in A /\ F[c - 1] = c
      OBVIOUS
    <3> QED BY <3>1
  <2> HIDE DEF F, A, C
  <2>4. F \in Bijection(A, C)
    BY <2>1, <2>2, <2>3 DEF Bijection, Injection, Surjection, IsInjective
  <2>5. ExistsBijection(A, C)
    BY <2>4 DEF ExistsBijection
  <2> QED BY <1>5, <2>5, FS_Bijection
<1>7. B = C \cup (IF tok = StarToken THEN {} ELSE {1})
  <2>1. ASSUME NEW k \in 2 .. n + 1 PROVE more[k] = toks[k - 1]
    <3>1. k - 1 \in 1 .. n /\ (k - 1) + 1 = k
      OBVIOUS
    <3> QED BY <1>3, <3>1
  <2>2. 1 .. n + 1 = {1} \cup (2 .. n + 1)
    OBVIOUS
  <2> QED BY <1>3, <2>1, <2>2
<1>8. 1 \notin C
  OBVIOUS
<1> HIDE DEF A, B, C, F
<1>9. Cardinality(A) \in Nat
  BY <1>5, FS_CardinalityType
<1>10. Cardinality(B) = Cardinality(A) + (IF tok = StarToken THEN 0 ELSE 1)
  <2>1. CASE tok = StarToken
    <3>1. B = C
      BY <1>7, <2>1
    <3> QED BY <1>6, <1>9, <2>1, <3>1
  <2>2. CASE tok # StarToken
    <3>1. B = C \cup {1}
      BY <1>7, <2>2
    <3> QED BY <1>6, <1>8, <1>9, <2>2, <3>1, FS_AddElement
  <2> QED BY <2>1, <2>2
<1>11. NeededBy(<< >>) = 0
  <2>1. {k \in DOMAIN << >> : << >>[k] # StarToken} = {}
    OBVIOUS
  <2> QED BY <2>1, FS_EmptySet DEF NeededBy
<1> QED BY <1>2, <1>4, <1>9, <1>10, <1>11

\* The offsets of the text from which on the pattern x from offset i on
\* matches the rest, and the characters it needs.
StartsAt(x, i, text, sc) == StartsOf(TokensFrom(x)[i], text, sc)[0]
NeedAt(x, i)             == NeededBy(TokensFrom(x)[i])

LEMMA PatternEnds ==
    ASSUME NEW x \in Strings, NEW text, NEW sc
    PROVE  StartsAt(x, Len(x), text, sc) = {Len(text)} /\ NeedAt(x, Len(x)) = 0
<1>1. TokensFrom(x)[Len(x)] = << >>
  BY TokensRecursion
<1>2. 0 \in Nat /\ 0 = Len(<< >>)
  OBVIOUS
<1>3. StartsOf(<< >>, text, sc)[0] = {Len(text)}
  BY <1>2, StartsLast
<1>4. NeededBy(<< >>) = 0
  <2>1. {k \in DOMAIN << >> : << >>[k] # StarToken} = {}
    OBVIOUS
  <2> QED BY <2>1, FS_EmptySet DEF NeededBy
<1> QED BY <1>1, <1>3, <1>4 DEF StartsAt, NeedAt

LEMMA PatternStep ==
    ASSUME NEW x \in Strings, NEW i \in 0 .. Len(x) - 1, NEW text, NEW sc
    PROVE  /\ StartsAt(x, i, text, sc)
                = StartsBefore(TokenAt(x, i), StartsAt(x, i + W(x, i), text, sc), text, sc)
           /\ NeedAt(x, i + W(x, i)) \in Nat
           /\ NeedAt(x, i) = NeedAt(x, i + W(x, i))
                               + (IF At(x, i) = kStar THEN 0 ELSE 1)
<1>1. /\ Len(x) \in Nat /\ i + W(x, i) \in i + 1 .. Len(x) /\ TokenAt(x, i) \in TokenSet
      /\ At(x, i) \in Wild => LiteralAt(x, i, Len(x)) = At(x, i)
  BY TokenFacts
<1>2. i + W(x, i) \in 0 .. Len(x)
  BY <1>1
<1>3. PICK toks \in Seq(TokenSet) : toks = TokensFrom(x)[i + W(x, i)]
  BY <1>2, TokensRecursion
<1>4. TokensFrom(x)[i] = << TokenAt(x, i) >> \o toks
  BY <1>3, TokensRecursion
<1>5. TokenAt(x, i) = StarToken <=> At(x, i) = kStar
  BY <1>1 DEF TokenAt, StarToken, Wild, kStar, kQuestion
<1>6. StartsOf(<< TokenAt(x, i) >> \o toks, text, sc)[0]
        = StartsBefore(TokenAt(x, i), StartsOf(toks, text, sc)[0], text, sc)
  BY <1>1, StartsShift
<1>7. /\ NeededBy(toks) \in Nat
      /\ NeededBy(<< TokenAt(x, i) >> \o toks)
           = NeededBy(toks) + (IF TokenAt(x, i) = StarToken THEN 0 ELSE 1)
  BY <1>1, NeededShift
<1> QED BY <1>3, <1>4, <1>5, <1>6, <1>7 DEF StartsAt, NeedAt

-----------------------------------------------------------------------------
(* The rest of a pattern and of a text, cut off as strings of their own.   *)

From(x, i) == SubSeq(x, i + 1, Len(x))

LEMMA FromFacts ==
    ASSUME NEW x \in Strings, NEW i \in 0 .. Len(x)
    PROVE  /\ From(x, i) \in Strings /\ Len(From(x, i)) = Len(x) - i
           /\ \A h \in 0 .. (Len(x) - i) - 1 : At(From(x, i), h) = At(x, i + h)
<1>1. PICK n \in Nat : n = Len(x)
  BY DEF Strings
<1>2. i + 1 \in 1 .. n + 1
  BY <1>1
<1>3. /\ SubSeq(x, i + 1, n) \in Seq(STRING)
      /\ Len(SubSeq(x, i + 1, n)) = IF i + 1 <= n THEN n - (i + 1) + 1 ELSE 0
      /\ \A h \in 1 .. n - (i + 1) + 1 : SubSeq(x, i + 1, n)[h] = x[(i + 1) + h - 1]
  BY <1>1, <1>2, SubSeqProperties DEF Strings
<1>4. Len(From(x, i)) = n - i
  BY <1>1, <1>2, <1>3 DEF From
<1>5. ASSUME NEW h \in 0 .. (n - i) - 1 PROVE At(From(x, i), h) = At(x, i + h)
  <2>1. h + 1 \in 1 .. n - (i + 1) + 1 /\ (i + 1) + (h + 1) - 1 = (i + h) + 1
    BY <1>1
  <2> QED BY <1>1, <1>3, <2>1 DEF From, At
<1> QED BY <1>1, <1>3, <1>4, <1>5 DEF From, Strings

LEMMA TokensOfRest ==
    ASSUME NEW x \in Strings, NEW i \in 0 .. Len(x)
    PROVE  Tokens(From(x, i)) = TokensFrom(x)[i]
<1>1. PICK n \in Nat : n = Len(x)
  BY DEF Strings
<1>2. PICK y \in Strings : /\ y = From(x, i) /\ Len(y) = n - i
                           /\ \A h \in 0 .. (n - i) - 1 : At(y, h) = At(x, i + h)
  BY <1>1, FromFacts
<1>3. PICK m \in Nat : m = n - i /\ m = Len(y)
  <2>1. n - i \in Nat
    BY <1>1
  <2> QED BY <1>2, <2>1, Zenon
<1>4. PICK A, B : A = TokensFrom(x) /\ B = TokensFrom(y)
  OBVIOUS
<1> DEFINE Cons(t, r) == << t >> \o r
<1>5. /\ A[n] = << >>
      /\ \A k \in 0 .. n - 1 : A[k] = Cons(TokenAt(x, k), A[k + W(x, k)])
  BY <1>1, <1>4, TokensRecursion, Zenon
<1>6. /\ B[m] = << >>
      /\ \A k \in 0 .. m - 1 : B[k] = Cons(TokenAt(y, k), B[k + W(y, k)])
  BY <1>3, <1>4, TokensRecursion, Zenon
<1> HIDE DEF Cons
<1>7. ASSUME NEW h \in 0 .. m - 1
      PROVE  TokenAt(y, h) = TokenAt(x, i + h) /\ W(y, h) = W(x, i + h)
  <2>1. At(y, h) = At(x, i + h)
    BY <1>2, <1>3
  <2>2. h + 1 < m <=> i + h + 1 < n
    BY <1>1, <1>3
  <2>3. h + 1 < m => At(y, h + 1) = At(x, i + h + 1)
    <3>1. ASSUME h + 1 < m PROVE h + 1 \in 0 .. (n - i) - 1 /\ i + (h + 1) = i + h + 1
      BY <1>1, <1>3, <3>1
    <3> QED BY <1>2, <3>1
  <2>4. IsEscapeAt(y, h, m) <=> IsEscapeAt(x, i + h, n)
    BY <2>1, <2>2, <2>3 DEF IsEscapeAt
  <2>5. IsEscapeAt(y, h, m) => At(y, h + 1) = At(x, i + h + 1)
    BY <2>3 DEF IsEscapeAt
  <2>6. W(y, h) = W(x, i + h)
    BY <1>1, <1>3, <2>4 DEF W, WidthAt
  <2>7. LiteralAt(y, h, m) = LiteralAt(x, i + h, n)
    BY <2>1, <2>4, <2>5 DEF LiteralAt
  <2> QED BY <1>1, <1>3, <2>1, <2>6, <2>7 DEF TokenAt
<1>w. \A h \in 0 .. m - 1 : h + W(y, h) \in h + 1 .. m
  BY <1>3, TokenFacts
<1> DEFINE G == {h \in 0 .. m : B[h] = A[i + h]}
<1>8. ASSUME NEW h \in 0 .. m, \A k \in h + 1 .. m : k \in G
      PROVE  h \in G
  <2>1. CASE h = m
    <3>1. i + h = n
      BY <1>1, <1>3, <2>1
    <3>2. B[h] = A[i + h]
      BY <1>5, <1>6, <2>1, <3>1
    <3> QED BY <3>2
  <2>2. CASE h # m
    <3>1. PICK k : k = h + W(y, h)
      OBVIOUS
    <3>2. h \in 0 .. m - 1 /\ i + h \in 0 .. n - 1 /\ k \in h + 1 .. m
      BY <1>1, <1>3, <1>w, <2>2, <3>1
    <3>3. B[h] = Cons(TokenAt(y, h), B[k])
      BY <1>6, <3>1, <3>2
    <3>4. A[i + h] = Cons(TokenAt(x, i + h), A[(i + h) + W(x, i + h)])
      BY <1>5, <3>2
    <3>5. (i + h) + W(x, i + h) = i + k
      <4>1. W(x, i + h) = W(y, h)
        BY <1>7, <3>2
      <4>2. W(y, h) \in {1, 2}
        BY <1>3, <3>2, TokenFacts
      <4> QED BY <3>1, <3>2, <4>1, <4>2
    <3>6. B[k] = A[i + k]
      BY <1>8, <3>2
    <3>7. B[h] = A[i + h]
      BY <1>7, <3>2, <3>3, <3>4, <3>5, <3>6
    <3> QED BY <3>7
  <2> QED BY <2>1, <2>2
<1>9. 0 \in G
  <2>1. \A h \in 0 .. m : (\A k \in h + 1 .. m : k \in G) => h \in G
    BY <1>8
  <2> HIDE DEF G
  <2>2. \A h \in 0 .. m : h \in G
    BY <2>1, FromTheEnd
  <2> QED BY <2>2
<1> QED BY <1>1, <1>2, <1>4, <1>9 DEF Tokens

\* Matching the rest of a text is matching the text from there on.
LEMMA StartsOfRest ==
    ASSUME NEW toks, NEW n \in Nat, n = Len(toks), NEW sc,
           NEW text, NEW m \in Nat, m = Len(text), NEW f \in 0 .. m,
           NEW rest, Len(rest) = m - f,
           \A l \in 0 .. (m - f) - 1 : At(rest, l) = At(text, f + l)
    PROVE  (0 \in StartsOf(toks, rest, sc)[0]) <=> (f \in StartsOf(toks, text, sc)[0])
<1>1. PICK d \in Nat : d = m - f
  <2>1. m - f \in Nat
    OBVIOUS
  <2> QED BY <2>1
<1>2. PICK A, B : A = StartsOf(toks, text, sc) /\ B = StartsOf(toks, rest, sc)
  OBVIOUS
<1> DEFINE LastA == {Len(text)}
           LastB == {Len(rest)}
           NextA(t, r) == StartsBefore(t, r, text, sc)
           NextB(t, r) == StartsBefore(t, r, rest, sc)
<1>3. A = [i \in 0 .. n |-> IF i = n THEN LastA ELSE NextA(At(toks, i), A[i + 1])]
  BY <1>2, StartsDefined
<1>4. B = [i \in 0 .. n |-> IF i = n THEN LastB ELSE NextB(At(toks, i), B[i + 1])]
  BY <1>2, StartsDefined
<1> DEFINE Same(a, b) == /\ b \subseteq 0 .. d /\ a \subseteq 0 .. m
                         /\ \A l \in 0 .. d : l \in b <=> f + l \in a
<1>5. ASSUME NEW t, NEW a, NEW b, Same(a, b)
      PROVE  Same(NextA(t, a), NextB(t, b))
  <2>1. NextA(t, a) \subseteq 0 .. m /\ NextB(t, b) \subseteq 0 .. d
    BY <1>1 DEF StartsBefore
  <2>2. ASSUME NEW l \in 0 .. d, t = StarToken
        PROVE  l \in NextB(t, b) <=> f + l \in NextA(t, a)
    <3> DEFINE OpenA(j, k) == \A h \in j .. k - 1 : Takes(sc, At(text, h))
               OpenB(j, k) == \A h \in j .. k - 1 : Takes(sc, At(rest, h))
    <3>1. f + l \in NextA(t, a) <=> \E k \in a : f + l <= k /\ OpenA(f + l, k)
      BY <1>1, <2>2 DEF StartsBefore
    <3>2. l \in NextB(t, b) <=> \E k \in b : l <= k /\ OpenB(l, k)
      BY <1>1, <2>2 DEF StartsBefore
    <3>3. ASSUME NEW k \in 0 .. d PROVE OpenB(l, k) <=> OpenA(f + l, f + k)
      <4>1. ASSUME OpenA(f + l, f + k), NEW h \in l .. k - 1
            PROVE  Takes(sc, At(rest, h))
        <5>1. f + h \in f + l .. (f + k) - 1 /\ h \in 0 .. (m - f) - 1
          BY <1>1
        <5>2. At(rest, h) = At(text, f + h)
          BY <5>1
        <5> QED BY <4>1, <5>1, <5>2
      <4>2. ASSUME OpenB(l, k), NEW h \in f + l .. (f + k) - 1
            PROVE  Takes(sc, At(text, h))
        <5>1. h - f \in l .. k - 1 /\ h - f \in 0 .. (m - f) - 1 /\ f + (h - f) = h
          BY <1>1
        <5>2. At(rest, h - f) = At(text, h)
          BY <5>1
        <5> QED BY <4>2, <5>1, <5>2
      <4> QED BY <4>1, <4>2
    <3> HIDE DEF OpenA, OpenB
    <3>4. ASSUME NEW k \in b, l <= k, OpenB(l, k)
          PROVE  \E h \in a : f + l <= h /\ OpenA(f + l, h)
      <4>1. k \in 0 .. d /\ f + k \in a /\ f + l <= f + k
        BY <1>5, <3>4
      <4> QED BY <3>3, <3>4, <4>1
    <3>5. ASSUME NEW k \in a, f + l <= k, OpenA(f + l, k)
          PROVE  \E h \in b : l <= h /\ OpenB(l, h)
      <4>1. k - f \in 0 .. d /\ f + (k - f) = k /\ l <= k - f
        BY <1>1, <1>5, <3>5
      <4>2. k - f \in b
        BY <1>5, <4>1
      <4>3. OpenB(l, k - f)
        BY <3>3, <3>5, <4>1
      <4> QED BY <4>1, <4>2, <4>3
    <3> QED BY <3>1, <3>2, <3>4, <3>5
  <2>3. ASSUME NEW l \in 0 .. d, t # StarToken
        PROVE  l \in NextB(t, b) <=> f + l \in NextA(t, a)
    <3> DEFINE Fits(c) == IF t.wild THEN Takes(sc, c) ELSE c = t.char
    <3>1. f + l \in NextA(t, a) <=>
            f + l \in 0 .. m - 1 /\ (f + l) + 1 \in a /\ Fits(At(text, f + l))
      BY <2>3 DEF StartsBefore
    <3>2. l \in NextB(t, b) <=> l \in 0 .. d - 1 /\ l + 1 \in b /\ Fits(At(rest, l))
      BY <1>1, <2>3 DEF StartsBefore
    <3> HIDE DEF Fits
    <3>3. l \in 0 .. d - 1 <=> f + l \in 0 .. m - 1
      BY <1>1
    <3>4. ASSUME l \in 0 .. d - 1
          PROVE  At(rest, l) = At(text, f + l) /\ (l + 1 \in b <=> (f + l) + 1 \in a)
      <4>1. l + 1 \in 0 .. d /\ f + (l + 1) = (f + l) + 1 /\ l \in 0 .. (m - f) - 1
        BY <1>1, <3>4
      <4>2. l + 1 \in b <=> f + (l + 1) \in a
        BY <1>5, <4>1
      <4> QED BY <4>1, <4>2
    <3> QED BY <3>1, <3>2, <3>3, <3>4
  <2> HIDE DEF NextA, NextB
  <2> QED BY <2>1, <2>2, <2>3
<1> DEFINE G == {i \in 0 .. n : Same(A[i], B[i])}
<1>6. Same(LastA, LastB)
  BY <1>1
<1> HIDE DEF NextA, NextB, LastA, LastB, Same
<1>7. ASSUME NEW i \in 0 .. n, \A k \in i + 1 .. n : k \in G
      PROVE  i \in G
  <2>1. CASE i = n
    <3>1. A[i] = LastA /\ B[i] = LastB
      BY <1>3, <1>4, <2>1
    <3> QED BY <1>6, <3>1
  <2>2. CASE i # n
    <3>1. A[i] = NextA(At(toks, i), A[i + 1]) /\ B[i] = NextB(At(toks, i), B[i + 1])
      BY <1>3, <1>4, <2>2
    <3>2. Same(A[i + 1], B[i + 1])
      BY <1>7, <2>2
    <3> QED BY <1>5, <3>1, <3>2
  <2> QED BY <2>1, <2>2
<1>8. 0 \in G
  <2>1. \A i \in 0 .. n : (\A k \in i + 1 .. n : k \in G) => i \in G
    BY <1>7
  <2> HIDE DEF G
  <2>2. \A i \in 0 .. n : i \in G
    BY <2>1, FromTheEnd
  <2> QED BY <2>2
<1> QED BY <1>1, <1>2, <1>8 DEF Same

-----------------------------------------------------------------------------
(* Functions that recurse towards the end of a string, as the parser's     *)
(* scanning loops do.                                                      *)

\* The offsets lo .. n, the widths w of the tokens and the turn `step` of a
\* loop whose values are in R.
Scan(lo, n, w, step, R) ==
    /\ lo \in Nat /\ n \in Nat /\ lo <= n
    /\ \A i \in lo .. n - 1 : i + w[i] \in i + 1 .. n
    /\ \A i \in lo .. n - 1 : \A r \in R : step[i][r] \in R

\* g is what the loop computes from every offset on, starting at the end.
Computes(g, lo, n, w, step, R) ==
    /\ g[n] \in R
    /\ \A i \in lo .. n - 1 : g[i + w[i]] \in R => g[i] = step[i][g[i + w[i]]]

LEMMA Recursion ==
    ASSUME NEW lo, NEW n, NEW w, NEW step, NEW R, Scan(lo, n, w, step, R), NEW base \in R
    PROVE  \E g : /\ g = [i \in lo .. n |-> g[i]]
                  /\ g[n] = base
                  /\ Computes(g, lo, n, w, step, R)
<1>s. /\ lo \in Nat /\ n \in Nat /\ lo <= n
      /\ \A i \in lo .. n - 1 : i + w[i] \in i + 1 .. n
      /\ \A i \in lo .. n - 1 : \A r \in R : step[i][r] \in R
  BY DEF Scan
<1> DEFINE IsTable(g, i) == g = [k \in i .. n |-> IF k = n THEN base ELSE step[k][g[k + w[k]]]]
           G == {i \in 0 .. n : i >= lo => \E g : IsTable(g, i)}
<1>2. ASSUME NEW i \in 0 .. n, \A k \in i + 1 .. n : k \in G, i >= lo
      PROVE  \E g : IsTable(g, i)
  <2>1. CASE i = n
    <3> DEFINE g == [k \in i .. n |-> base]
    <3>1. i .. n = {n}
      BY <1>s, <2>1
    <3>2. IsTable(g, i)
      BY <1>s, <3>1
    <3> QED BY <1>s, <3>2
  <2>2. CASE i # n
    <3>1. i + 1 \in G /\ i \in lo .. n - 1
      BY <1>s, <1>2, <2>2
    <3>2. PICK g : IsTable(g, i + 1)
      BY <1>s, <1>2, <3>1
    <3>3. \A k \in i + 1 .. n : g[k] = IF k = n THEN base ELSE step[k][g[k + w[k]]]
      BY <1>s, <3>2
    <3> DEFINE h == [k \in i .. n |-> IF k > i THEN g[k] ELSE step[i][g[i + w[i]]]]
    <3>4. ASSUME NEW k \in i .. n
          PROVE  h[k] = IF k = n THEN base ELSE step[k][h[k + w[k]]]
      <4>1. CASE k < n
        <5>1. k + w[k] \in k + 1 .. n
          BY <1>s, <3>1, <4>1
        <5>2. h[k + w[k]] = g[k + w[k]]
          <6>1. k + w[k] \in i .. n /\ k + w[k] > i
            BY <1>s, <5>1
          <6> QED BY <6>1
        <5>3. h[k] = step[k][g[k + w[k]]]
          BY <1>s, <3>3, <4>1
        <5> HIDE DEF h
        <5>4. k # n
          BY <1>s, <4>1
        <5> QED BY <5>2, <5>3, <5>4
      <4>2. CASE k = n
        BY <1>s, <2>2, <3>3, <4>2
      <4>3. k < n \/ k = n
        BY <1>s
      <4> HIDE DEF h
      <4> QED BY <4>1, <4>2, <4>3
    <3>5. IsTable(h, i)
      <4>1. h = [k \in i .. n |-> h[k]]
        BY <1>s
      <4> HIDE DEF h
      <4> QED BY <1>s, <3>4, <4>1
    <3> QED BY <1>s, <3>5
  <2> QED BY <1>s, <2>1, <2>2
<1>3. \A i \in 0 .. n : (\A k \in i + 1 .. n : k \in G) => i \in G
  BY <1>s, <1>2
<1>4. \E g : IsTable(g, lo)
  <2>1. \A i \in 0 .. n : i \in G
    <3> HIDE DEF G
    <3> QED BY <1>s, <1>3, FromTheEnd
  <2> QED BY <1>s, <2>1
<1>6. \E g : /\ g = [i \in lo .. n |-> g[i]]
             /\ g[n] = base
             /\ \A i \in lo .. n - 1 : g[i] = step[i][g[i + w[i]]]
  <2>1. PICK g : IsTable(g, lo)
    BY <1>s, <1>4
  <2>2. ASSUME NEW i \in lo .. n PROVE g[i] = IF i = n THEN base ELSE step[i][g[i + w[i]]]
    BY <1>s, <2>1
  <2>3. g[n] = base
    BY <1>s, <2>2
  <2>4. ASSUME NEW i \in lo .. n - 1 PROVE g[i] = step[i][g[i + w[i]]]
    <3>1. i \in lo .. n /\ i # n
      BY <1>s
    <3> QED BY <1>s, <2>2, <3>1
  <2>5. g = [i \in lo .. n |-> g[i]]
    BY <1>s, <2>1
  <2> QED BY <1>s, <2>3, <2>4, <2>5, Zenon
<1> QED BY <1>6 DEF Computes

LEMMA RecursionTyped ==
    ASSUME NEW lo, NEW n, NEW w, NEW step, NEW R, Scan(lo, n, w, step, R),
           NEW h, Computes(h, lo, n, w, step, R)
    PROVE  \A i \in lo .. n : h[i] \in R
<1>s. /\ lo \in Nat /\ n \in Nat /\ lo <= n
      /\ \A i \in lo .. n - 1 : i + w[i] \in i + 1 .. n
      /\ \A i \in lo .. n - 1 : \A r \in R : step[i][r] \in R
      /\ h[n] \in R
      /\ \A i \in lo .. n - 1 : h[i + w[i]] \in R => h[i] = step[i][h[i + w[i]]]
  BY DEF Scan, Computes
<1> DEFINE H == {i \in 0 .. n : i >= lo => h[i] \in R}
<1>1. ASSUME NEW i \in 0 .. n, \A k \in i + 1 .. n : k \in H, i >= lo
      PROVE  h[i] \in R
  <2>1. CASE i = n
    BY <1>s, <2>1
  <2>2. CASE i # n
    <3>1. i \in lo .. n - 1 /\ i + w[i] \in i + 1 .. n
      BY <1>s, <1>1, <2>2
    <3>2. h[i + w[i]] \in R
      BY <1>s, <1>1, <3>1
    <3> QED BY <1>s, <3>1, <3>2
  <2> QED BY <1>s, <2>1, <2>2
<1>2. \A i \in 0 .. n : (\A k \in i + 1 .. n : k \in H) => i \in H
  BY <1>s, <1>1
<1>3. \A i \in 0 .. n : i \in H
  <2> HIDE DEF H
  <2> QED BY <1>s, <1>2, FromTheEnd
<1> QED BY <1>s, <1>3

LEMMA UpTo ==
    ASSUME NEW x \in Strings, NEW end \in 0 .. Len(x), NEW i \in 0 .. end - 1
    PROVE  /\ WidthAt(x, i, end) \in {1, 2} /\ i + WidthAt(x, i, end) \in i + 1 .. end
           /\ LiteralAt(x, i, end) \in STRING
<1>1. PICK n \in Nat : n = Len(x)
  BY DEF Strings
<1>2. \A k \in 1 .. n : x[k] \in STRING
  BY <1>1 DEF Strings
<1>3. At(x, i) \in STRING /\ (i + 1 < end => At(x, i + 1) \in STRING)
  BY <1>1, <1>2 DEF At
<1>4. IsEscapeAt(x, i, end) => i + 1 < end
  BY DEF IsEscapeAt
<1> QED BY <1>1, <1>3, <1>4 DEF WidthAt, LiteralAt

\* The function that the loop of Unescape computes.
Unescaped(x, from, end, lits) ==
    /\ lits[end] = << >>
    /\ \A i \in from .. end : lits[i] \in Strings
    /\ \A i \in from .. end - 1 :
         lits[i] = << LiteralAt(x, i, end) >> \o lits[i + WidthAt(x, i, end)]

LEMMA UnescapeFacts ==
    ASSUME NEW x \in Strings, NEW end \in 0 .. Len(x), NEW from \in 0 .. end
    PROVE  \E lits : Unescape(x, from, end) = lits[from] /\ Unescaped(x, from, end, lits)
<1>1. PICK n \in Nat : n = end
  BY DEF Strings
<1>f. from \in Nat /\ from <= n
  BY <1>1
<1> DEFINE Glue(i, r) == << LiteralAt(x, i, end) >> \o r
           Nil == << >>
<1>w. PICK w : w = [i \in from .. n - 1 |-> WidthAt(x, i, end)]
  OBVIOUS
<1>s. PICK step : step = [i \in from .. n - 1 |-> [r \in Strings |-> Glue(i, r)]]
  OBVIOUS
<1>2. ASSUME NEW i \in from .. n - 1
      PROVE  /\ w[i] = WidthAt(x, i, end) /\ i + w[i] \in i + 1 .. n
             /\ \A r \in Strings : Glue(i, r) \in Strings /\ step[i][r] = Glue(i, r)
  <2>0. i \in 0 .. end - 1
    BY <1>1
  <2>1. LiteralAt(x, i, end) \in STRING /\ i + WidthAt(x, i, end) \in i + 1 .. end
    BY <2>0, UpTo
  <2>2. \A r \in Strings : Glue(i, r) \in Strings
    BY <2>1 DEF Strings
  <2> HIDE DEF Glue
  <2> QED BY <1>1, <1>w, <1>s, <2>1, <2>2
<1>3. Nil \in Strings
  BY DEF Strings
<1> HIDE DEF Glue, Nil
<1>r. Scan(from, n, w, step, Strings)
  BY <1>1, <1>f, <1>2 DEF Scan
<1>4. PICK g : /\ g = [i \in from .. n |-> g[i]] /\ g[n] = Nil
               /\ Computes(g, from, n, w, step, Strings)
  BY <1>r, <1>3, Recursion
<1>5. \A i \in from .. n : g[i] \in Strings
  BY <1>r, <1>4, RecursionTyped
<1>6. \A i \in from .. n : g[i] = IF i = n THEN Nil ELSE Glue(i, g[i + WidthAt(x, i, end)])
  <2>1. ASSUME NEW i \in from .. n - 1 PROVE g[i] = Glue(i, g[i + WidthAt(x, i, end)])
    <3>1. i + w[i] \in from .. n /\ w[i] = WidthAt(x, i, end)
      BY <1>f, <1>2
    <3>2. g[i + w[i]] \in Strings
      BY <1>5, <3>1
    <3>3. g[i] = step[i][g[i + w[i]]]
      BY <3>2, <1>4 DEF Computes
    <3> QED BY <1>2, <3>1, <3>2, <3>3
  <2>2. \A i \in from .. n : i = n \/ i \in from .. n - 1
    BY <1>f
  <2> QED BY <1>4, <2>1, <2>2
<1>7. g = [i \in from .. n |-> IF i = n THEN Nil ELSE Glue(i, g[i + WidthAt(x, i, end)])]
  BY <1>4, <1>6
<1>8. g = [i \in from .. end |-> IF i = end THEN << >>
                     ELSE << LiteralAt(x, i, end) >> \o g[i + WidthAt(x, i, end)]]
  BY <1>1, <1>7, Zenon DEF Nil, Glue
<1>9. PICK lits : /\ Unescape(x, from, end) = lits[from]
                  /\ lits = [i \in from .. end |-> IF i = end THEN << >>
                       ELSE << LiteralAt(x, i, end) >> \o lits[i + WidthAt(x, i, end)]]
  BY <1>8 DEF Unescape
<1>10. lits = [i \in from .. n |-> IF i = n THEN Nil ELSE Glue(i, lits[i + WidthAt(x, i, end)])]
  BY <1>1, <1>9, Zenon DEF Nil, Glue
<1>11. lits[n] = Nil /\ \A i \in from .. n - 1 : lits[i] = Glue(i, lits[i + WidthAt(x, i, end)])
  BY <1>f, <1>10
<1>12. \A i \in from .. n : lits[i] \in Strings
  <2>1. \A i \in from .. n - 1 : lits[i + w[i]] \in Strings => lits[i] = step[i][lits[i + w[i]]]
    BY <1>2, <1>11
  <2>2. Computes(lits, from, n, w, step, Strings)
    BY <1>3, <1>11, <2>1 DEF Computes
  <2> QED BY <1>r, <2>2, RecursionTyped
<1>13. \A i \in from .. n - 1 : lits[i] = << LiteralAt(x, i, end) >> \o lits[i + WidthAt(x, i, end)]
  BY <1>11, Zenon DEF Glue
<1>14. lits[end] = << >>
  BY <1>1, <1>11, Zenon DEF Nil
<1>15. Unescaped(x, from, end, lits)
  BY <1>1, <1>12, <1>13, <1>14 DEF Unescaped
<1> QED BY <1>9, <1>15

LEMMA MaxOfTwo ==
    ASSUME NEW a \in Nat, NEW b \in Nat
    PROVE  Max({a, b}) = IF a >= b THEN a ELSE b
<1> DEFINE m == IF a >= b THEN a ELSE b
<1>1. m \in {a, b} /\ \A y \in {a, b} : m >= y
  OBVIOUS
<1>2. \A z \in {a, b} : (\A y \in {a, b} : z >= y) => z = m
  OBVIOUS
<1> HIDE DEF m
<1>3. Max({a, b}) \in {a, b} /\ \A y \in {a, b} : Max({a, b}) >= y
  BY <1>1, Zenon DEF Max
<1>4. Max({a, b}) = m
  BY <1>2, <1>3, Zenon
<1> QED BY <1>4 DEF m

LEMMA PrefixRawLenFacts ==
    ASSUME NEW x \in Strings
    PROVE  \E f : /\ PrefixRawLen(x) = f[0]
                  /\ f[Len(x)] = Len(x)
                  /\ \A i \in 0 .. Len(x) - 1 : f[i] = IF At(x, i) \in Wild THEN i ELSE f[i + W(x, i)]
                  /\ \A i \in 0 .. Len(x) : f[i] \in 0 .. Len(x)
<1>1. PICK n \in Nat : n = Len(x)
  BY DEF Strings
<1> DEFINE Turn(i, r) == IF At(x, i) \in Wild THEN i ELSE r
           AtEnd == Len(x)
           V == 0 .. Len(x)
<1>w. PICK w : w = [i \in 0 .. n - 1 |-> W(x, i)]
  OBVIOUS
<1>s. PICK step : step = [i \in 0 .. n - 1 |-> [r \in V |-> Turn(i, r)]]
  OBVIOUS
<1>2. ASSUME NEW i \in 0 .. n - 1
      PROVE  /\ w[i] = W(x, i) /\ i + w[i] \in i + 1 .. n
             /\ \A r \in V : Turn(i, r) \in V /\ step[i][r] = Turn(i, r)
  <2>1. i + W(x, i) \in i + 1 .. n
    BY <1>1, TokenFacts
  <2>2. \A r \in V : Turn(i, r) \in V
    BY <1>1
  <2> HIDE DEF Turn
  <2> QED BY <1>w, <1>s, <2>1, <2>2
<1>3. AtEnd \in V
  BY <1>1
<1>l. AtEnd = Len(x) /\ V = 0 .. Len(x)
  BY <1>1
<1> HIDE DEF Turn, AtEnd, V
<1>r. Scan(0, n, w, step, V)
  BY <1>1, <1>2 DEF Scan
<1>4. PICK g : /\ g = [i \in 0 .. n |-> g[i]] /\ g[n] = AtEnd
               /\ Computes(g, 0, n, w, step, V)
  BY <1>r, <1>3, Recursion
<1>5. \A i \in 0 .. n : g[i] \in V
  BY <1>r, <1>4, RecursionTyped
<1>6. \A i \in 0 .. n : g[i] = IF i = n THEN AtEnd ELSE Turn(i, g[i + W(x, i)])
  <2>1. ASSUME NEW i \in 0 .. n - 1 PROVE g[i] = Turn(i, g[i + W(x, i)])
    <3>1. i + w[i] \in 0 .. n /\ w[i] = W(x, i)
      BY <1>2
    <3>2. g[i + w[i]] \in V
      BY <1>5, <3>1
    <3>3. g[i] = step[i][g[i + w[i]]]
      BY <1>4, <3>2 DEF Computes
    <3> QED BY <1>2, <3>1, <3>2, <3>3
  <2>2. \A i \in 0 .. n : i = n \/ i \in 0 .. n - 1
    OBVIOUS
  <2> QED BY <1>4, <2>1, <2>2
<1>7. g = [i \in 0 .. n |-> IF i = n THEN AtEnd ELSE Turn(i, g[i + W(x, i)])]
  BY <1>4, <1>6
<1>8. g = [i \in 0 .. Len(x) |-> IF i = Len(x) \/ At(x, i) \in Wild THEN i
                     ELSE g[i + WidthAt(x, i, Len(x))]]
  BY <1>1, <1>7, Zenon DEF AtEnd, Turn, W
<1>9. PICK f : /\ PrefixRawLen(x) = f[0]
               /\ f = [i \in 0 .. Len(x) |-> IF i = Len(x) \/ At(x, i) \in Wild THEN i
                     ELSE f[i + WidthAt(x, i, Len(x))]]
  BY <1>8 DEF PrefixRawLen
<1>10. f = [i \in 0 .. n |-> IF i = n THEN AtEnd ELSE Turn(i, f[i + W(x, i)])]
  BY <1>1, <1>9, Zenon DEF AtEnd, Turn, W
<1>11. f[n] = AtEnd /\ \A i \in 0 .. n - 1 : f[i] = Turn(i, f[i + W(x, i)])
  BY <1>10
<1>12. \A i \in 0 .. n : f[i] \in V
  <2>1. \A i \in 0 .. n - 1 : f[i + w[i]] \in V => f[i] = step[i][f[i + w[i]]]
    BY <1>2, <1>11
  <2>2. Computes(f, 0, n, w, step, V)
    BY <1>3, <1>11, <2>1 DEF Computes
  <2> QED BY <1>r, <2>2, RecursionTyped
<1>13. \A i \in 0 .. n - 1 : f[i] = IF At(x, i) \in Wild THEN i ELSE f[i + W(x, i)]
  BY <1>11, Zenon DEF Turn
<1> QED BY <1>1, <1>9, <1>11, <1>12, <1>13, <1>l

LEMMA SuffixMinLengthFacts ==
    ASSUME NEW x \in Strings
    PROVE  \E f : /\ SuffixMinLength(x) = f[0]
                  /\ f[Len(x)] = 0
                  /\ \A i \in 0 .. Len(x) - 1 : f[i] = (IF At(x, i) = kStar THEN 0 ELSE 1) + f[i + W(x, i)]
                  /\ \A i \in 0 .. Len(x) : f[i] \in Nat
<1>1. PICK n \in Nat : n = Len(x)
  BY DEF Strings
<1> DEFINE Turn(i, r) == (IF At(x, i) = kStar THEN 0 ELSE 1) + r
           AtEnd == 0
           V == Nat
<1>w. PICK w : w = [i \in 0 .. n - 1 |-> W(x, i)]
  OBVIOUS
<1>s. PICK step : step = [i \in 0 .. n - 1 |-> [r \in V |-> Turn(i, r)]]
  OBVIOUS
<1>2. ASSUME NEW i \in 0 .. n - 1
      PROVE  /\ w[i] = W(x, i) /\ i + w[i] \in i + 1 .. n
             /\ \A r \in V : Turn(i, r) \in V /\ step[i][r] = Turn(i, r)
  <2>1. i + W(x, i) \in i + 1 .. n
    BY <1>1, TokenFacts
  <2>2. \A r \in V : Turn(i, r) \in V
    BY <1>1
  <2> HIDE DEF Turn
  <2> QED BY <1>w, <1>s, <2>1, <2>2
<1>3. AtEnd \in V
  BY <1>1
<1>l. AtEnd = 0 /\ V = Nat
  BY <1>1
<1> HIDE DEF Turn, AtEnd, V
<1>r. Scan(0, n, w, step, V)
  BY <1>1, <1>2 DEF Scan
<1>4. PICK g : /\ g = [i \in 0 .. n |-> g[i]] /\ g[n] = AtEnd
               /\ Computes(g, 0, n, w, step, V)
  BY <1>r, <1>3, Recursion
<1>5. \A i \in 0 .. n : g[i] \in V
  BY <1>r, <1>4, RecursionTyped
<1>6. \A i \in 0 .. n : g[i] = IF i = n THEN AtEnd ELSE Turn(i, g[i + W(x, i)])
  <2>1. ASSUME NEW i \in 0 .. n - 1 PROVE g[i] = Turn(i, g[i + W(x, i)])
    <3>1. i + w[i] \in 0 .. n /\ w[i] = W(x, i)
      BY <1>2
    <3>2. g[i + w[i]] \in V
      BY <1>5, <3>1
    <3>3. g[i] = step[i][g[i + w[i]]]
      BY <1>4, <3>2 DEF Computes
    <3> QED BY <1>2, <3>1, <3>2, <3>3
  <2>2. \A i \in 0 .. n : i = n \/ i \in 0 .. n - 1
    OBVIOUS
  <2> QED BY <1>4, <2>1, <2>2
<1>7. g = [i \in 0 .. n |-> IF i = n THEN AtEnd ELSE Turn(i, g[i + W(x, i)])]
  BY <1>4, <1>6
<1>8. g = [i \in 0 .. Len(x) |-> IF i = Len(x) THEN 0
                     ELSE (IF At(x, i) = kStar THEN 0 ELSE 1) + g[i + WidthAt(x, i, Len(x))]]
  BY <1>1, <1>7, Zenon DEF AtEnd, Turn, W
<1>9. PICK f : /\ SuffixMinLength(x) = f[0]
               /\ f = [i \in 0 .. Len(x) |-> IF i = Len(x) THEN 0
                     ELSE (IF At(x, i) = kStar THEN 0 ELSE 1) + f[i + WidthAt(x, i, Len(x))]]
  BY <1>8 DEF SuffixMinLength
<1>10. f = [i \in 0 .. n |-> IF i = n THEN AtEnd ELSE Turn(i, f[i + W(x, i)])]
  BY <1>1, <1>9, Zenon DEF AtEnd, Turn, W
<1>11. f[n] = AtEnd /\ \A i \in 0 .. n - 1 : f[i] = Turn(i, f[i + W(x, i)])
  BY <1>10
<1>12. \A i \in 0 .. n : f[i] \in V
  <2>1. \A i \in 0 .. n - 1 : f[i + w[i]] \in V => f[i] = step[i][f[i + w[i]]]
    BY <1>2, <1>11
  <2>2. Computes(f, 0, n, w, step, V)
    BY <1>3, <1>11, <2>1 DEF Computes
  <2> QED BY <1>r, <2>2, RecursionTyped
<1>13. \A i \in 0 .. n - 1 : f[i] = (IF At(x, i) = kStar THEN 0 ELSE 1) + f[i + W(x, i)]
  BY <1>11, Zenon DEF Turn
<1> QED BY <1>1, <1>9, <1>11, <1>12, <1>13, <1>l

LEMMA LastWildcardEndFacts ==
    ASSUME NEW x \in Strings
    PROVE  \E f : /\ LastWildcardEnd(x) = f[0]
                  /\ f[Len(x)] = 0
                  /\ \A i \in 0 .. Len(x) - 1 : f[i] = Max({f[i + W(x, i)], IF At(x, i) \in Wild THEN i + 1 ELSE 0})
                  /\ \A i \in 0 .. Len(x) : f[i] \in 0 .. Len(x)
<1>1. PICK n \in Nat : n = Len(x)
  BY DEF Strings
<1> DEFINE Turn(i, r) == Max({r, IF At(x, i) \in Wild THEN i + 1 ELSE 0})
           AtEnd == 0
           V == 0 .. Len(x)
<1>w. PICK w : w = [i \in 0 .. n - 1 |-> W(x, i)]
  OBVIOUS
<1>s. PICK step : step = [i \in 0 .. n - 1 |-> [r \in V |-> Turn(i, r)]]
  OBVIOUS
<1>2. ASSUME NEW i \in 0 .. n - 1
      PROVE  /\ w[i] = W(x, i) /\ i + w[i] \in i + 1 .. n
             /\ \A r \in V : Turn(i, r) \in V /\ step[i][r] = Turn(i, r)
  <2>1. i + W(x, i) \in i + 1 .. n
    BY <1>1, TokenFacts
  <2>2. \A r \in V : Turn(i, r) \in V
    BY <1>1, MaxOfTwo
  <2> HIDE DEF Turn
  <2> QED BY <1>w, <1>s, <2>1, <2>2
<1>3. AtEnd \in V
  BY <1>1
<1>l. AtEnd = 0 /\ V = 0 .. Len(x)
  BY <1>1
<1> HIDE DEF Turn, AtEnd, V
<1>r. Scan(0, n, w, step, V)
  BY <1>1, <1>2 DEF Scan
<1>4. PICK g : /\ g = [i \in 0 .. n |-> g[i]] /\ g[n] = AtEnd
               /\ Computes(g, 0, n, w, step, V)
  BY <1>r, <1>3, Recursion
<1>5. \A i \in 0 .. n : g[i] \in V
  BY <1>r, <1>4, RecursionTyped
<1>6. \A i \in 0 .. n : g[i] = IF i = n THEN AtEnd ELSE Turn(i, g[i + W(x, i)])
  <2>1. ASSUME NEW i \in 0 .. n - 1 PROVE g[i] = Turn(i, g[i + W(x, i)])
    <3>1. i + w[i] \in 0 .. n /\ w[i] = W(x, i)
      BY <1>2
    <3>2. g[i + w[i]] \in V
      BY <1>5, <3>1
    <3>3. g[i] = step[i][g[i + w[i]]]
      BY <1>4, <3>2 DEF Computes
    <3> QED BY <1>2, <3>1, <3>2, <3>3
  <2>2. \A i \in 0 .. n : i = n \/ i \in 0 .. n - 1
    OBVIOUS
  <2> QED BY <1>4, <2>1, <2>2
<1>7. g = [i \in 0 .. n |-> IF i = n THEN AtEnd ELSE Turn(i, g[i + W(x, i)])]
  BY <1>4, <1>6
<1>8. g = [i \in 0 .. Len(x) |-> IF i = Len(x) THEN 0
                     ELSE Max({g[i + WidthAt(x, i, Len(x))],
                               IF At(x, i) \in Wild THEN i + 1 ELSE 0})]
  BY <1>1, <1>7, Zenon DEF AtEnd, Turn, W
<1>9. PICK f : /\ LastWildcardEnd(x) = f[0]
               /\ f = [i \in 0 .. Len(x) |-> IF i = Len(x) THEN 0
                     ELSE Max({f[i + WidthAt(x, i, Len(x))],
                               IF At(x, i) \in Wild THEN i + 1 ELSE 0})]
  BY <1>8 DEF LastWildcardEnd
<1>10. f = [i \in 0 .. n |-> IF i = n THEN AtEnd ELSE Turn(i, f[i + W(x, i)])]
  BY <1>1, <1>9, Zenon DEF AtEnd, Turn, W
<1>11. f[n] = AtEnd /\ \A i \in 0 .. n - 1 : f[i] = Turn(i, f[i + W(x, i)])
  BY <1>10
<1>12. \A i \in 0 .. n : f[i] \in V
  <2>1. \A i \in 0 .. n - 1 : f[i + w[i]] \in V => f[i] = step[i][f[i + w[i]]]
    BY <1>2, <1>11
  <2>2. Computes(f, 0, n, w, step, V)
    BY <1>3, <1>11, <2>1 DEF Computes
  <2> QED BY <1>r, <2>2, RecursionTyped
<1>13. \A i \in 0 .. n - 1 : f[i] = Max({f[i + W(x, i)], IF At(x, i) \in Wild THEN i + 1 ELSE 0})
  BY <1>11, Zenon DEF Turn
<1> QED BY <1>1, <1>9, <1>11, <1>12, <1>13, <1>l

-----------------------------------------------------------------------------
(* The parts of a pattern.                                                 *)

\* Upper-casing works character by character.
FoldedChar(c, a) == IF c THEN ToUpperFast(a) ELSE a

LEMMA FoldString ==
    ASSUME NEW c \in BOOLEAN, NEW x \in Strings
    PROVE  /\ Fold(c, x) \in Strings /\ Len(Fold(c, x)) = Len(x)
           /\ \A i \in 1 .. Len(x) : Fold(c, x)[i] = FoldedChar(c, x[i])
<1>1. PICK n \in Nat : n = Len(x)
  BY DEF Strings
<1>2. DOMAIN x = 1 .. n /\ \A i \in 1 .. n : x[i] \in STRING
  BY <1>1 DEF Strings
<1>3. \A a \in STRING : ToUpperFast(a) \in STRING
  BY UpperAssumption DEF ToUpperFast
<1>4. CASE c
  <2>1. Fold(c, x) = [i \in 1 .. n |-> ToUpperFast(x[i])]
    BY <1>2, <1>4 DEF Fold
  <2> DEFINE Up(i) == ToUpperFast(x[i])
  <2>2. \A i \in 1 .. n : Up(i) \in STRING
    BY <1>2, <1>3
  <2> HIDE DEF Up
  <2>3. [i \in 1 .. n |-> Up(i)] \in Seq(STRING) /\ Len([i \in 1 .. n |-> Up(i)]) = n
    BY <2>2
  <2> QED BY <1>1, <1>4, <2>1, <2>3 DEF Up, FoldedChar, Strings
<1>5. CASE ~c
  BY <1>1, <1>5 DEF Fold, FoldedChar
<1> QED BY <1>4, <1>5

LEMMA SameString ==
    ASSUME NEW x \in Strings, NEW y \in Strings, Len(x) = Len(y),
           \A i \in 1 .. Len(x) : x[i] = y[i]
    PROVE  x = y
  BY SeqEqual DEF Strings

LEMMA SubString ==
    ASSUME NEW x \in Strings, NEW m \in 1 .. Len(x) + 1, NEW n \in m - 1 .. Len(x)
    PROVE  /\ SubSeq(x, m, n) \in Strings /\ Len(SubSeq(x, m, n)) = (n - m) + 1
           /\ \A i \in 1 .. (n - m) + 1 : SubSeq(x, m, n)[i] = x[(m + i) - 1]
  BY DEF Strings

\* Two strings after each other: the characters of the first and then of the second.
Joins(x, y) ==
    /\ x \o y \in Strings /\ Len(x \o y) = Len(x) + Len(y)
    /\ \A i \in 1 .. Len(x) : (x \o y)[i] = x[i]
    /\ \A i \in 1 .. Len(y) : (x \o y)[Len(x) + i] = y[i]

LEMMA Joined ==
    ASSUME NEW x \in Strings, NEW y \in Strings
    PROVE  Joins(x, y)
  BY DEF Joins, Strings

\* The buffer of a pattern holds its prefix and then its wildcard part.
LEMMA FoldJoined ==
    ASSUME NEW c \in BOOLEAN, NEW x \in Strings, NEW y \in Strings
    PROVE  /\ SubSeq(Fold(c, x \o y), 1, Len(x)) = Fold(c, x)
           /\ \A k \in 0 .. Len(y) :
                SubSeq(Fold(c, x \o y), Len(x) + 1, Len(x) + k) = SubSeq(Fold(c, y), 1, k)
<1>1. PICK a \in Nat, b \in Nat : a = Len(x) /\ b = Len(y)
  BY DEF Strings
<1>i. PICK xy : xy = x \o y
  OBVIOUS
<1>j. /\ xy \in Strings /\ Len(xy) = a + b
      /\ \A i \in 1 .. a : xy[i] = x[i]
      /\ \A i \in 1 .. b : xy[a + i] = y[i]
  <2>1. Joins(x, y)
    BY Joined
  <2> QED BY <1>1, <1>i, <2>1, Zenon DEF Joins
<1>2. PICK z \in Strings : /\ z = Fold(c, xy) /\ Len(z) = a + b
                           /\ \A i \in 1 .. a + b : z[i] = FoldedChar(c, xy[i])
  <2>1. /\ Fold(c, xy) \in Strings /\ Len(Fold(c, xy)) = Len(xy)
        /\ \A i \in 1 .. Len(xy) : Fold(c, xy)[i] = FoldedChar(c, xy[i])
    <3>1. xy \in Strings
      BY <1>j
    <3> QED BY <3>1, FoldString
  <2>2. Len(xy) = a + b
    BY <1>j
  <2> QED BY <2>1, <2>2
<1>3. PICK u \in Strings, v \in Strings :
        /\ u = Fold(c, x) /\ v = Fold(c, y) /\ Len(u) = a /\ Len(v) = b
        /\ \A i \in 1 .. a : u[i] = FoldedChar(c, x[i])
        /\ \A i \in 1 .. b : v[i] = FoldedChar(c, y[i])
  BY <1>1, FoldString
<1>4. ASSUME NEW i \in 1 .. a PROVE z[i] = u[i]
  <2>1. i \in 1 .. a + b
    OBVIOUS
  <2>2. z[i] = FoldedChar(c, xy[i])
    BY <1>2, <2>1
  <2>3. xy[i] = x[i] /\ u[i] = FoldedChar(c, x[i])
    BY <1>j, <1>3
  <2> QED BY <2>2, <2>3
<1>5. ASSUME NEW i \in 1 .. b PROVE z[a + i] = v[i]
  <2>1. a + i \in 1 .. a + b /\ xy[a + i] = y[i]
    BY <1>j
  <2>2. z[a + i] = FoldedChar(c, xy[a + i]) /\ v[i] = FoldedChar(c, y[i])
    BY <1>2, <1>3, <2>1
  <2> QED BY <2>1, <2>2
<1>6. SubSeq(z, 1, a) = u
  <2>1. 1 \in 1 .. Len(z) + 1 /\ a \in 1 - 1 .. Len(z)
    BY <1>2
  <2>2. /\ SubSeq(z, 1, a) \in Strings /\ Len(SubSeq(z, 1, a)) = a
        /\ \A i \in 1 .. a : SubSeq(z, 1, a)[i] = z[i]
    BY <2>1, SubString
  <2>3. \A i \in 1 .. a : SubSeq(z, 1, a)[i] = u[i]
    BY <1>4, <2>2
  <2> QED BY <1>3, <2>2, <2>3, SameString
<1>7. ASSUME NEW k \in 0 .. b PROVE SubSeq(z, a + 1, a + k) = SubSeq(v, 1, k)
  <2>1. a + 1 \in 1 .. Len(z) + 1 /\ a + k \in (a + 1) - 1 .. Len(z)
    BY <1>2
  <2>2. /\ SubSeq(z, a + 1, a + k) \in Strings /\ Len(SubSeq(z, a + 1, a + k)) = k
        /\ \A i \in 1 .. k : SubSeq(z, a + 1, a + k)[i] = z[a + i]
    <3>1. ((a + k) - (a + 1)) + 1 = k /\ \A i \in 1 .. k : ((a + 1) + i) - 1 = a + i
      OBVIOUS
    <3>2. PICK g \in 1 .. Len(z) + 1 : g = a + 1
      BY <2>1
    <3>3. PICK h \in g - 1 .. Len(z) : h = a + k
      BY <2>1, <3>2
    <3>4. /\ SubSeq(z, g, h) \in Strings /\ Len(SubSeq(z, g, h)) = (h - g) + 1
          /\ \A i \in 1 .. (h - g) + 1 : SubSeq(z, g, h)[i] = z[(g + i) - 1]
      BY SubString
    <3> QED BY <3>1, <3>2, <3>3, <3>4
  <2>3. 1 \in 1 .. Len(v) + 1 /\ k \in 1 - 1 .. Len(v)
    BY <1>3
  <2>4. /\ SubSeq(v, 1, k) \in Strings /\ Len(SubSeq(v, 1, k)) = k
        /\ \A i \in 1 .. k : SubSeq(v, 1, k)[i] = v[i]
    BY <2>3, SubString
  <2>5. \A i \in 1 .. k : z[a + i] = v[i]
    BY <1>5
  <2>6. \A i \in 1 .. k : SubSeq(z, a + 1, a + k)[i] = SubSeq(v, 1, k)[i]
    BY <2>2, <2>4, <2>5
  <2> QED BY <2>2, <2>4, <2>6, SameString
<1> QED BY <1>1, <1>i, <1>2, <1>3, <1>6, <1>7

\* What the parser makes of a pattern.
LEMMA Parsed ==
    ASSUME NEW x \in Strings
    PROVE  /\ PrefixRawLen(x) \in 0 .. Len(x)
           /\ Prefix(x) \in Strings /\ WildPart(x) \in Strings
           /\ x = << >> => Prefix(x) = << >> /\ WildPart(x) = << >>
           /\ LastWildcardEnd(x) \in 0 .. Len(x) /\ SuffixMinLength(x) \in Nat
           /\ x = << >> => LastWildcardEnd(x) = 0
           /\ TailAnchor(x) \in Strings /\ FirstLiteralChar(x) \in Strings
           /\ x = << >> => TailAnchor(x) = << >>
<1>1. PICK n \in Nat : n = Len(x)
  BY DEF Strings
<1>e. x = << >> => n = 0
  BY <1>1
<1>2. PICK b \in 0 .. n : b = PrefixRawLen(x)
  BY <1>1, PrefixRawLenFacts
<1>3. PICK e \in 0 .. n : e = LastWildcardEnd(x) /\ (n = 0 => e = 0)
  BY <1>1, LastWildcardEndFacts
<1>4. SuffixMinLength(x) \in Nat
  BY <1>1, SuffixMinLengthFacts
<1>5. Prefix(x) \in Strings /\ (b = 0 => Prefix(x) = << >>)
  <2>1. PICK lits : /\ Unescape(x, 0, b) = lits[0] /\ lits[b] = << >>
                    /\ \A i \in 0 .. b : lits[i] \in Strings
    BY <1>1, UnescapeFacts DEF Unescaped
  <2> QED BY <1>2, <2>1 DEF Prefix
<1>6. TailAnchor(x) \in Strings /\ (e = n => TailAnchor(x) = << >>)
  <2>1. PICK lits : /\ Unescape(x, e, n) = lits[e] /\ lits[n] = << >>
                    /\ \A i \in e .. n : lits[i] \in Strings
    BY <1>1, UnescapeFacts DEF Unescaped
  <2> QED BY <1>1, <1>3, <2>1 DEF TailAnchor
<1>7. WildPart(x) \in Strings /\ (n = 0 => WildPart(x) = << >>)
  <2>1. b + 1 \in 1 .. Len(x) + 1 /\ Len(x) \in (b + 1) - 1 .. Len(x)
    BY <1>1
  <2>2. WildPart(x) \in Strings /\ Len(WildPart(x)) = (Len(x) - (b + 1)) + 1
    BY <1>2, <2>1, SubString DEF WildPart
  <2>3. n = 0 => Len(WildPart(x)) = 0
    BY <1>1, <2>2
  <2> QED BY <2>2, <2>3 DEF Strings
<1>8. FirstLiteralChar(x) \in Strings
  <2> DEFINE T == {i \in 0 .. e : i = e \/ At(x, i) \notin Wild}
  <2>1. PICK j : j = Min(T)
    OBVIOUS
  <2>2. T \subseteq Nat /\ e \in T
    OBVIOUS
  <2>3. j \in 0 .. e
    <3>1. T \subseteq 0 .. e
      OBVIOUS
    <3> HIDE DEF T
    <3> QED BY <2>1, <2>2, <3>1, MinFacts
  <2>4. j < e => LiteralAt(x, j, e) \in STRING
    BY <1>1, <2>3, UpTo
  <2>5. j < e => << LiteralAt(x, j, e) >> \in Strings
    BY <2>4 DEF Strings
  <2>6. << >> \in Strings
    BY DEF Strings
  <2>7. FirstLiteralChar(x)
          = IF j < e /\ \A c \in Wild : \E i \in 0 .. j - 1 : At(x, i) = c
            THEN << LiteralAt(x, j, e) >> ELSE << >>
    BY <1>3, <2>1, Zenon DEF FirstLiteralChar
  <2> QED BY <2>5, <2>6, <2>7
<1> QED BY <1>1, <1>e, <1>2, <1>3, <1>4, <1>5, <1>6, <1>7, <1>8

\* Part of a sequence, and two sequences put together.
LEMMA PartFacts ==
    ASSUME NEW T, NEW x \in Seq(T), NEW m \in 1 .. Len(x) + 1, NEW n \in m - 1 .. Len(x)
    PROVE  /\ SubSeq(x, m, n) \in Seq(T) /\ Len(SubSeq(x, m, n)) = (n - m) + 1
           /\ \A i \in 1 .. (n - m) + 1 : SubSeq(x, m, n)[i] = x[(m + i) - 1]
  OBVIOUS

LEMMA JoinFacts ==
    ASSUME NEW T, NEW x \in Seq(T), NEW y \in Seq(T)
    PROVE  /\ x \o y \in Seq(T) /\ Len(x \o y) = Len(x) + Len(y)
           /\ \A i \in 1 .. Len(x) : (x \o y)[i] = x[i]
           /\ \A i \in 1 .. Len(y) : (x \o y)[Len(x) + i] = y[i]
  OBVIOUS

-----------------------------------------------------------------------------
(* What the parts of a pattern match.                                      *)


\* A match starts inside the text or at its end.
LEMMA StartsInText ==
    ASSUME NEW x \in Strings, NEW i \in 0 .. Len(x), NEW text \in Strings, NEW sc
    PROVE  StartsAt(x, i, text, sc) \subseteq 0 .. Len(text) /\ NeedAt(x, i) \in Nat
<1>1. PICK n \in Nat : n = Len(x)
  BY DEF Strings
<1>2. PICK m \in Nat : m = Len(text)
  BY DEF Strings
<1>3. CASE i = n
  BY <1>1, <1>2, <1>3, PatternEnds
<1>4. CASE i # n
  <2>1. i \in 0 .. Len(x) - 1
    BY <1>1, <1>4
  <2>2. /\ StartsAt(x, i, text, sc)
              = StartsBefore(TokenAt(x, i), StartsAt(x, i + W(x, i), text, sc), text, sc)
        /\ NeedAt(x, i + W(x, i)) \in Nat
        /\ NeedAt(x, i) = NeedAt(x, i + W(x, i)) + (IF At(x, i) = kStar THEN 0 ELSE 1)
    BY <2>1, PatternStep
  <2>3. \A tok, next : StartsBefore(tok, next, text, sc) \subseteq 0 .. m
    BY <1>2 DEF StartsBefore
  <2> QED BY <1>2, <2>2, <2>3
<1> QED BY <1>3, <1>4

\* Where a match of a literal token starts.
LEMMA LiteralStarts ==
    ASSUME NEW x \in Strings, NEW i \in 0 .. Len(x) - 1, At(x, i) \notin Wild,
           NEW text \in Strings, NEW sc, NEW j \in Nat
    PROVE  j \in StartsAt(x, i, text, sc) <=>
             /\ j + 1 <= Len(text) /\ text[j + 1] = LiteralAt(x, i, Len(x))
             /\ j + 1 \in StartsAt(x, i + W(x, i), text, sc)
<1>1. PICK m \in Nat : m = Len(text)
  BY DEF Strings
<1>w. TokenAt(x, i).wild = (At(x, i) \in Wild) /\ TokenAt(x, i).char = LiteralAt(x, i, Len(x))
  BY TokenFields, Zenon
<1>f. (At(x, i) \in Wild) = FALSE
  OBVIOUS
<1>2. TokenAt(x, i).wild = FALSE /\ TokenAt(x, i).char = LiteralAt(x, i, Len(x))
  BY <1>w, <1>f, Zenon
<1>3. TokenAt(x, i) # StarToken
  BY <1>2 DEF StarToken
<1>4. j \in StartsAt(x, i, text, sc) <=>
        j \in StartsBefore(TokenAt(x, i), StartsAt(x, i + W(x, i), text, sc), text, sc)
  BY PatternStep
<1> QED BY <1>1, <1>2, <1>3, <1>4 DEF StartsBefore, At

-----------------------------------------------------------------------------
(* A run of literals: what the parser unescapes, the text has to hold.     *)

Matches(lits, text, j) ==
    j + Len(lits) <= Len(text) /\ \A k \in 1 .. Len(lits) : text[j + k] = lits[k]

LiteralRun(x, from, end, lits, G) ==
    /\ x \in Strings /\ end \in 0 .. Len(x) /\ from \in 0 .. end
    /\ Unescaped(x, from, end, lits)
    /\ G \subseteq from .. end
    /\ \A i \in G : i # end => At(x, i) \notin Wild /\ i + W(x, i) \in G

LEMMA RunStep ==
    ASSUME NEW x, NEW from, NEW end, NEW lits, NEW G, LiteralRun(x, from, end, lits, G),
           NEW i \in G, i # end
    PROVE  /\ i \in 0 .. Len(x) - 1 /\ i + W(x, i) \in G /\ i + W(x, i) \in i + 1 .. end
           /\ lits[i] = << LiteralAt(x, i, Len(x)) >> \o lits[i + W(x, i)]
           /\ lits[i + W(x, i)] \in Strings
           /\ LiteralAt(x, i, Len(x)) \in STRING
<1>1. x \in Strings /\ end \in 0 .. Len(x) /\ from \in 0 .. end /\ i \in from .. end
  BY DEF LiteralRun
<1>2. PICK n \in Nat : n = Len(x)
  BY <1>1 DEF Strings
<1>3. i \in 0 .. n - 1 /\ i \in from .. end - 1 /\ from \in Nat /\ end \in Nat /\ i \in Nat
  BY <1>1, <1>2
<1>4. i + W(x, i) \in G /\ i + W(x, i) \in from .. end
  BY <1>1 DEF LiteralRun
<1>5. W(x, i) \in {1, 2} /\ LiteralAt(x, i, Len(x)) \in STRING
  BY <1>1, <1>2, <1>3, TokenFacts
<1>6. i + W(x, i) \in i + 1 .. end
  BY <1>3, <1>4, <1>5
<1>7. IsEscapeAt(x, i, end) <=> IsEscapeAt(x, i, Len(x))
  <2>1. ASSUME IsEscapeAt(x, i, Len(x)) PROVE i + 1 < end
    BY <1>3, <1>6, <2>1 DEF W, WidthAt
  <2>2. i + 1 < end => i + 1 < Len(x)
    BY <1>1, <1>2, <1>3
  <2> QED BY <2>1, <2>2 DEF IsEscapeAt
<1>8. WidthAt(x, i, end) = W(x, i) /\ LiteralAt(x, i, end) = LiteralAt(x, i, Len(x))
  BY <1>7 DEF W, WidthAt, LiteralAt
<1>9. lits[i] = << LiteralAt(x, i, end) >> \o lits[i + WidthAt(x, i, end)]
  BY <1>3 DEF LiteralRun, Unescaped
<1>10. lits[i + W(x, i)] \in Strings
  BY <1>4 DEF LiteralRun, Unescaped
<1> QED BY <1>2, <1>3, <1>4, <1>5, <1>6, <1>8, <1>9, <1>10

LEMMA OneMore ==
    ASSUME NEW S, NEW c \in S, NEW r \in Seq(S)
    PROVE  /\ << c >> \o r \in Seq(S) /\ Len(<< c >> \o r) = Len(r) + 1
           /\ (<< c >> \o r)[1] = c
           /\ \A k \in 1 .. Len(r) : (<< c >> \o r)[k + 1] = r[k]
  OBVIOUS

LEMMA MatchesMore ==
    ASSUME NEW S, NEW c \in S, NEW r \in Seq(S), NEW text \in Seq(S), NEW j \in Nat
    PROVE  Matches(<< c >> \o r, text, j) <=>
             j + 1 <= Len(text) /\ text[j + 1] = c /\ Matches(r, text, j + 1)
<1>1. PICK l \in Nat : l = Len(r)
  OBVIOUS
<1>2. PICK m \in Nat : m = Len(text)
  OBVIOUS
<1>3. PICK a : a = << c >> \o r
  OBVIOUS
<1>4. Len(a) = l + 1 /\ a[1] = c /\ \A k \in 1 .. l : a[k + 1] = r[k]
  BY <1>1, <1>3, OneMore
<1>5. Matches(a, text, j) <=>
        j + (l + 1) <= m /\ \A k \in 1 .. l + 1 : text[j + k] = a[k]
  BY <1>2, <1>4 DEF Matches
<1>6. Matches(r, text, j + 1) <=>
        (j + 1) + l <= m /\ \A k \in 1 .. l : text[(j + 1) + k] = r[k]
  BY <1>1, <1>2 DEF Matches
<1>7. ASSUME Matches(a, text, j)
      PROVE  j + 1 <= m /\ text[j + 1] = c /\ Matches(r, text, j + 1)
  <2>1. 1 \in 1 .. l + 1 /\ j + 1 <= m /\ (j + 1) + l <= m
    BY <1>5, <1>7
  <2>2. ASSUME NEW k \in 1 .. l PROVE text[(j + 1) + k] = r[k]
    <3>1. k + 1 \in 1 .. l + 1 /\ j + (k + 1) = (j + 1) + k
      OBVIOUS
    <3>2. text[j + (k + 1)] = a[k + 1]
      BY <1>5, <1>7, <3>1
    <3> QED BY <1>4, <3>1, <3>2
  <2> QED BY <1>4, <1>5, <1>6, <1>7, <2>1, <2>2
<1>8. ASSUME j + 1 <= m, text[j + 1] = c, Matches(r, text, j + 1)
      PROVE  Matches(a, text, j)
  <2>1. j + (l + 1) <= m
    BY <1>6, <1>8
  <2>2. ASSUME NEW k \in 1 .. l + 1 PROVE text[j + k] = a[k]
    <3>1. CASE k = 1
      BY <1>4, <1>8, <3>1
    <3>2. CASE k # 1
      <4>1. k - 1 \in 1 .. l /\ (k - 1) + 1 = k /\ (j + 1) + (k - 1) = j + k
        BY <3>2
      <4>2. text[(j + 1) + (k - 1)] = r[k - 1] /\ a[(k - 1) + 1] = r[k - 1]
        BY <1>4, <1>6, <1>8, <4>1
      <4> QED BY <4>1, <4>2
    <3> QED BY <3>1, <3>2
  <2> QED BY <1>5, <2>1, <2>2
<1> QED BY <1>2, <1>3, <1>7, <1>8

LEMMA RunMatches ==
    ASSUME NEW x, NEW from, NEW end, NEW lits, NEW G, LiteralRun(x, from, end, lits, G),
           NEW text \in Strings, NEW sc
    PROVE  \A i \in G :
             /\ NeedAt(x, i) = NeedAt(x, end) + Len(lits[i])
             /\ \A j \in Nat : j \in StartsAt(x, i, text, sc) <=>
                  /\ Matches(lits[i], text, j)
                  /\ j + Len(lits[i]) \in StartsAt(x, end, text, sc)
<1>1. /\ x \in Strings /\ end \in 0 .. Len(x) /\ from \in 0 .. end
      /\ lits[end] = << >> /\ G \subseteq from .. end
  BY DEF LiteralRun, Unescaped
<1>2. PICK n \in Nat : n = end
  BY <1>1 DEF Strings
<1>3. PICK m \in Nat : m = Len(text)
  BY DEF Strings
<1>4. PICK T \in SUBSET (0 .. m) : T = StartsAt(x, end, text, sc)
  BY <1>1, <1>3, StartsInText
<1>5. PICK d \in Nat : d = NeedAt(x, end)
  BY <1>1, StartsInText
<1> DEFINE Good(i) == /\ NeedAt(x, i) = d + Len(lits[i])
                      /\ \A j \in Nat : j \in StartsAt(x, i, text, sc) <=>
                            Matches(lits[i], text, j) /\ j + Len(lits[i]) \in T
           H == {i \in 0 .. n : i \in G => Good(i)}
<1>6. Good(n)
  <2>1. Len(lits[n]) = 0 /\ NeedAt(x, n) = d
    BY <1>1, <1>2, <1>5
  <2>2. ASSUME NEW j \in Nat
        PROVE  j \in T <=> Matches(lits[n], text, j) /\ j + 0 \in T
    <3>1. Matches(lits[n], text, j) <=> j <= m
      BY <1>3, <2>1 DEF Matches
    <3> QED BY <1>3, <1>4, <3>1
  <2> QED BY <1>2, <1>4, <2>1, <2>2
<1>7. ASSUME NEW i \in 0 .. n, \A k \in i + 1 .. n : k \in H, i \in G, i # n
      PROVE  Good(i)
  <2>1. /\ i \in 0 .. Len(x) - 1 /\ i + W(x, i) \in G /\ i + W(x, i) \in i + 1 .. n
        /\ lits[i] = << LiteralAt(x, i, Len(x)) >> \o lits[i + W(x, i)]
        /\ lits[i + W(x, i)] \in Strings
        /\ LiteralAt(x, i, Len(x)) \in STRING
    BY <1>2, <1>7, RunStep
  <2>2. PICK k \in i + 1 .. n : k = i + W(x, i)
    BY <2>1
  <2>3. PICK c \in STRING : c = LiteralAt(x, i, Len(x))
    BY <2>1
  <2>4. PICK r \in Strings : r = lits[k]
    BY <2>1, <2>2
  <2>5. lits[i] = << c >> \o r /\ At(x, i) \notin Wild
    BY <1>2, <1>7, <2>1, <2>2, <2>3, <2>4 DEF LiteralRun
  <2>6. Good(k)
    BY <1>7, <2>1, <2>2
  <2>7. PICK l \in Nat : l = Len(r)
    BY DEF Strings
  <2>8. Len(lits[i]) = l + 1
    <3>1. r \in Seq(STRING)
      BY DEF Strings
    <3> QED BY <2>5, <2>7, <3>1, OneMore
  <2>9. NeedAt(x, i) = d + Len(lits[i])
    <3>1. NeedAt(x, i) = NeedAt(x, k) + 1
      BY <1>1, <2>1, <2>2, <2>5, PatternStep DEF Wild
    <3> QED BY <2>4, <2>6, <2>7, <2>8, <3>1
  <2>10. ASSUME NEW j \in Nat
         PROVE  j \in StartsAt(x, i, text, sc) <=>
                  Matches(lits[i], text, j) /\ j + Len(lits[i]) \in T
    <3>1. j \in StartsAt(x, i, text, sc) <=>
             j + 1 <= Len(text) /\ text[j + 1] = c /\ j + 1 \in StartsAt(x, k, text, sc)
      BY <1>1, <2>1, <2>2, <2>3, <2>5, LiteralStarts
    <3>2. j + 1 \in StartsAt(x, k, text, sc) <=>
             Matches(r, text, j + 1) /\ (j + 1) + l \in T
      <4>1. PICK h \in Nat : h = j + 1
        OBVIOUS
      <4>2. h \in StartsAt(x, k, text, sc) <=> Matches(r, text, h) /\ h + l \in T
        BY <2>4, <2>6, <2>7
      <4> QED BY <4>1, <4>2
    <3>3. Matches(lits[i], text, j) <=>
             j + 1 <= Len(text) /\ text[j + 1] = c /\ Matches(r, text, j + 1)
      <4>1. r \in Seq(STRING) /\ text \in Seq(STRING)
        BY DEF Strings
      <4>2. Matches(<< c >> \o r, text, j) <=>
               j + 1 <= Len(text) /\ text[j + 1] = c /\ Matches(r, text, j + 1)
        BY <4>1, MatchesMore
      <4> QED BY <2>5, <4>2
    <3>4. (j + 1) + l = j + Len(lits[i])
      BY <2>8
    <3> QED BY <3>1, <3>2, <3>3, <3>4
  <2> QED BY <2>9, <2>10
<1>8. \A i \in 0 .. n : (\A k \in i + 1 .. n : k \in H) => i \in H
  <2> HIDE DEF Good
  <2> QED BY <1>6, <1>7
<1>9. \A i \in 0 .. n : i \in H
  <2> HIDE DEF H
  <2> QED BY <1>8, FromTheEnd
<1>10. G \subseteq 0 .. n
  BY <1>1, <1>2
<1> QED BY <1>4, <1>5, <1>9, <1>10

-----------------------------------------------------------------------------
(* The prefix.                                                             *)

\* The prefix ends at a wildcard or with the pattern, and all before it are
\* literals.
LEMMA PrefixRun ==
    ASSUME NEW x \in Strings, NEW b, b = PrefixRawLen(x)
    PROVE  /\ b = Len(x) \/ At(x, b) \in Wild
           /\ \E lits, G : LiteralRun(x, 0, b, lits, G) /\ 0 \in G /\ lits[0] = Prefix(x)
<1>1. PICK n \in Nat : n = Len(x)
  BY DEF Strings
<1>2. PICK f : /\ PrefixRawLen(x) = f[0]
               /\ f[Len(x)] = Len(x)
               /\ \A i \in 0 .. Len(x) - 1 : f[i] = IF At(x, i) \in Wild THEN i ELSE f[i + W(x, i)]
               /\ \A i \in 0 .. Len(x) : f[i] \in 0 .. Len(x)
  BY PrefixRawLenFacts
<1>3. \A i \in 0 .. n - 1 : i + W(x, i) \in i + 1 .. n
  BY <1>1, TokenFacts
<1> DEFINE Good(i) == f[i] >= i /\ (f[i] = n \/ At(x, f[i]) \in Wild)
           H == {i \in 0 .. n : Good(i)}
<1>4. ASSUME NEW i \in 0 .. n, \A k \in i + 1 .. n : k \in H
      PROVE  Good(i)
  <2>1. CASE i = n
    BY <1>1, <1>2, <2>1
  <2>2. CASE i # n /\ At(x, i) \in Wild
    BY <1>1, <1>2, <2>2
  <2>3. CASE i # n /\ At(x, i) \notin Wild
    <3>1. PICK k : k = i + W(x, i)
      OBVIOUS
    <3>2. i \in 0 .. n - 1 /\ k \in i + 1 .. n
      BY <1>3, <2>3, <3>1
    <3>3. f[i] = f[k] /\ k \in H /\ f[k] \in 0 .. n
      BY <1>1, <1>2, <1>4, <2>3, <3>1, <3>2
    <3> QED BY <3>2, <3>3
  <2> QED BY <2>1, <2>2, <2>3
<1>5. \A i \in 0 .. n : i \in H
  <2>1. \A i \in 0 .. n : (\A k \in i + 1 .. n : k \in H) => i \in H
    <3> HIDE DEF Good
    <3> QED BY <1>4
  <2> HIDE DEF H
  <2> QED BY <2>1, FromTheEnd
<1>6. b \in 0 .. n /\ b = f[0] /\ (b = n \/ At(x, b) \in Wild)
  BY <1>1, <1>2, <1>5
<1>7. b \in 0 .. Len(x) /\ 0 \in 0 .. b
  BY <1>1, <1>6
<1>8. PICK lits : Unescape(x, 0, b) = lits[0] /\ Unescaped(x, 0, b, lits)
  BY <1>7, UnescapeFacts
<1> DEFINE G == {i \in 0 .. b : f[i] = b}
<1>9. ASSUME NEW i \in G, i # b
      PROVE  At(x, i) \notin Wild /\ i + W(x, i) \in G
  <2>1. PICK k : k = i + W(x, i)
    OBVIOUS
  <2>2. i \in 0 .. n - 1 /\ k \in i + 1 .. n
    BY <1>3, <1>6, <1>9, <2>1
  <2>3. f[i] = b /\ f[i] = IF At(x, i) \in Wild THEN i ELSE f[k]
    BY <1>1, <1>2, <1>9, <2>1, <2>2
  <2>4. At(x, i) \notin Wild /\ f[k] = b
    BY <1>9, <2>3
  <2>5. k <= b
    BY <1>5, <2>2, <2>4
  <2> QED BY <1>6, <2>1, <2>2, <2>4, <2>5
<1>10. 0 \in G
  BY <1>6
<1>11. G \subseteq 0 .. b
  OBVIOUS
<1> HIDE DEF G
<1>12. LiteralRun(x, 0, b, lits, G)
  BY <1>7, <1>8, <1>9, <1>11 DEF LiteralRun
<1>13. lits[0] = Prefix(x)
  BY <1>8 DEF Prefix
<1> QED BY <1>1, <1>6, <1>10, <1>12, <1>13

\* A text matches when it starts with the prefix and the rest of it matches
\* the wildcard part.
LEMMA PrefixSplits ==
    ASSUME NEW x \in Strings, NEW text \in Strings, NEW sc
    PROVE  GlobTokens(Tokens(x), text, sc) <=>
             /\ Matches(Prefix(x), text, 0)
             /\ GlobTokens(Tokens(WildPart(x)), From(text, Len(Prefix(x))), sc)
<1>1. PICK b \in 0 .. Len(x) : b = PrefixRawLen(x)
  BY Parsed
<1>2. PICK lits, G : LiteralRun(x, 0, b, lits, G) /\ 0 \in G /\ lits[0] = Prefix(x)
  BY <1>1, PrefixRun
<1>3. PICK p \in Strings : p = Prefix(x)
  BY Parsed
<1>4. PICK l \in Nat : l = Len(p)
  BY DEF Strings
<1>5. PICK m \in Nat : m = Len(text)
  BY DEF Strings
<1>6. PICK toks : toks = TokensFrom(x)[b]
  OBVIOUS
<1>7. toks \in Seq(TokenSet) /\ Tokens(WildPart(x)) = toks
  BY <1>1, <1>6, TokensRecursion, TokensOfRest DEF WildPart, From
<1>8. 0 \in StartsAt(x, 0, text, sc) <=>
        Matches(p, text, 0) /\ l \in StartsOf(toks, text, sc)[0]
  <2>1. 0 \in Nat /\ 0 + Len(lits[0]) = l
    BY <1>2, <1>3, <1>4
  <2>2. 0 \in StartsAt(x, 0, text, sc) <=>
          Matches(lits[0], text, 0) /\ 0 + Len(lits[0]) \in StartsAt(x, b, text, sc)
    BY <1>2, <2>1, RunMatches
  <2> QED BY <1>2, <1>3, <1>6, <2>1, <2>2 DEF StartsAt
<1>9. GlobTokens(Tokens(x), text, sc) <=> 0 \in StartsAt(x, 0, text, sc)
  BY DEF GlobTokens, Tokens, StartsAt
<1>10. ASSUME Matches(p, text, 0)
       PROVE  GlobTokens(toks, From(text, l), sc) <=> l \in StartsOf(toks, text, sc)[0]
  <2>1. l \in 0 .. m
    BY <1>4, <1>5, <1>10 DEF Matches
  <2>2. PICK rest : /\ rest = From(text, l) /\ Len(rest) = m - l
                    /\ \A h \in 0 .. (m - l) - 1 : At(rest, h) = At(text, l + h)
    BY <1>5, <2>1, FromFacts
  <2>3. PICK t \in Nat : t = Len(toks)
    BY <1>7
  <2>4. (0 \in StartsOf(toks, rest, sc)[0]) <=> (l \in StartsOf(toks, text, sc)[0])
    BY <1>5, <2>1, <2>2, <2>3, StartsOfRest
  <2> QED BY <2>2, <2>4 DEF GlobTokens
<1> QED BY <1>3, <1>4, <1>7, <1>8, <1>9, <1>10

-----------------------------------------------------------------------------
(* The wildcard suffix and the tail.                                       *)

\* What the search for the last wildcard knows at every offset: 0 if none
\* follows, the end of the last one otherwise.
LastFrom(x, g) ==
    /\ g[Len(x)] = 0
    /\ \A i \in 0 .. Len(x) : g[i] \in 0 .. Len(x) /\ (g[i] = 0 \/ g[i] >= i + 1)
    /\ \A i \in 0 .. Len(x) - 1 :
         \/ g[i + W(x, i)] = 0 /\ At(x, i) \in Wild /\ g[i] = i + 1
         \/ g[i + W(x, i)] = 0 /\ At(x, i) \notin Wild /\ g[i] = 0
         \/ g[i + W(x, i)] # 0 /\ g[i] = g[i + W(x, i)]

LEMMA LastFromHolds ==
    ASSUME NEW x \in Strings
    PROVE  \E g : g[0] = LastWildcardEnd(x) /\ LastFrom(x, g)
<1>1. PICK n \in Nat : n = Len(x)
  BY DEF Strings
<1>2. PICK g : /\ LastWildcardEnd(x) = g[0]
               /\ g[Len(x)] = 0
               /\ \A i \in 0 .. Len(x) - 1 : g[i] = Max({g[i + W(x, i)], IF At(x, i) \in Wild THEN i + 1 ELSE 0})
               /\ \A i \in 0 .. Len(x) : g[i] \in 0 .. Len(x)
  BY LastWildcardEndFacts
<1>3. \A i \in 0 .. n - 1 : i + W(x, i) \in i + 1 .. n
  BY <1>1, TokenFacts
<1>4. ASSUME NEW i \in 0 .. n - 1, NEW k, k = i + W(x, i)
      PROVE  g[i] = IF At(x, i) \in Wild /\ g[k] < i + 1 THEN i + 1 ELSE g[k]
  <2>1. k \in 0 .. n
    BY <1>3, <1>4
  <2>2. PICK a \in Nat : a = g[k]
    BY <1>1, <1>2, <2>1
  <2>3. PICK c \in Nat : c = IF At(x, i) \in Wild THEN i + 1 ELSE 0
    OBVIOUS
  <2>4. g[i] = Max({a, c})
    BY <1>1, <1>2, <1>4, <2>2, <2>3, Zenon
  <2>5. g[i] = IF a >= c THEN a ELSE c
    BY <2>4, MaxOfTwo
  <2> QED BY <2>2, <2>3, <2>5
<1> DEFINE H == {i \in 0 .. n : g[i] = 0 \/ g[i] >= i + 1}
<1>5. ASSUME NEW i \in 0 .. n, \A k \in i + 1 .. n : k \in H
      PROVE  i \in H
  <2>1. CASE i = n
    BY <1>1, <1>2, <2>1
  <2>2. CASE i # n
    <3>1. PICK k : k = i + W(x, i)
      OBVIOUS
    <3>2. i \in 0 .. n - 1 /\ k \in i + 1 .. n
      BY <1>3, <2>2, <3>1
    <3>3. k \in H /\ g[k] \in 0 .. n
      BY <1>1, <1>2, <1>5, <3>2
    <3> QED BY <1>4, <3>1, <3>2, <3>3
  <2> QED BY <2>1, <2>2
<1>6. \A i \in 0 .. n : i \in H
  <2>1. \A i \in 0 .. n : (\A k \in i + 1 .. n : k \in H) => i \in H
    BY <1>5
  <2> HIDE DEF H
  <2> QED BY <2>1, FromTheEnd
<1>7. ASSUME NEW i \in 0 .. n - 1
      PROVE  \/ g[i + W(x, i)] = 0 /\ At(x, i) \in Wild /\ g[i] = i + 1
             \/ g[i + W(x, i)] = 0 /\ At(x, i) \notin Wild /\ g[i] = 0
             \/ g[i + W(x, i)] # 0 /\ g[i] = g[i + W(x, i)]
  <2>1. PICK k : k = i + W(x, i)
    OBVIOUS
  <2>2. k \in i + 1 .. n
    BY <1>3, <2>1
  <2>3. k \in H /\ g[k] \in 0 .. n
    BY <1>1, <1>2, <1>6, <2>2
  <2>4. g[k] = 0 \/ g[k] >= k + 1
    BY <2>3
  <2> QED BY <1>4, <2>1, <2>2, <2>3, <2>4
<1>8. LastFrom(x, g)
  BY <1>1, <1>2, <1>6, <1>7 DEF LastFrom
<1> QED BY <1>2, <1>8

\* After the last wildcard there are only literals.
LEMMA TailRun ==
    ASSUME NEW x \in Strings, NEW g, g[0] = LastWildcardEnd(x), LastFrom(x, g)
    PROVE  \E lits, G : /\ LiteralRun(x, LastWildcardEnd(x), Len(x), lits, G)
                        /\ \A i \in LastWildcardEnd(x) .. Len(x) : g[i] = 0 => i \in G
                        /\ lits[LastWildcardEnd(x)] = TailAnchor(x)
<1>1. PICK n \in Nat : n = Len(x)
  BY DEF Strings
<1>2. PICK e \in 0 .. n : e = LastWildcardEnd(x)
  BY <1>1, Parsed
<1>3. \A i \in 0 .. n - 1 : i + W(x, i) \in i + 1 .. n
  BY <1>1, TokenFacts
<1>4. PICK lits : Unescape(x, e, n) = lits[e] /\ Unescaped(x, e, n, lits)
  BY <1>1, UnescapeFacts
<1> DEFINE G == {i \in e .. n : g[i] = 0}
<1>5. ASSUME NEW i \in G, i # n PROVE At(x, i) \notin Wild /\ i + W(x, i) \in G
  <2>1. PICK k : k = i + W(x, i)
    OBVIOUS
  <2>2. i \in 0 .. n - 1 /\ k \in i + 1 .. n /\ g[i] = 0
    BY <1>3, <1>5, <2>1
  <2>3. \/ g[k] = 0 /\ At(x, i) \in Wild /\ g[i] = i + 1
        \/ g[k] = 0 /\ At(x, i) \notin Wild /\ g[i] = 0
        \/ g[k] # 0 /\ g[i] = g[k]
    BY <1>1, <2>1, <2>2 DEF LastFrom
  <2> QED BY <2>1, <2>2, <2>3
<1>6. G \subseteq e .. n
  OBVIOUS
<1>7. \A i \in e .. n : g[i] = 0 => i \in G
  OBVIOUS
<1> HIDE DEF G
<1>8. n \in 0 .. n
  OBVIOUS
<1>9. LiteralRun(x, e, n, lits, G)
  BY <1>1, <1>4, <1>5, <1>6, <1>8 DEF LiteralRun
<1>10. lits[e] = TailAnchor(x)
  BY <1>1, <1>2, <1>4 DEF TailAnchor
<1> QED BY <1>1, <1>2, <1>7, <1>9, <1>10

\* The offsets where a token of the wildcard suffix starts, or its end.
InSuffix(x, g, e, i) ==
    i \in 0 .. e /\ ((i < e /\ g[i] = e) \/ (i = e /\ g[i] = 0))

CutAt(x, g, e, y) == LastFrom(x, g) /\ e \in 0 .. Len(x) /\ y = SubSeq(x, 1, e)

SameToken(x, g, e, y, i) ==
    /\ y \in Strings /\ Len(y) = e /\ i \in 0 .. Len(x) - 1 /\ i \in 0 .. e - 1
    /\ At(y, i) = At(x, i) /\ W(y, i) = W(x, i) /\ TokenAt(y, i) = TokenAt(x, i)
    /\ LiteralAt(y, i, e) = LiteralAt(x, i, Len(x))
    /\ InSuffix(x, g, e, i + W(x, i)) /\ i + W(x, i) \in i + 1 .. e
    /\ i + W(x, i) = e => At(x, i) \in Wild

\* The tokens of the suffix are those of the whole, and its last token is a
\* wildcard.
LEMMA SuffixStep ==
    ASSUME NEW x \in Strings, NEW g, NEW e, NEW y, CutAt(x, g, e, y),
           NEW i, InSuffix(x, g, e, i), i # e
    PROVE  SameToken(x, g, e, y, i)
<1>1. PICK n \in Nat : n = Len(x)
  BY DEF Strings
<1>c. LastFrom(x, g) /\ e \in 0 .. Len(x) /\ y = SubSeq(x, 1, e)
  BY DEF CutAt
<1> USE <1>c
<1>2. 1 \in 1 .. Len(x) + 1 /\ e \in 1 - 1 .. Len(x) /\ e \in Nat /\ e <= n
  BY <1>1
<1>3. /\ y \in Strings /\ Len(y) = (e - 1) + 1
      /\ \A h \in 1 .. (e - 1) + 1 : y[h] = x[(1 + h) - 1]
  BY <1>2, SubString
<1>4. i \in 0 .. n - 1 /\ i < e /\ g[i] = e
  BY <1>1, <1>2 DEF InSuffix
<1>5. ASSUME NEW h \in 0 .. e - 1 PROVE At(y, h) = At(x, h)
  <2>1. h + 1 \in 1 .. (e - 1) + 1 /\ (1 + (h + 1)) - 1 = h + 1
    BY <1>2
  <2> QED BY <1>3, <2>1 DEF At
<1>6. PICK k : k = i + W(x, i)
  OBVIOUS
<1>7. k \in i + 1 .. n /\ W(x, i) \in {1, 2} /\ (At(x, i) \in Wild => W(x, i) = 1)
  BY <1>1, <1>4, <1>6, TokenFacts
<1>8. \/ g[k] = 0 /\ At(x, i) \in Wild /\ g[i] = i + 1
      \/ g[k] = 0 /\ At(x, i) \notin Wild /\ g[i] = 0
      \/ g[k] # 0 /\ g[i] = g[k]
  BY <1>1, <1>4, <1>6 DEF LastFrom
<1>9. g[k] = 0 \/ g[k] >= k + 1
  BY <1>1, <1>4, <1>7 DEF LastFrom
<1>10. \/ k = e /\ g[k] = 0 /\ At(x, i) \in Wild
       \/ k < e /\ g[k] = e
  BY <1>4, <1>6, <1>7, <1>8, <1>9
<1>11. k \in i + 1 .. e /\ (k = e => At(x, i) \in Wild) /\ InSuffix(x, g, e, k)
  BY <1>2, <1>4, <1>7, <1>10 DEF InSuffix
<1>12. IsEscapeAt(y, i, e) <=> IsEscapeAt(x, i, n)
  <2>1. ASSUME IsEscapeAt(x, i, n) PROVE i + 1 < e
    <3>1. k = i + 2
      BY <1>1, <1>6, <2>1 DEF W, WidthAt
    <3> QED BY <1>2, <1>4, <1>11, <3>1
  <2>2. i + 1 < e => i + 1 < n /\ At(y, i + 1) = At(x, i + 1)
    BY <1>2, <1>4, <1>5
  <2>3. At(y, i) = At(x, i)
    BY <1>4, <1>5
  <2> QED BY <2>1, <2>2, <2>3 DEF IsEscapeAt
<1>13. IsEscapeAt(y, i, e) => At(y, i + 1) = At(x, i + 1)
  <2>1. IsEscapeAt(y, i, e) => i + 1 \in 0 .. e - 1
    BY <1>2, <1>4 DEF IsEscapeAt
  <2> QED BY <1>5, <2>1
<1>14. At(y, i) = At(x, i)
  BY <1>4, <1>5
<1>15. Len(y) = e
  BY <1>2, <1>3
<1>16. W(y, i) = W(x, i)
  BY <1>1, <1>12, <1>15 DEF W, WidthAt
<1>17. LiteralAt(y, i, e) = LiteralAt(x, i, n)
  BY <1>12, <1>13, <1>14 DEF LiteralAt
<1>18. TokenAt(y, i) = TokenAt(x, i)
  BY <1>1, <1>14, <1>15, <1>17 DEF TokenAt
<1>19. i \in 0 .. e - 1
  BY <1>2, <1>4
<1> QED BY <1>1, <1>3, <1>4, <1>6, <1>11, <1>14, <1>15, <1>16, <1>17, <1>18, <1>19 DEF SameToken

\* What follows the last place where the rest may start does not matter.
Shortens(short, d, text, m) ==
    /\ m \in Nat /\ m = Len(text) /\ d \in 0 .. m /\ d = Len(short)
    /\ \A l \in 0 .. d - 1 : At(short, l) = At(text, l)

LEMMA StartsInShorter ==
    ASSUME NEW tok, NEW sc, NEW text, NEW m, NEW short, NEW d, Shortens(short, d, text, m),
           NEW next \in SUBSET (0 .. d)
    PROVE  StartsBefore(tok, next, text, sc) = StartsBefore(tok, next, short, sc)
<1>s. /\ m \in Nat /\ m = Len(text) /\ d \in 0 .. m /\ d = Len(short)
      /\ \A l \in 0 .. d - 1 : At(short, l) = At(text, l)
  BY DEF Shortens
<1> USE <1>s
<1> DEFINE A == StartsBefore(tok, next, text, sc)
           B == StartsBefore(tok, next, short, sc)
<1>1. CASE tok = StarToken
  <2> DEFINE OpenA(j, k) == \A l \in j .. k - 1 : Takes(sc, At(text, l))
             OpenB(j, k) == \A l \in j .. k - 1 : Takes(sc, At(short, l))
  <2>1. A = {j \in 0 .. m : \E k \in next : j <= k /\ OpenA(j, k)}
    BY <1>1 DEF StartsBefore
  <2>2. B = {j \in 0 .. d : \E k \in next : j <= k /\ OpenB(j, k)}
    BY <1>1 DEF StartsBefore
  <2>3. ASSUME NEW j \in 0 .. m, NEW k \in next PROVE OpenA(j, k) <=> OpenB(j, k)
    <3>1. ASSUME NEW l \in j .. k - 1 PROVE At(text, l) = At(short, l)
      <4>1. l \in 0 .. d - 1
        OBVIOUS
      <4> QED BY <4>1
    <3> QED BY <3>1
  <2> HIDE DEF A, B, OpenA, OpenB
  <2>4. ASSUME NEW j, NEW k \in next, j \in 0 .. m, j <= k PROVE j \in 0 .. d
    BY <2>4
  <2>5. \A j : j \in 0 .. d => j \in 0 .. m
    OBVIOUS
  <2>6. \A j : j \in A <=> j \in B
    BY <2>1, <2>2, <2>3, <2>4, <2>5
  <2>7. A = B
    BY <2>6
  <2> QED BY <2>7 DEF A, B
<1>2. CASE tok # StarToken
  <2> DEFINE Fits(c) == IF tok.wild THEN Takes(sc, c) ELSE c = tok.char
  <2>1. A = {j \in 0 .. m - 1 : j + 1 \in next /\ Fits(At(text, j))}
    BY <1>2 DEF StartsBefore
  <2>2. B = {j \in 0 .. d - 1 : j + 1 \in next /\ Fits(At(short, j))}
    BY <1>2 DEF StartsBefore
  <2> HIDE DEF A, B, Fits
  <2>3. \A j \in 0 .. m - 1 : j + 1 \in next => j \in 0 .. d - 1
    OBVIOUS
  <2>4. \A j \in 0 .. d - 1 : j \in 0 .. m - 1
    OBVIOUS
  <2>5. A = B
    BY <2>1, <2>2, <2>3, <2>4
  <2> QED BY <2>5 DEF A, B
<1> QED BY <1>1, <1>2

\* The suffix of a wildcard part, its tail, and the text before the tail.
HasSuffix(x, e, y, tail) ==
    e = LastWildcardEnd(x) /\ y = SubSeq(x, 1, e) /\ tail = TailAnchor(x)

\* A text matches the wildcard part when it ends with the tail and what is
\* before the tail matches the suffix.
SplitAtTail(x, y, tail, text, sc) ==
    GlobTokens(Tokens(x), text, sc) <=>
      /\ Len(tail) <= Len(text) /\ Matches(tail, text, Len(text) - Len(tail))
      /\ GlobTokens(Tokens(y), SubSeq(text, 1, Len(text) - Len(tail)), sc)

LEMMA SuffixSplits ==
    ASSUME NEW x \in Strings, NEW e, NEW y, NEW tail, HasSuffix(x, e, y, tail),
           NEW text \in Strings, NEW sc
    PROVE  SplitAtTail(x, y, tail, text, sc) /\ NeedAt(x, 0) = NeedAt(y, 0) + Len(tail)
<1>q. PICK q : q = Len(tail)
  OBVIOUS
<1>t. PICK short : short = SubSeq(text, 1, Len(text) - q)
  OBVIOUS
<1> USE <1>q, <1>t
<1>1. PICK n \in Nat : n = Len(x)
  BY DEF Strings
<1>2. e \in 0 .. n /\ e = LastWildcardEnd(x) /\ tail = TailAnchor(x) /\ y = SubSeq(x, 1, e)
  BY <1>1, Parsed DEF HasSuffix
<1>3. PICK g : g[0] = e /\ LastFrom(x, g)
  BY <1>2, LastFromHolds
<1>4. PICK lits, G : /\ LiteralRun(x, e, n, lits, G)
                     /\ \A i \in e .. n : g[i] = 0 => i \in G
                     /\ lits[e] = tail
  BY <1>1, <1>2, <1>3, TailRun
<1>5. tail \in Strings /\ q \in Nat
  <2>1. TailAnchor(x) \in Strings
    BY Parsed
  <2> QED BY <1>2, <2>1 DEF Strings
<1>6. PICK m \in Nat : m = Len(text)
  BY DEF Strings
<1>7. y \in Strings /\ Len(y) = e
  <2>1. 1 \in 1 .. Len(x) + 1 /\ e \in 1 - 1 .. Len(x) /\ e \in Nat
    BY <1>1, <1>2
  <2>2. y \in Strings /\ Len(y) = (e - 1) + 1
    BY <1>2, <2>1, SubString
  <2> QED BY <2>1, <2>2
<1> DEFINE Ends == q <= m /\ Matches(tail, text, m - q)
<1>8. ASSUME q <= m
      PROVE  /\ short \in Strings /\ Len(short) = m - q /\ m - q \in 0 .. m
             /\ \A l \in 0 .. (m - q) - 1 : At(short, l) = At(text, l)
  <2>1. PICK d \in Nat : d = m - q
    <3>1. m - q \in Nat
      BY <1>5, <1>8
    <3> QED BY <3>1
  <2>2. 1 \in 1 .. Len(text) + 1 /\ d \in 1 - 1 .. Len(text)
    BY <1>5, <1>6, <1>8, <2>1
  <2>3. /\ short \in Strings /\ Len(short) = (d - 1) + 1
        /\ \A i \in 1 .. (d - 1) + 1 : short[i] = text[(1 + i) - 1]
    BY <1>6, <2>1, <2>2, SubString
  <2>4. ASSUME NEW l \in 0 .. d - 1 PROVE At(short, l) = At(text, l)
    <3>1. l + 1 \in 1 .. (d - 1) + 1 /\ (1 + (l + 1)) - 1 = l + 1
      BY <2>1
    <3> QED BY <2>3, <3>1 DEF At
  <2> QED BY <1>5, <1>6, <1>8, <2>1, <2>2, <2>3, <2>4
<1> DEFINE Good(i) ==
             /\ NeedAt(x, i) = NeedAt(y, i) + q
             /\ Ends => StartsAt(x, i, text, sc) = StartsAt(y, i, short, sc)
             /\ ~Ends => StartsAt(x, i, text, sc) = {}
           H == {i \in 0 .. e : InSuffix(x, g, e, i) => Good(i)}
<1>9. ASSUME InSuffix(x, g, e, e) PROVE Good(e)
  <2>1. e \in G
    BY <1>1, <1>2, <1>4, <1>9 DEF InSuffix
  <2>2. /\ NeedAt(x, e) = NeedAt(x, n) + q
        /\ \A j \in Nat : j \in StartsAt(x, e, text, sc) <=>
             Matches(tail, text, j) /\ j + q \in StartsAt(x, n, text, sc)
    <3>1. /\ NeedAt(x, e) = NeedAt(x, n) + Len(lits[e])
          /\ \A j \in Nat : j \in StartsAt(x, e, text, sc) <=>
               Matches(lits[e], text, j) /\ j + Len(lits[e]) \in StartsAt(x, n, text, sc)
      BY <1>4, <2>1, RunMatches
    <3>2. Len(lits[e]) = q
      BY <1>4
    <3> QED BY <1>4, <3>1, <3>2
  <2>3. StartsAt(x, n, text, sc) = {m} /\ NeedAt(x, n) = 0
    BY <1>1, <1>6, PatternEnds
  <2>4. StartsAt(y, e, short, sc) = {Len(short)} /\ NeedAt(y, e) = 0
    BY <1>7, PatternEnds
  <2>5. StartsAt(x, e, text, sc) \subseteq 0 .. m
    BY <1>1, <1>2, <1>6, StartsInText
  <2>6. \A j : j \in StartsAt(x, e, text, sc) <=> Ends /\ j = m - q
    <3>1. ASSUME NEW j, j \in StartsAt(x, e, text, sc) PROVE Ends /\ j = m - q
      <4>1. j \in 0 .. m /\ Matches(tail, text, j) /\ j + q = m
        <5>1. j \in 0 .. m /\ j \in Nat
          BY <2>5, <3>1
        <5>2. Matches(tail, text, j) /\ j + q \in {m}
          BY <2>2, <2>3, <3>1, <5>1
        <5> QED BY <5>1, <5>2
      <4>2. j = m - q /\ q <= m
        BY <1>5, <4>1
      <4> QED BY <4>1, <4>2
    <3>2. ASSUME Ends PROVE m - q \in StartsAt(x, e, text, sc)
      <4>1. m - q \in Nat /\ (m - q) + q = m
        BY <1>5, <3>2
      <4> QED BY <2>2, <2>3, <3>2, <4>1
    <3> QED BY <3>1, <3>2
  <2>7. Ends => Len(short) = m - q
    BY <1>8
  <2> HIDE DEF Ends
  <2>8. Ends => StartsAt(x, e, text, sc) = {m - q}
    BY <2>6
  <2>9. ~Ends => StartsAt(x, e, text, sc) = {}
    BY <2>6
  <2> QED BY <1>5, <2>2, <2>3, <2>4, <2>7, <2>8, <2>9
<1>10. ASSUME NEW i \in 0 .. e, \A k \in i + 1 .. e : k \in H, InSuffix(x, g, e, i), i # e
       PROVE  Good(i)
  <2>1. /\ i \in 0 .. Len(x) - 1 /\ i \in 0 .. Len(y) - 1
        /\ At(y, i) = At(x, i) /\ W(y, i) = W(x, i) /\ TokenAt(y, i) = TokenAt(x, i)
        /\ InSuffix(x, g, e, i + W(x, i)) /\ i + W(x, i) \in i + 1 .. e
    <3>1. CutAt(x, g, e, y)
      BY <1>1, <1>2, <1>3 DEF CutAt
    <3>2. SameToken(x, g, e, y, i)
      <4>1. InSuffix(x, g, e, i) /\ i # e
        BY <1>10
      <4> QED BY <3>1, <4>1, SuffixStep
    <3> QED BY <1>7, <3>2 DEF SameToken
  <2>2. PICK k \in i + 1 .. e : k = i + W(x, i)
    BY <2>1
  <2>3. Good(k)
    BY <1>10, <2>1, <2>2
  <2>4. /\ StartsAt(x, i, text, sc)
             = StartsBefore(TokenAt(x, i), StartsAt(x, k, text, sc), text, sc)
        /\ NeedAt(x, k) \in Nat
        /\ NeedAt(x, i) = NeedAt(x, k) + (IF At(x, i) = kStar THEN 0 ELSE 1)
    BY <2>1, <2>2, PatternStep
  <2>5. /\ StartsAt(y, i, short, sc)
             = StartsBefore(TokenAt(x, i), StartsAt(y, k, short, sc), short, sc)
        /\ NeedAt(y, k) \in Nat
        /\ NeedAt(y, i) = NeedAt(y, k) + (IF At(x, i) = kStar THEN 0 ELSE 1)
    <3>1. i + W(y, i) = k
      BY <2>1, <2>2
    <3>2. /\ StartsAt(y, i, short, sc)
               = StartsBefore(TokenAt(y, i), StartsAt(y, i + W(y, i), short, sc), short, sc)
          /\ NeedAt(y, i + W(y, i)) \in Nat
          /\ NeedAt(y, i) = NeedAt(y, i + W(y, i)) + (IF At(y, i) = kStar THEN 0 ELSE 1)
      <4>1. y \in Strings /\ i \in 0 .. Len(y) - 1
        BY <1>7, <2>1
      <4> QED BY <4>1, PatternStep
    <3> QED BY <2>1, <3>1, <3>2
  <2>6. NeedAt(x, i) = NeedAt(y, i) + q
    BY <1>5, <2>3, <2>4, <2>5
  <2>7. ASSUME Ends PROVE StartsAt(x, i, text, sc) = StartsAt(y, i, short, sc)
    <3>1. PICK d \in 0 .. m : d = Len(short)
      BY <1>8, <2>7
    <3>2. short \in Strings /\ \A l \in 0 .. d - 1 : At(short, l) = At(text, l)
      BY <1>8, <2>7, <3>1
    <3>3. k \in 0 .. Len(y)
      BY <1>2, <1>7
    <3>4. PICK next \in SUBSET (0 .. d) : next = StartsAt(y, k, short, sc)
      BY <1>7, <3>1, <3>2, <3>3, StartsInText
    <3>5. StartsBefore(TokenAt(x, i), next, text, sc) = StartsBefore(TokenAt(x, i), next, short, sc)
      <4>1. PICK tok : tok = TokenAt(x, i)
        OBVIOUS
      <4>2. StartsBefore(tok, next, text, sc) = StartsBefore(tok, next, short, sc)
        <5>1. Shortens(short, d, text, m)
          BY <1>6, <3>1, <3>2 DEF Shortens
        <5> QED BY <5>1, StartsInShorter
      <4> QED BY <4>1, <4>2
    <3> QED BY <2>3, <2>4, <2>5, <2>7, <3>4, <3>5
  <2>8. ASSUME ~Ends PROVE StartsAt(x, i, text, sc) = {}
    <3>1. StartsBefore(TokenAt(x, i), {}, text, sc) = {}
      BY DEF StartsBefore
    <3> QED BY <2>3, <2>4, <2>8, <3>1
  <2> QED BY <2>6, <2>7, <2>8
<1>11. \A i \in 0 .. e : (\A k \in i + 1 .. e : k \in H) => i \in H
  <2> HIDE DEF Good
  <2> QED BY <1>9, <1>10
<1>12. \A i \in 0 .. e : i \in H
  <2>1. e \in Nat
    BY <1>2
  <2> HIDE DEF H
  <2> QED BY <1>11, <2>1, FromTheEnd
<1>13. InSuffix(x, g, e, 0) /\ 0 \in 0 .. e
  BY <1>2, <1>3 DEF InSuffix
<1>14. Good(0)
  BY <1>12, <1>13
<1>15. 0 \in StartsAt(x, 0, text, sc) <=> Ends /\ 0 \in StartsAt(y, 0, short, sc)
  BY <1>14
<1>16. GlobTokens(Tokens(x), text, sc) <=> Ends /\ GlobTokens(Tokens(y), short, sc)
  BY <1>15 DEF GlobTokens, Tokens, StartsAt
<1> QED BY <1>6, <1>14, <1>16 DEF SplitAtTail

\* What is after the first token of a sequence of tokens.
LEMMA LastToken ==
    ASSUME NEW tok \in TokenSet, NEW toks \in Seq(TokenSet), NEW all, all = << tok >> \o toks
    PROVE  /\ all[1] = tok /\ Len(all) >= 1
           /\ toks = << >> => all[Len(all)] = tok
           /\ toks # << >> => all[Len(all)] = toks[Len(toks)]
<1>1. PICK l \in Nat : l = Len(toks)
  OBVIOUS
<1>2. /\ Len(all) = l + 1 /\ all[1] = tok
      /\ \A k \in 1 .. l : all[k + 1] = toks[k]
  BY <1>1, OneMore
<1>3. toks = << >> => l = 0
  BY <1>1
<1>4. toks # << >> => l \in 1 .. l
  BY <1>1
<1> QED BY <1>1, <1>2, <1>3, <1>4

WildLast(toks) == toks # << >> /\ toks[Len(toks)].wild

\* The last token of a suffix is a wildcard.
LEMMA SuffixEndsWild ==
    ASSUME NEW x \in Strings, NEW e, NEW y, NEW tail, HasSuffix(x, e, y, tail), e # 0
    PROVE  WildLast(Tokens(y))
<1>1. PICK n \in Nat : n = Len(x)
  BY DEF Strings
<1>2. e \in 0 .. n /\ e \in Nat /\ e = LastWildcardEnd(x) /\ y = SubSeq(x, 1, e)
  BY <1>1, Parsed DEF HasSuffix
<1>3. PICK g : g[0] = e /\ LastFrom(x, g)
  BY <1>2, LastFromHolds
<1>4. CutAt(x, g, e, y)
  BY <1>1, <1>2, <1>3 DEF CutAt
<1>5. InSuffix(x, g, e, 0)
  BY <1>2, <1>3 DEF InSuffix
<1>6. y \in Strings /\ Len(y) = e
  BY <1>4, <1>5, SuffixStep DEF SameToken
<1> DEFINE H == {i \in 0 .. e : i # e /\ InSuffix(x, g, e, i) => WildLast(TokensFrom(y)[i])}
<1>7. ASSUME NEW i \in 0 .. e, \A k \in i + 1 .. e : k \in H, InSuffix(x, g, e, i), i # e
      PROVE  WildLast(TokensFrom(y)[i])
  <2>1. SameToken(x, g, e, y, i)
    BY <1>4, <1>7, SuffixStep
  <2>2. PICK k : k = i + W(x, i)
    OBVIOUS
  <2>3. k \in i + 1 .. e /\ InSuffix(x, g, e, k) /\ (k = e => At(x, i) \in Wild) /\ i \in 0 .. e - 1
    BY <2>1, <2>2 DEF SameToken
  <2>4. PICK toks \in Seq(TokenSet) : toks = TokensFrom(y)[k]
    <3>1. k \in 0 .. Len(y)
      BY <1>6, <2>3
    <3> QED BY <1>6, <3>1, TokensRecursion
  <2>5. PICK tok \in TokenSet : tok = TokenAt(y, i)
    <3>1. i \in 0 .. Len(y) - 1
      BY <1>6, <2>3
    <3> QED BY <1>6, <3>1, TokenFacts
  <2>6. PICK all : all = << tok >> \o toks
    OBVIOUS
  <2>7. TokensFrom(y)[i] = all
    <3>1. i \in 0 .. Len(y) - 1 /\ i + W(y, i) = k
      BY <1>6, <2>1, <2>2, <2>3 DEF SameToken
    <3>2. TokensFrom(y)[i] = << TokenAt(y, i) >> \o TokensFrom(y)[i + W(y, i)]
      BY <1>6, <3>1, TokensRecursion
    <3> QED BY <2>4, <2>5, <2>6, <3>1, <3>2
  <2>8. /\ Len(all) >= 1
        /\ toks = << >> => all[Len(all)] = tok
        /\ toks # << >> => all[Len(all)] = toks[Len(toks)]
    BY <2>6, LastToken
  <2>9. all # << >>
    BY <2>8
  <2>10. CASE k = e
    <3>1. toks = << >>
      BY <1>6, <2>4, <2>10, TokensRecursion
    <3>2. tok.wild = (At(y, i) \in Wild)
      BY <2>5, TokenFields, Zenon
    <3>3. At(y, i) \in Wild
      BY <2>1, <2>3, <2>10 DEF SameToken
    <3>4. tok.wild
      BY <3>2, <3>3, Zenon
    <3> QED BY <2>7, <2>8, <2>9, <3>1, <3>4 DEF WildLast
  <2>11. CASE k # e
    <3>1. WildLast(toks)
      BY <1>7, <2>3, <2>4, <2>11
    <3> QED BY <2>7, <2>8, <2>9, <3>1 DEF WildLast
  <2> QED BY <2>10, <2>11
<1>8. \A i \in 0 .. e : (\A k \in i + 1 .. e : k \in H) => i \in H
  BY <1>7
<1>9. 0 \in H
  <2>1. \A i \in 0 .. e : i \in H
    <3> HIDE DEF H
    <3> QED BY <1>2, <1>8, FromTheEnd
  <2> QED BY <1>2, <2>1
<1> QED BY <1>5, <1>9 DEF Tokens

\* A wildcard part that starts with a wildcard has a suffix, which starts
\* with a wildcard too.
LEMMA SuffixStartsWild ==
    ASSUME NEW x \in Strings, x # << >>, At(x, 0) \in Wild,
           NEW e, NEW y, NEW tail, HasSuffix(x, e, y, tail)
    PROVE  e # 0 /\ Tokens(y)[1].wild
<1>1. PICK n \in Nat : n = Len(x)
  BY DEF Strings
<1>2. e \in 0 .. n /\ e \in Nat /\ e = LastWildcardEnd(x) /\ y = SubSeq(x, 1, e)
  BY <1>1, Parsed DEF HasSuffix
<1>3. PICK g : g[0] = e /\ LastFrom(x, g)
  BY <1>2, LastFromHolds
<1>4. CutAt(x, g, e, y)
  BY <1>1, <1>2, <1>3 DEF CutAt
<1>5. InSuffix(x, g, e, 0)
  BY <1>2, <1>3 DEF InSuffix
<1>6. 0 \in 0 .. n - 1
  BY <1>1 DEF Strings
<1>7. e # 0
  BY <1>1, <1>3, <1>6 DEF LastFrom
<1>8. SameToken(x, g, e, y, 0)
  BY <1>4, <1>5, <1>7, SuffixStep
<1>9. y \in Strings /\ 0 \in 0 .. Len(y) - 1 /\ At(y, 0) \in Wild
  BY <1>8 DEF SameToken
<1>10. PICK k \in 0 .. Len(y) : k = 0 + W(y, 0)
  <2>1. PICK l \in Nat : l = Len(y)
    BY <1>9 DEF Strings
  <2>2. 0 + W(y, 0) \in 0 + 1 .. l
    BY <1>9, <2>1, TokenFacts
  <2> QED BY <2>1, <2>2
<1>11. PICK toks \in Seq(TokenSet) : toks = TokensFrom(y)[k]
  BY <1>9, TokensRecursion
<1>12. PICK tok \in TokenSet : tok = TokenAt(y, 0)
  BY <1>9, TokenFacts
<1>13. TokensFrom(y)[0] = << tok >> \o toks
  BY <1>9, <1>10, <1>11, <1>12, TokensRecursion
<1>14. Tokens(y)[1] = tok
  BY <1>13, LastToken DEF Tokens
<1>15. tok.wild = (At(y, 0) \in Wild)
  BY <1>12, TokenFields, Zenon
<1>16. tok.wild
  BY <1>9, <1>15, Zenon
<1> QED BY <1>7, <1>14, <1>16

\* The loop that counts the characters a wildcard part needs counts its
\* tokens that are not stars.
LEMMA SuffixMinLengthIs ==
    ASSUME NEW x \in Strings
    PROVE  SuffixMinLength(x) = NeedAt(x, 0)
<1>1. PICK n \in Nat : n = Len(x)
  BY DEF Strings
<1>2. PICK f : /\ SuffixMinLength(x) = f[0]
               /\ f[Len(x)] = 0
               /\ \A i \in 0 .. Len(x) - 1 : f[i] = (IF At(x, i) = kStar THEN 0 ELSE 1) + f[i + W(x, i)]
               /\ \A i \in 0 .. Len(x) : f[i] \in Nat
  BY SuffixMinLengthFacts
<1> DEFINE H == {i \in 0 .. n : f[i] = NeedAt(x, i)}
<1>3. ASSUME NEW i \in 0 .. n, \A k \in i + 1 .. n : k \in H
      PROVE  f[i] = NeedAt(x, i)
  <2>1. CASE i = n
    BY <1>1, <1>2, <2>1, PatternEnds
  <2>2. CASE i # n
    <3>1. PICK k : k = i + W(x, i)
      OBVIOUS
    <3>2. i \in 0 .. n - 1
      BY <2>2
    <3>3. k \in i + 1 .. n
      BY <1>1, <3>1, <3>2, TokenFacts
    <3>4. f[k] = NeedAt(x, k) /\ f[k] \in Nat
      BY <1>1, <1>2, <1>3, <3>3
    <3>5. NeedAt(x, i) = NeedAt(x, k) + (IF At(x, i) = kStar THEN 0 ELSE 1)
      BY <1>1, <3>1, <3>2, PatternStep
    <3>6. f[i] = (IF At(x, i) = kStar THEN 0 ELSE 1) + f[k]
      BY <1>1, <1>2, <3>1, <3>2
    <3> QED BY <3>4, <3>5, <3>6
  <2> QED BY <2>1, <2>2
<1>4. \A i \in 0 .. n : (\A k \in i + 1 .. n : k \in H) => i \in H
  BY <1>3
<1>5. 0 \in H
  <2>1. \A i \in 0 .. n : i \in H
    <3> HIDE DEF H
    <3> QED BY <1>4, FromTheEnd
  <2> QED BY <2>1
<1> QED BY <1>2, <1>5

\* A match takes at least the characters needed, and if none is needed the
\* end of the text will do.
LEMMA NeedBounds ==
    ASSUME NEW x \in Strings, NEW text \in Strings, NEW sc
    PROVE  \A i \in 0 .. Len(x) :
             /\ \A j \in StartsAt(x, i, text, sc) : j + NeedAt(x, i) <= Len(text)
             /\ NeedAt(x, i) = 0 => Len(text) \in StartsAt(x, i, text, sc)
<1>1. PICK n \in Nat : n = Len(x)
  BY DEF Strings
<1>2. PICK m \in Nat : m = Len(text)
  BY DEF Strings
<1>3. \A i \in 0 .. n : StartsAt(x, i, text, sc) \subseteq 0 .. m /\ NeedAt(x, i) \in Nat
  BY <1>1, <1>2, StartsInText
<1> DEFINE Good(i) == /\ \A j \in StartsAt(x, i, text, sc) : j + NeedAt(x, i) <= m
                      /\ NeedAt(x, i) = 0 => m \in StartsAt(x, i, text, sc)
           H == {i \in 0 .. n : Good(i)}
<1>4. ASSUME NEW i \in 0 .. n, \A k \in i + 1 .. n : k \in H
      PROVE  Good(i)
  <2>1. CASE i = n
    <3>1. StartsAt(x, n, text, sc) = {m} /\ NeedAt(x, n) = 0
      BY <1>1, <1>2, PatternEnds
    <3> QED BY <2>1, <3>1
  <2>2. CASE i # n
    <3>1. PICK k : k = i + W(x, i)
      OBVIOUS
    <3>2. i \in 0 .. n - 1
      BY <2>2
    <3>3. k \in i + 1 .. n
      BY <1>1, <3>1, <3>2, TokenFacts
    <3>4. k \in 0 .. n /\ Good(k)
      BY <1>4, <3>3
    <3>5. PICK tok : tok = TokenAt(x, i)
      OBVIOUS
    <3>6. PICK S : S = StartsAt(x, k, text, sc)
      OBVIOUS
    <3>7. PICK d \in Nat : d = NeedAt(x, k)
      BY <1>3, <3>4
    <3>8. /\ StartsAt(x, i, text, sc) = StartsBefore(tok, S, text, sc)
          /\ NeedAt(x, i) = d + (IF At(x, i) = kStar THEN 0 ELSE 1)
      BY <1>1, <3>1, <3>2, <3>5, <3>6, <3>7, PatternStep
    <3>9. tok = StarToken <=> At(x, i) = kStar
      <4>1. At(x, i) \in Wild => LiteralAt(x, i, Len(x)) = At(x, i)
        BY <1>1, <3>2, TokenFacts
      <4> QED BY <3>5, <4>1 DEF TokenAt, StarToken, Wild, kStar, kQuestion
    <3>10. S \subseteq 0 .. m /\ \A j \in S : j + d <= m
      BY <1>3, <3>4, <3>6, <3>7
    <3>11. CASE At(x, i) = kStar
      <4>1. \A j \in StartsAt(x, i, text, sc) : j \in 0 .. m /\ \E h \in S : j <= h
        BY <1>2, <3>8, <3>9, <3>11 DEF StartsBefore
      <4>2. \A j \in StartsAt(x, i, text, sc) : j + d <= m
        BY <3>10, <4>1
      <4>3. m \in S => m \in StartsAt(x, i, text, sc)
        BY <1>2, <3>8, <3>9, <3>11 DEF StartsBefore
      <4> QED BY <3>4, <3>6, <3>7, <3>8, <3>11, <4>2, <4>3
    <3>12. CASE At(x, i) # kStar
      <4>1. \A j \in StartsAt(x, i, text, sc) : j \in 0 .. m - 1 /\ j + 1 \in S
        BY <1>2, <3>8, <3>9, <3>12 DEF StartsBefore
      <4>2. NeedAt(x, i) = d + 1
        BY <3>8, <3>12
      <4>3. \A j \in StartsAt(x, i, text, sc) : j + (d + 1) <= m
        BY <3>10, <4>1
      <4> QED BY <4>2, <4>3
    <3> QED BY <3>11, <3>12
  <2> QED BY <2>1, <2>2
<1>5. \A i \in 0 .. n : (\A k \in i + 1 .. n : k \in H) => i \in H
  <2> HIDE DEF Good
  <2> QED BY <1>4
<1>6. \A i \in 0 .. n : i \in H
  <2> HIDE DEF H
  <2> QED BY <1>5, FromTheEnd
<1> QED BY <1>1, <1>2, <1>6

-----------------------------------------------------------------------------
(* The probe for the first literal.                                        *)

LEMMA UpFromZero ==
    ASSUME NEW n \in Nat, NEW G, 0 \in G, \A i \in 0 .. n - 1 : i \in G => i + 1 \in G
    PROVE  \A i \in 0 .. n : i \in G
<1> DEFINE H == {h \in 0 .. n : n - h \in G}
<1>1. ASSUME NEW h \in 0 .. n, \A k \in h + 1 .. n : k \in H PROVE h \in H
  <2>1. CASE h = n
    <3>1. n - h = 0
      BY <2>1
    <3> QED BY <3>1
  <2>2. CASE h # n
    <3>1. h + 1 \in h + 1 .. n /\ n - (h + 1) \in 0 .. n - 1 /\ (n - (h + 1)) + 1 = n - h
      BY <2>2
    <3>2. n - (h + 1) \in G
      BY <1>1, <3>1
    <3>3. (n - (h + 1)) + 1 \in G
      BY <3>1, <3>2
    <3> QED BY <3>1, <3>3
  <2> QED BY <2>1, <2>2
<1>2. \A h \in 0 .. n : h \in H
  <2>1. \A h \in 0 .. n : (\A k \in h + 1 .. n : k \in H) => h \in H
    BY <1>1
  <2> HIDE DEF H
  <2> QED BY <2>1, FromTheEnd
<1>3. ASSUME NEW i \in 0 .. n PROVE i \in G
  <2>1. n - i \in 0 .. n /\ n - (n - i) = i
    OBVIOUS
  <2>2. n - (n - i) \in G
    BY <1>2, <2>1
  <2> QED BY <2>1, <2>2
<1> QED BY <1>3

\* A text that matches the suffix holds the first literal of it.
LEMMA ProbeFinds ==
    ASSUME NEW x \in Strings, NEW e, NEW y, NEW tail, HasSuffix(x, e, y, tail),
           FirstLiteralChar(x) # << >>,
           NEW short \in Strings, NEW sc, GlobTokens(Tokens(y), short, sc)
    PROVE  \E k \in 1 .. Len(short) : short[k] = FirstLiteralChar(x)[1]
<1>1. PICK n \in Nat : n = Len(x)
  BY DEF Strings
<1>2. e \in 0 .. n /\ e \in Nat /\ e = LastWildcardEnd(x) /\ y = SubSeq(x, 1, e)
  BY <1>1, Parsed DEF HasSuffix
<1>3. PICK g : g[0] = e /\ LastFrom(x, g)
  BY <1>2, LastFromHolds
<1>4. CutAt(x, g, e, y)
  BY <1>1, <1>2, <1>3 DEF CutAt
<1>5. InSuffix(x, g, e, 0)
  BY <1>2, <1>3 DEF InSuffix
<1>6. PICK m \in Nat : m = Len(short)
  BY DEF Strings
<1> DEFINE Stops == {i \in 0 .. e : i = e \/ At(x, i) \notin Wild}
<1>7. Stops \subseteq Nat /\ Stops # {}
  BY <1>2
<1>8. PICK j \in Stops : j = Min(Stops) /\ \A i \in Stops : j <= i
  BY <1>7, MinFacts
<1>9. j < e /\ FirstLiteralChar(x) = << LiteralAt(x, j, e) >>
  <2>1. FirstLiteralChar(x) =
          IF j < e /\ \A c \in Wild : \E i \in 0 .. j - 1 : At(x, i) = c
          THEN << LiteralAt(x, j, e) >> ELSE << >>
    BY <1>2, <1>8, Zenon DEF FirstLiteralChar
  <2> HIDE DEF Stops
  <2> QED BY <2>1
<1>10. j \in Nat /\ At(x, j) \notin Wild /\ \A i \in 0 .. j - 1 : At(x, i) \in Wild
  <2>1. j \in 0 .. e /\ j \in Nat
    BY <1>2
  <2>2. ASSUME NEW i \in 0 .. j - 1 PROVE At(x, i) \in Wild
    <3>1. i \in 0 .. e /\ ~(j <= i)
      BY <1>2, <2>1
    <3>2. i \notin Stops
      BY <1>8, <3>1
    <3> QED BY <3>1, <3>2
  <2> QED BY <1>9, <2>1, <2>2
<1>11. y \in Strings /\ Len(y) = e
  <2>1. 0 # e
    BY <1>2, <1>9, <1>10
  <2> QED BY <1>4, <1>5, <2>1, SuffixStep DEF SameToken
<1> DEFINE G == {i \in 0 .. j : InSuffix(x, g, e, i) /\ \E k \in 0 .. m : k \in StartsAt(y, i, short, sc)}
<1>12. 0 \in G
  <2>1. 0 \in StartsAt(y, 0, short, sc)
    BY DEF GlobTokens, Tokens, StartsAt
  <2> QED BY <1>5, <1>6, <1>10, <2>1
<1>13. ASSUME NEW i \in 0 .. j - 1, i \in G PROVE i + 1 \in G
  <2>1. i # e /\ InSuffix(x, g, e, i)
    BY <1>2, <1>9, <1>10, <1>13
  <2>2. SameToken(x, g, e, y, i)
    BY <1>4, <2>1, SuffixStep
  <2>3. i \in 0 .. Len(x) - 1 /\ At(x, i) \in Wild /\ i \in 0 .. Len(y) - 1
    BY <1>10, <1>11, <2>2 DEF SameToken
  <2>4. W(x, i) = 1
    BY <2>3, TokenFacts
  <2>5. W(y, i) = 1 /\ InSuffix(x, g, e, i + 1)
    BY <2>2, <2>4 DEF SameToken
  <2>6. PICK k \in 0 .. m : k \in StartsAt(y, i, short, sc)
    BY <1>13
  <2>7. StartsAt(y, i, short, sc)
          = StartsBefore(TokenAt(y, i), StartsAt(y, i + 1, short, sc), short, sc)
    <3>1. StartsAt(y, i, short, sc)
            = StartsBefore(TokenAt(y, i), StartsAt(y, i + W(y, i), short, sc), short, sc)
      BY <1>11, <2>3, PatternStep
    <3> QED BY <2>5, <3>1
  <2>8. PICK S : S = StartsAt(y, i + 1, short, sc)
    OBVIOUS
  <2>9. S \subseteq 0 .. m
    <3>1. i + 1 \in 0 .. Len(y)
      BY <1>2, <1>11, <2>3
    <3> QED BY <1>6, <1>11, <2>8, <3>1, StartsInText
  <2>10. \E h : h \in S
    BY <2>6, <2>7, <2>8 DEF StartsBefore
  <2>11. i + 1 \in 0 .. j
    BY <1>10
  <2> QED BY <2>5, <2>8, <2>9, <2>10, <2>11
<1>14. j \in G
  <2> HIDE DEF G
  <2>1. \A i \in 0 .. j : i \in G
    BY <1>10, <1>12, <1>13, UpFromZero
  <2> QED BY <1>10, <2>1
<1>15. InSuffix(x, g, e, j) /\ j # e
  BY <1>9, <1>10, <1>14
<1>16. SameToken(x, g, e, y, j)
  BY <1>4, <1>15, SuffixStep
<1>17. PICK k \in 0 .. m : k \in StartsAt(y, j, short, sc)
  BY <1>14
<1>18. j \in 0 .. Len(y) - 1 /\ At(y, j) \notin Wild
  BY <1>10, <1>16 DEF SameToken
<1>19. k + 1 <= Len(short) /\ short[k + 1] = LiteralAt(y, j, Len(y))
  <2>1. k \in Nat
    OBVIOUS
  <2> QED BY <1>11, <1>17, <1>18, <2>1, LiteralStarts
<1>20. LiteralAt(y, j, e) = LiteralAt(x, j, e)
  <2>1. \A h \in 0 .. e - 1 : At(y, h) = At(x, h)
    <3>1. 1 \in 1 .. Len(x) + 1 /\ e \in 1 - 1 .. Len(x)
      BY <1>1, <1>2
    <3>2. \A h \in 1 .. (e - 1) + 1 : y[h] = x[(1 + h) - 1]
      BY <1>2, <3>1, SubString
    <3>3. ASSUME NEW h \in 0 .. e - 1 PROVE At(y, h) = At(x, h)
      <4>1. h + 1 \in 1 .. (e - 1) + 1 /\ (1 + (h + 1)) - 1 = h + 1
        BY <1>2
      <4> QED BY <3>2, <4>1 DEF At
    <3> QED BY <3>3
  <2>2. j \in 0 .. e - 1 /\ (j + 1 < e => j + 1 \in 0 .. e - 1)
    BY <1>2, <1>9, <1>10
  <2>3. At(y, j) = At(x, j) /\ (j + 1 < e => At(y, j + 1) = At(x, j + 1))
    BY <2>1, <2>2
  <2>4. IsEscapeAt(y, j, e) <=> IsEscapeAt(x, j, e)
    BY <2>3 DEF IsEscapeAt
  <2>5. IsEscapeAt(y, j, e) => j + 1 < e
    BY DEF IsEscapeAt
  <2> QED BY <2>3, <2>4, <2>5 DEF LiteralAt
<1>21. FirstLiteralChar(x)[1] = LiteralAt(x, j, e)
  BY <1>9
<1>22. k + 1 \in 1 .. Len(short)
  BY <1>6, <1>19
<1> QED BY <1>11, <1>19, <1>20, <1>21, <1>22

-----------------------------------------------------------------------------
(* Folding and parsing.                                                    *)

\* No letter becomes a special character, and no special character changes.
LEMMA FoldedSpecial ==
    ASSUME NEW c \in BOOLEAN, NEW a
    PROVE  /\ FoldedChar(c, a) = kEscape <=> a = kEscape
           /\ FoldedChar(c, a) = kStar <=> a = kStar
           /\ FoldedChar(c, a) = kQuestion <=> a = kQuestion
<1>1. DOMAIN CaseMap = {"a", "b"} /\ CaseMap["a"] = "A" /\ CaseMap["b"] = "B"
  BY DEF CaseMap
<1>2. ToUpperFast(a) = IF a = "a" THEN "A" ELSE IF a = "b" THEN "B" ELSE a
  BY <1>1 DEF ToUpperFast
<1> QED BY <1>2 DEF FoldedChar, kEscape, kStar, kQuestion

LEMMA FoldedTokens ==
    ASSUME NEW c \in BOOLEAN, NEW x \in Strings, NEW y, y = Fold(c, x),
           NEW end \in 0 .. Len(x), NEW i \in 0 .. end - 1
    PROVE  /\ At(y, i) = FoldedChar(c, At(x, i))
           /\ At(y, i) \in Wild <=> At(x, i) \in Wild
           /\ WidthAt(y, i, end) = WidthAt(x, i, end)
           /\ LiteralAt(y, i, end) = FoldedChar(c, LiteralAt(x, i, end))
<1>1. PICK n \in Nat : n = Len(x)
  BY DEF Strings
<1>2. ASSUME NEW h \in 0 .. n - 1 PROVE At(y, h) = FoldedChar(c, At(x, h))
  <2>1. h + 1 \in 1 .. Len(x)
    BY <1>1
  <2> QED BY <2>1, FoldString DEF At
<1>3. i \in 0 .. n - 1 /\ (i + 1 < end => i + 1 \in 0 .. n - 1)
  BY <1>1
<1>4. /\ At(y, i) = FoldedChar(c, At(x, i))
      /\ i + 1 < end => At(y, i + 1) = FoldedChar(c, At(x, i + 1))
  BY <1>2, <1>3
<1>5. At(y, i) \in Wild <=> At(x, i) \in Wild
  BY <1>4, FoldedSpecial DEF Wild
<1>6. At(y, i) = kEscape <=> At(x, i) = kEscape
  BY <1>4, FoldedSpecial
<1>7. i + 1 < end => (At(y, i + 1) \in Special <=> At(x, i + 1) \in Special)
  BY <1>4, FoldedSpecial DEF Special
<1>8. IsEscapeAt(y, i, end) <=> IsEscapeAt(x, i, end)
  BY <1>6, <1>7 DEF IsEscapeAt
<1>9. IsEscapeAt(y, i, end) => i + 1 < end
  BY DEF IsEscapeAt
<1> QED BY <1>4, <1>5, <1>8, <1>9 DEF WidthAt, LiteralAt

\* Folding a string that begins with the character a: a folded, and the rest folded.
FoldsMore(c, a, r) ==
    /\ << a >> \o r \in Strings
    /\ Fold(c, << a >> \o r) = << FoldedChar(c, a) >> \o Fold(c, r)

LEMMA FoldedMore ==
    ASSUME NEW c \in BOOLEAN, NEW a, a \in STRING, NEW r \in Strings
    PROVE  FoldsMore(c, a, r)
<1> USE DEF FoldsMore
<1>1. PICK l \in Nat : l = Len(r)
  BY DEF Strings
<1>2. PICK b : b = FoldedChar(c, a) /\ b \in STRING
  BY UpperAssumption DEF FoldedChar, ToUpperFast
<1>3. PICK s : s = << a >> \o r
  OBVIOUS
<1>4. s \in Strings /\ Len(s) = l + 1 /\ s[1] = a /\ \A k \in 1 .. l : s[k + 1] = r[k]
  <2>1. PICK T : T = STRING
    OBVIOUS
  <2>3. r \in Seq(T) /\ a \in T
    BY <2>1 DEF Strings
  <2>2. s \in Seq(T) /\ Len(s) = l + 1 /\ s[1] = a /\ \A k \in 1 .. l : s[k + 1] = r[k]
    <3>1. /\ << a >> \o r \in Seq(T) /\ Len(<< a >> \o r) = Len(r) + 1
          /\ (<< a >> \o r)[1] = a
          /\ \A k \in 1 .. Len(r) : (<< a >> \o r)[k + 1] = r[k]
      BY <2>3
    <3> QED BY <1>1, <1>3, <3>1, Zenon
  <2> QED BY <2>1, <2>2 DEF Strings
<1>5. PICK f : f = Fold(c, s)
  OBVIOUS
<1>6. f \in Strings /\ Len(f) = l + 1 /\ \A i \in 1 .. l + 1 : f[i] = FoldedChar(c, s[i])
  BY <1>4, <1>5, FoldString
<1>7. PICK g : g = Fold(c, r)
  OBVIOUS
<1>8. g \in Strings /\ Len(g) = l /\ \A i \in 1 .. l : g[i] = FoldedChar(c, r[i])
  BY <1>1, <1>7, FoldString
<1>9. PICK h : h = << b >> \o g
  OBVIOUS
<1>10. h \in Strings /\ Len(h) = l + 1 /\ h[1] = b /\ \A k \in 1 .. l : h[k + 1] = g[k]
  <2>1. PICK T : T = STRING
    OBVIOUS
  <2>3. g \in Seq(T) /\ b \in T
    BY <1>2, <1>8, <2>1 DEF Strings
  <2>2. h \in Seq(T) /\ Len(h) = l + 1 /\ h[1] = b /\ \A k \in 1 .. l : h[k + 1] = g[k]
    <3>1. /\ << b >> \o g \in Seq(T) /\ Len(<< b >> \o g) = Len(g) + 1
          /\ (<< b >> \o g)[1] = b
          /\ \A k \in 1 .. Len(g) : (<< b >> \o g)[k + 1] = g[k]
      BY <2>3
    <3> QED BY <1>8, <1>9, <3>1, Zenon
  <2> QED BY <2>1, <2>2 DEF Strings
<1>11. ASSUME NEW i \in 1 .. l + 1 PROVE f[i] = h[i]
  <2>1. CASE i = 1
    BY <1>2, <1>4, <1>6, <1>10, <2>1
  <2>2. CASE i # 1
    <3>1. PICK k \in 1 .. l : i = k + 1
      <4>1. i - 1 \in 1 .. l /\ i = (i - 1) + 1
        BY <2>2
      <4> QED BY <4>1
    <3>2. f[i] = FoldedChar(c, s[k + 1]) /\ s[k + 1] = r[k]
      BY <1>4, <1>6, <3>1
    <3>3. h[i] = g[k] /\ g[k] = FoldedChar(c, r[k])
      BY <1>8, <1>10, <3>1
    <3> QED BY <3>2, <3>3
  <2> QED BY <2>1, <2>2
<1>12. f = h
  BY <1>6, <1>10, <1>11, SameString
<1> QED BY <1>2, <1>3, <1>4, <1>5, <1>7, <1>9, <1>12

\* Folding a pattern and taking it apart commute.
LEMMA FoldedParts ==
    ASSUME NEW c \in BOOLEAN, NEW x \in Strings
    PROVE  /\ Prefix(Fold(c, x)) = Fold(c, Prefix(x))
           /\ WildPart(Fold(c, x)) = Fold(c, WildPart(x))
<1>1. PICK n \in Nat : n = Len(x)
  BY DEF Strings
<1>2. PICK y \in Strings : y = Fold(c, x)
  BY FoldString
<1>3. Len(y) = n /\ \A i \in 1 .. n : y[i] = FoldedChar(c, x[i])
  BY <1>1, <1>2, FoldString
<1>4. ASSUME NEW i \in 0 .. n - 1
      PROVE  (At(y, i) \in Wild <=> At(x, i) \in Wild) /\ W(y, i) = W(x, i)
  <2>1. n \in 0 .. Len(x)
    BY <1>1
  <2>2. (At(y, i) \in Wild <=> At(x, i) \in Wild) /\ WidthAt(y, i, n) = WidthAt(x, i, n)
    BY <1>2, <2>1, FoldedTokens
  <2> QED BY <1>1, <1>3, <2>2 DEF W
<1>5. PrefixRawLen(y) = PrefixRawLen(x)
  <2>1. PICK f : /\ PrefixRawLen(x) = f[0]
                 /\ f[Len(x)] = Len(x)
                 /\ \A i \in 0 .. Len(x) - 1 : f[i] = IF At(x, i) \in Wild THEN i ELSE f[i + W(x, i)]
                 /\ \A i \in 0 .. Len(x) : f[i] \in 0 .. Len(x)
    BY PrefixRawLenFacts
  <2>2. PICK h : /\ PrefixRawLen(y) = h[0]
                 /\ h[Len(y)] = Len(y)
                 /\ \A i \in 0 .. Len(y) - 1 : h[i] = IF At(y, i) \in Wild THEN i ELSE h[i + W(y, i)]
                 /\ \A i \in 0 .. Len(y) : h[i] \in 0 .. Len(y)
    BY PrefixRawLenFacts
  <2> DEFINE G == {i \in 0 .. n : h[i] = f[i]}
  <2>3. ASSUME NEW i \in 0 .. n, \A k \in i + 1 .. n : k \in G PROVE h[i] = f[i]
    <3>1. CASE i = n
      BY <1>1, <1>3, <2>1, <2>2, <3>1
    <3>2. CASE i # n
      <4>1. PICK k : k = i + W(x, i)
        OBVIOUS
      <4>2. i \in 0 .. n - 1
        BY <3>2
      <4>3. k \in i + 1 .. n
        BY <1>1, <4>1, <4>2, TokenFacts
      <4>4. h[k] = f[k]
        BY <2>3, <4>3
      <4>5. f[i] = IF At(x, i) \in Wild THEN i ELSE f[k]
        BY <1>1, <2>1, <4>1, <4>2
      <4>6. h[i] = IF At(y, i) \in Wild THEN i ELSE h[k]
        BY <1>3, <1>4, <2>2, <4>1, <4>2
      <4> QED BY <1>4, <4>2, <4>4, <4>5, <4>6
    <3> QED BY <3>1, <3>2
  <2>4. \A i \in 0 .. n : (\A k \in i + 1 .. n : k \in G) => i \in G
    BY <2>3
  <2>5. 0 \in G
    <3>1. \A i \in 0 .. n : i \in G
      <4> HIDE DEF G
      <4> QED BY <2>4, FromTheEnd
    <3> QED BY <3>1
  <2> QED BY <2>1, <2>2, <2>5
<1>6. PICK b \in 0 .. n : b = PrefixRawLen(x)
  BY <1>1, Parsed
<1>7. Unescape(y, 0, b) = Fold(c, Unescape(x, 0, b))
  <2>0. b \in 0 .. Len(x) /\ b \in 0 .. Len(y) /\ 0 \in 0 .. b /\ b \in Nat
    BY <1>1, <1>3, <1>6
  <2>1. PICK f : Unescape(x, 0, b) = f[0] /\ Unescaped(x, 0, b, f)
    BY <2>0, UnescapeFacts
  <2>2. PICK h : Unescape(y, 0, b) = h[0] /\ Unescaped(y, 0, b, h)
    BY <2>0, UnescapeFacts
  <2> DEFINE G == {i \in 0 .. b : h[i] = Fold(c, f[i])}
  <2>3. ASSUME NEW i \in 0 .. b, \A k \in i + 1 .. b : k \in G PROVE h[i] = Fold(c, f[i])
    <3>1. CASE i = b
      <4>1. h[b] = << >> /\ f[b] = << >> /\ f[b] \in Strings
        BY <2>0, <2>1, <2>2 DEF Unescaped
      <4>2. Fold(c, f[b]) \in Strings /\ Len(Fold(c, f[b])) = 0
        BY <4>1, FoldString
      <4>3. Fold(c, f[b]) = << >>
        BY <4>2 DEF Strings
      <4> QED BY <3>1, <4>1, <4>3
    <3>2. CASE i # b
      <4>1. PICK k : k = i + WidthAt(x, i, b)
        OBVIOUS
      <4>2. i \in 0 .. b - 1
        BY <2>0, <3>2
      <4>3. k \in i + 1 .. b /\ LiteralAt(x, i, b) \in STRING
        BY <2>0, <4>1, <4>2, UpTo
      <4>4. h[k] = Fold(c, f[k])
        BY <2>3, <4>3
      <4>5. PICK a \in STRING : a = LiteralAt(x, i, b)
        BY <4>3
      <4>6. LiteralAt(y, i, b) = FoldedChar(c, a) /\ i + WidthAt(y, i, b) = k
        BY <1>2, <2>0, <4>1, <4>2, <4>5, FoldedTokens
      <4>7. PICK r \in Strings : r = f[k]
        BY <2>1, <4>3 DEF Unescaped
      <4>8. f[i] = << a >> \o r
        BY <2>1, <4>1, <4>2, <4>5, <4>7 DEF Unescaped
      <4>9. h[i] = << LiteralAt(y, i, b) >> \o h[i + WidthAt(y, i, b)]
        BY <2>2, <4>2 DEF Unescaped
      <4>10. h[i] = << FoldedChar(c, a) >> \o Fold(c, r)
        BY <4>4, <4>6, <4>7, <4>9
      <4>11. Fold(c, << a >> \o r) = << FoldedChar(c, a) >> \o Fold(c, r)
        <5>1. FoldsMore(c, a, r)
          BY FoldedMore
        <5> QED BY <5>1, Zenon DEF FoldsMore
      <4> QED BY <4>8, <4>10, <4>11, Zenon
    <3> QED BY <3>1, <3>2
  <2>4. \A i \in 0 .. b : (\A k \in i + 1 .. b : k \in G) => i \in G
    BY <2>3
  <2>5. 0 \in G
    <3>1. \A i \in 0 .. b : i \in G
      <4> HIDE DEF G
      <4> QED BY <2>0, <2>4, FromTheEnd
    <3> QED BY <2>0, <3>1
  <2> QED BY <2>1, <2>2, <2>5
<1>8. WildPart(y) = Fold(c, WildPart(x))
  <2>1. PICK u, v : u = SubSeq(x, b + 1, n) /\ v = SubSeq(y, b + 1, n)
    OBVIOUS
  <2>2. b + 1 \in 1 .. n + 1 /\ n \in (b + 1) - 1 .. n
    BY <1>6
  <2>3. /\ u \in Strings /\ Len(u) = (n - (b + 1)) + 1
        /\ \A i \in 1 .. (n - (b + 1)) + 1 : u[i] = x[((b + 1) + i) - 1]
    BY <1>1, <2>1, <2>2, SubString
  <2>4. /\ v \in Strings /\ Len(v) = (n - (b + 1)) + 1
        /\ \A i \in 1 .. (n - (b + 1)) + 1 : v[i] = y[((b + 1) + i) - 1]
    BY <1>3, <2>1, <2>2, SubString
  <2>5. PICK d \in Nat : d = (n - (b + 1)) + 1
    <3>1. (n - (b + 1)) + 1 \in Nat
      BY <1>6
    <3> QED BY <3>1
  <2>6. PICK w : w = Fold(c, u)
    OBVIOUS
  <2>7. w \in Strings /\ Len(w) = d /\ \A i \in 1 .. d : w[i] = FoldedChar(c, u[i])
    BY <2>3, <2>5, <2>6, FoldString
  <2>8. ASSUME NEW i \in 1 .. d PROVE v[i] = w[i]
    <3>1. ((b + 1) + i) - 1 \in 1 .. n
      BY <1>6, <2>5
    <3>2. v[i] = FoldedChar(c, x[((b + 1) + i) - 1])
      BY <1>3, <2>4, <2>5, <3>1
    <3>3. w[i] = FoldedChar(c, x[((b + 1) + i) - 1])
      BY <2>3, <2>5, <2>7
    <3> QED BY <3>2, <3>3
  <2>9. v = w
    BY <2>4, <2>5, <2>7, <2>8, SameString
  <2> QED BY <1>1, <1>3, <1>5, <1>6, <2>1, <2>6, <2>9 DEF WildPart
<1>9. Prefix(y) = Fold(c, Prefix(x))
  BY <1>5, <1>6, <1>7 DEF Prefix
<1> QED BY <1>2, <1>8, <1>9

\* Folding a part is taking the part of the folded text.
LEMMA FoldedPart ==
    ASSUME NEW c \in BOOLEAN, NEW x \in Strings, NEW a \in 1 .. Len(x) + 1, NEW b \in a - 1 .. Len(x)
    PROVE  Fold(c, SubSeq(x, a, b)) = SubSeq(Fold(c, x), a, b)
<1>1. PICK n \in Nat : n = Len(x)
  BY DEF Strings
<1>2. PICK d \in Nat : d = (b - a) + 1
  <2>1. (b - a) + 1 \in Nat
    BY <1>1
  <2> QED BY <2>1
<1>3. PICK u : u = SubSeq(x, a, b)
  OBVIOUS
<1>4. /\ u \in Strings /\ Len(u) = d
      /\ \A i \in 1 .. d : u[i] = x[(a + i) - 1]
  BY <1>2, <1>3, SubString
<1>5. PICK y \in Strings : y = Fold(c, x)
  BY FoldString
<1>6. Len(y) = Len(x) /\ \A i \in 1 .. n : y[i] = FoldedChar(c, x[i])
  BY <1>1, <1>5, FoldString
<1>7. PICK v : v = SubSeq(y, a, b)
  OBVIOUS
<1>8. /\ v \in Strings /\ Len(v) = d
      /\ \A i \in 1 .. d : v[i] = y[(a + i) - 1]
  BY <1>2, <1>6, <1>7, SubString
<1>9. PICK w : w = Fold(c, u)
  OBVIOUS
<1>10. w \in Strings /\ Len(w) = d /\ \A i \in 1 .. d : w[i] = FoldedChar(c, u[i])
  BY <1>4, <1>9, FoldString
<1>11. ASSUME NEW i \in 1 .. d PROVE v[i] = w[i]
  <2>1. (a + i) - 1 \in 1 .. n
    BY <1>1, <1>2
  <2> QED BY <1>4, <1>6, <1>8, <1>10, <2>1
<1>12. v = w
  BY <1>8, <1>10, <1>11, SameString
<1> QED BY <1>3, <1>5, <1>7, <1>9, <1>12

\* A part of the text is the literals exactly when they match there.
LEMMA MatchesPart ==
    ASSUME NEW s \in Strings, NEW t \in Strings, NEW j \in Nat, j + Len(s) <= Len(t)
    PROVE  Matches(s, t, j) <=> SubSeq(t, j + 1, j + Len(s)) = s
<1>1. PICK l \in Nat : l = Len(s)
  BY DEF Strings
<1>2. PICK m \in Nat : m = Len(t)
  BY DEF Strings
<1>3. PICK v : v = SubSeq(t, j + 1, j + l)
  OBVIOUS
<1>4. j + 1 \in 1 .. Len(t) + 1 /\ j + l \in (j + 1) - 1 .. Len(t)
  BY <1>1, <1>2
<1>5. /\ v \in Strings /\ Len(v) = ((j + l) - (j + 1)) + 1
      /\ \A i \in 1 .. ((j + l) - (j + 1)) + 1 : v[i] = t[((j + 1) + i) - 1]
  BY <1>3, <1>4, SubString
<1>6. ((j + l) - (j + 1)) + 1 = l
  OBVIOUS
<1>7. ASSUME NEW i \in 1 .. l PROVE v[i] = t[j + i]
  <2>1. ((j + 1) + i) - 1 = j + i
    OBVIOUS
  <2> QED BY <1>5, <1>6, <2>1
<1>8. Matches(s, t, j) <=> \A i \in 1 .. l : t[j + i] = s[i]
  BY <1>1 DEF Matches
<1>9. ASSUME Matches(s, t, j) PROVE v = s
  <2>1. \A i \in 1 .. l : v[i] = s[i]
    BY <1>7, <1>8, <1>9
  <2>2. Len(v) = Len(s)
    BY <1>1, <1>5, <1>6
  <2> QED BY <1>1, <1>5, <1>6, <2>1, <2>2, SameString
<1>10. ASSUME v = s PROVE Matches(s, t, j)
  BY <1>7, <1>8, <1>10
<1> QED BY <1>1, <1>3, <1>9, <1>10

\* Matching in the rest of a text.
LEMMA MatchesRest ==
    ASSUME NEW s \in Strings, NEW t \in Strings, NEW l \in 0 .. Len(t), NEW j \in Nat,
           j + Len(s) <= Len(t) - l
    PROVE  Matches(s, From(t, l), j) <=> Matches(s, t, l + j)
<1>1. PICK n \in Nat : n = Len(s)
  BY DEF Strings
<1>2. PICK m \in Nat : m = Len(t)
  BY DEF Strings
<1>3. PICK r : r = From(t, l)
  OBVIOUS
<1>4. Len(r) = m - l /\ \A h \in 0 .. (m - l) - 1 : At(r, h) = At(t, l + h)
  BY <1>2, <1>3, FromFacts
<1>5. ASSUME NEW i \in 1 .. n PROVE r[j + i] = t[(l + j) + i]
  <2>1. PICK h \in 0 .. (m - l) - 1 : h = (j + i) - 1
    <3>1. (j + i) - 1 \in 0 .. (m - l) - 1
      BY <1>1, <1>2
    <3> QED BY <3>1
  <2>2. h + 1 = j + i /\ (l + h) + 1 = (l + j) + i
    BY <1>2, <2>1
  <2>3. At(r, h) = At(t, l + h)
    BY <1>4, <2>1
  <2> QED BY <2>2, <2>3 DEF At
<1>6. Matches(s, r, j) <=> \A i \in 1 .. n : r[j + i] = s[i]
  BY <1>1, <1>2, <1>4 DEF Matches
<1>7. Matches(s, t, l + j) <=> \A i \in 1 .. n : t[(l + j) + i] = s[i]
  <2>1. (l + j) + n <= m
    BY <1>1, <1>2
  <2> QED BY <1>1, <1>2, <2>1 DEF Matches
<1> QED BY <1>3, <1>5, <1>6, <1>7

-----------------------------------------------------------------------------
(* What the checks of Search decide together.                              *)

\* The wildcard part of a pattern, folded, and its suffix and tail.
PartsOf(c, pat, w, e, y, tail) ==
    w = Fold(c, WildPart(pat)) /\ HasSuffix(w, e, y, tail)

LEMMA PartsTyped ==
    ASSUME NEW c \in BOOLEAN, NEW pat \in Strings, NEW w, NEW e, NEW y, NEW tail,
           PartsOf(c, pat, w, e, y, tail)
    PROVE  /\ w \in Strings /\ tail \in Strings /\ HasSuffix(w, e, y, tail)
           /\ w = << >> \/ At(w, 0) \in Wild
           /\ e = 0 <=> w = << >>
           /\ y \in Strings /\ NeedAt(y, 0) \in Nat
           /\ SuffixMinLength(w) = NeedAt(y, 0) + Len(tail)
<1>1. WildPart(pat) \in Strings
  BY Parsed
<1>2. w = Fold(c, WildPart(pat)) /\ HasSuffix(w, e, y, tail)
  BY DEF PartsOf
<1>3. w \in Strings /\ Len(w) = Len(WildPart(pat))
  BY <1>1, <1>2, FoldString
<1>4. PICK n \in Nat : n = Len(pat)
  BY DEF Strings
<1>5. PICK b \in 0 .. n : b = PrefixRawLen(pat)
  BY <1>4, Parsed
<1>6. b = n \/ At(pat, b) \in Wild
  BY <1>4, <1>5, PrefixRun
<1>7. PICK v \in Strings : v = WildPart(pat)
  BY <1>1
<1>8. v = From(pat, b)
  BY <1>5, <1>7 DEF WildPart, From
<1>9. Len(v) = n - b /\ \A h \in 0 .. (n - b) - 1 : At(v, h) = At(pat, b + h)
  BY <1>4, <1>8, FromFacts
<1>10. w = << >> \/ At(w, 0) \in Wild
  <2>1. CASE b = n
    <3>1. Len(w) = 0
      BY <1>3, <1>7, <1>9, <2>1
    <3> QED BY <1>3, <3>1 DEF Strings
  <2>2. CASE b # n
    <3>1. 0 \in 0 .. (n - b) - 1 /\ b + 0 = b
      BY <1>5, <2>2
    <3>2. At(v, 0) \in Wild
      BY <1>6, <1>9, <2>2, <3>1
    <3>3. Len(v) \in 0 .. Len(v) /\ 0 \in 0 .. Len(v) - 1
      BY <1>9, <3>1
    <3>4. At(w, 0) \in Wild
      BY <1>2, <1>7, <3>2, <3>3, FoldedTokens
    <3> QED BY <3>4
  <2> QED BY <2>1, <2>2
<1>11. tail = TailAnchor(w) /\ e = LastWildcardEnd(w) /\ y = SubSeq(w, 1, e)
  BY <1>2 DEF HasSuffix
<1>12. tail \in Strings /\ e \in 0 .. Len(w) /\ (w = << >> => e = 0)
  BY <1>3, <1>11, Parsed
<1>13. e = 0 => w = << >>
  BY <1>2, <1>3, <1>10, SuffixStartsWild
<1>14. y \in Strings
  <2>1. 1 \in 1 .. Len(w) + 1 /\ e \in 1 - 1 .. Len(w)
    BY <1>3, <1>12 DEF Strings
  <2> QED BY <1>3, <1>11, <2>1, SubString
<1>15. NeedAt(y, 0) \in Nat
  <2>1. 0 \in 0 .. Len(y)
    BY <1>14 DEF Strings
  <2> QED BY <1>14, <2>1, StartsInText
<1>16. SuffixMinLength(w) = NeedAt(y, 0) + Len(tail)
  <2>1. NeedAt(w, 0) = NeedAt(y, 0) + Len(tail)
    BY <1>2, <1>3, SuffixSplits
  <2>2. SuffixMinLength(w) = NeedAt(w, 0)
    BY <1>3, SuffixMinLengthIs
  <2> QED BY <2>1, <2>2
<1> QED BY <1>2, <1>3, <1>10, <1>12, <1>13, <1>14, <1>15, <1>16

\* What is decided about the rest of a text, after the prefix.
RestIs(w, e, y, tail, t, sc, q) ==
    /\ GlobTokens(Tokens(w), t, sc) => SuffixMinLength(w) <= Len(t)
    /\ Len(t) = 0 => (GlobTokens(Tokens(w), t, sc) <=> SuffixMinLength(w) = 0)
    /\ e = 0 /\ GlobTokens(Tokens(w), t, sc) => Len(t) = 0
    /\ SuffixMinLength(w) <= Len(t) =>
         /\ q <= Len(t)
         /\ GlobTokens(Tokens(w), t, sc) <=>
              /\ Matches(tail, t, Len(t) - q)
              /\ GlobTokens(Tokens(y), SubSeq(t, 1, Len(t) - q), sc)

LEMMA RestDecided ==
    ASSUME NEW c \in BOOLEAN, NEW pat \in Strings, NEW w, NEW e, NEW y, NEW tail,
           PartsOf(c, pat, w, e, y, tail), NEW t \in Strings, NEW sc,
           NEW q, q = Len(tail)
    PROVE  RestIs(w, e, y, tail, t, sc, q)
<1>1. /\ w \in Strings /\ tail \in Strings /\ HasSuffix(w, e, y, tail)
      /\ e = 0 <=> w = << >>
      /\ NeedAt(y, 0) \in Nat /\ SuffixMinLength(w) = NeedAt(y, 0) + Len(tail)
  BY PartsTyped
<1>2. PICK m \in Nat : m = Len(t)
  BY DEF Strings
<1>3. q \in Nat
  BY <1>1 DEF Strings
<1>4. PICK d \in Nat : d = SuffixMinLength(w) /\ d = NeedAt(w, 0)
  BY <1>1, Parsed, SuffixMinLengthIs
<1>5. GlobTokens(Tokens(w), t, sc) <=> 0 \in StartsAt(w, 0, t, sc)
  BY DEF GlobTokens, Tokens, StartsAt
<1>6. 0 \in 0 .. Len(w)
  BY <1>1 DEF Strings
<1>7. /\ \A j \in StartsAt(w, 0, t, sc) : j + d <= m
      /\ d = 0 => m \in StartsAt(w, 0, t, sc)
  BY <1>1, <1>2, <1>4, <1>6, NeedBounds
<1>8. GlobTokens(Tokens(w), t, sc) => d <= m
  <2>1. 0 \in StartsAt(w, 0, t, sc) => 0 + d <= m
    BY <1>7
  <2> QED BY <1>5, <2>1
<1>9. m = 0 => (GlobTokens(Tokens(w), t, sc) <=> d = 0)
  BY <1>5, <1>7, <1>8
<1>10. ASSUME e = 0, GlobTokens(Tokens(w), t, sc) PROVE m = 0
  <2>1. w = << >> /\ Len(w) = 0
    BY <1>1, <1>10
  <2>2. StartsAt(w, 0, t, sc) = {m}
    BY <1>1, <1>2, <2>1, PatternEnds
  <2> QED BY <1>5, <1>10, <2>2
<1>11. d <= m => q <= m
  BY <1>1, <1>2, <1>3, <1>4
<1>12. SplitAtTail(w, y, tail, t, sc)
  BY <1>1, SuffixSplits
<1>13. GlobTokens(Tokens(w), t, sc) <=>
         /\ q <= Len(t) /\ Matches(tail, t, Len(t) - q)
         /\ GlobTokens(Tokens(y), SubSeq(t, 1, Len(t) - q), sc)
  BY <1>12 DEF SplitAtTail
<1> QED BY <1>2, <1>4, <1>8, <1>9, <1>10, <1>11, <1>13 DEF RestIs

\* The end of a folded text, and the rest of it without a tail, are what is
\* compared and matched.
EndsIn(text, l, q, tail) ==
    /\ text \in Strings /\ tail \in Strings /\ l \in 0 .. Len(text)
    /\ q \in 0 .. Len(text) - l /\ q = Len(tail)

EndsAgree(c, text, l, q, tail, r) ==
    /\ SubSeq(r, 1, Len(r) - q)
         = Fold(c, SubSeq(From(text, l), 1, Len(From(text, l)) - q))
    /\ Matches(tail, r, Len(r) - q)
         <=> Fold(c, SubSeq(text, Len(text) - q + 1, Len(text))) = tail

LEMMA EndsOfText ==
    ASSUME NEW c \in BOOLEAN, NEW text, NEW l, NEW q, NEW tail, EndsIn(text, l, q, tail),
           NEW r, r = From(Fold(c, text), l)
    PROVE  EndsAgree(c, text, l, q, tail, r)
<1> text \in Strings /\ tail \in Strings /\ l \in 0 .. Len(text)
    /\ q \in 0 .. Len(text) - l /\ q = Len(tail)
  BY DEF EndsIn
<1>1. PICK m \in Nat : m = Len(text)
  BY DEF Strings
<1>2. l \in 0 .. m /\ q \in 0 .. m - l
  BY <1>1
<1>3. PICK t \in Strings : t = Fold(c, text) /\ Len(t) = m
  BY <1>1, FoldString
<1>4. r = From(t, l) /\ r \in Strings /\ Len(r) = m - l
  BY <1>2, <1>3, FromFacts
<1>5. PICK u \in Strings : u = From(text, l) /\ Len(u) = m - l
  BY <1>1, FromFacts
<1>6. Fold(c, u) = r
  <2>1. l + 1 \in 1 .. Len(text) + 1 /\ Len(text) \in (l + 1) - 1 .. Len(text)
    BY <1>1, <1>2
  <2>2. Fold(c, SubSeq(text, l + 1, Len(text))) = SubSeq(Fold(c, text), l + 1, Len(text))
    BY <2>1, FoldedPart
  <2> QED BY <1>1, <1>3, <1>4, <1>5, <2>2 DEF From
<1>7. PICK d \in Nat : d = (m - l) - q
  <2>1. (m - l) - q \in Nat
    BY <1>2
  <2> QED BY <2>1
<1>8. SubSeq(r, 1, d) = Fold(c, SubSeq(u, 1, d))
  <2>1. 1 \in 1 .. Len(u) + 1 /\ d \in 1 - 1 .. Len(u)
    BY <1>2, <1>5, <1>7
  <2>2. Fold(c, SubSeq(u, 1, d)) = SubSeq(Fold(c, u), 1, d)
    BY <1>5, <2>1, FoldedPart
  <2> QED BY <1>6, <2>2
<1>9. Matches(tail, r, d) <=> Matches(tail, t, l + d)
  <2>1. d + Len(tail) <= Len(t) - l /\ l \in 0 .. Len(t)
    BY <1>2, <1>3, <1>7
  <2> QED BY <1>3, <1>4, <1>7, <2>1, MatchesRest
<1>10. PICK b \in Nat : b = l + d
  OBVIOUS
<1>11. b = m - q /\ b + q = m
  BY <1>2, <1>7, <1>10
<1>12. Matches(tail, t, b) <=> SubSeq(t, b + 1, b + q) = tail
  <2>1. b + Len(tail) <= Len(t)
    BY <1>3, <1>11
  <2> QED BY <1>3, <1>10, <2>1, MatchesPart
<1>13. SubSeq(t, b + 1, m) = Fold(c, SubSeq(text, b + 1, m))
  <2>1. b + 1 \in 1 .. Len(text) + 1 /\ m \in (b + 1) - 1 .. Len(text)
    BY <1>1, <1>2, <1>10, <1>11
  <2> QED BY <1>3, <2>1, FoldedPart
<1>14. Matches(tail, r, d) <=> Fold(c, SubSeq(text, (m - q) + 1, m)) = tail
  BY <1>9, <1>10, <1>11, <1>12, <1>13
<1> QED BY <1>1, <1>4, <1>5, <1>7, <1>8, <1>14 DEF EndsAgree

\* The checks that Search makes of an entry with these parts.
PrefixAgrees(c, pat, text) ==
    Fold(c, SubSeq(text, 1, Len(Prefix(pat)))) = Fold(c, Prefix(pat))
TailAgrees(c, tail, text) ==
    Fold(c, SubSeq(text, Len(text) - Len(tail) + 1, Len(text))) = tail
SuffixAgrees(c, y, tail, rest, sc) ==
    GlobTokens(Tokens(y), Fold(c, SubSeq(rest, 1, Len(rest) - Len(tail))), sc)

BucketChecks(c, pat, w, e, y, tail, text, sc) ==
    /\ Len(text) >= Len(Prefix(pat)) + SuffixMinLength(w)
    /\ Len(Prefix(pat)) < Len(text) => e # 0 /\ TailAgrees(c, tail, text)
    /\ PrefixAgrees(c, pat, text)
    /\ \/ Len(Prefix(pat)) = Len(text)
       \/ SuffixAgrees(c, y, tail, From(text, Len(Prefix(pat))), sc)

\* They succeed together exactly when the text matches the pattern.
LEMMA BucketDecides ==
    ASSUME NEW c \in BOOLEAN, NEW pat \in Strings, NEW w, NEW e, NEW y, NEW tail,
           PartsOf(c, pat, w, e, y, tail), NEW text \in Strings, NEW sc
    PROVE  Glob(pat, text, sc, c) <=> BucketChecks(c, pat, w, e, y, tail, text, sc)
<1>1. /\ w \in Strings /\ tail \in Strings
      /\ NeedAt(y, 0) \in Nat /\ SuffixMinLength(w) = NeedAt(y, 0) + Len(tail)
  BY PartsTyped
<1>2. PICK m \in Nat : m = Len(text)
  BY DEF Strings
<1>3. PICK q \in Nat : q = Len(tail)
  BY <1>1 DEF Strings
<1>4. PICK d \in Nat : d = SuffixMinLength(w)
  BY <1>1, <1>3
<1>5. Prefix(pat) \in Strings
  BY Parsed
<1>6. PICK l \in Nat : l = Len(Prefix(pat))
  BY <1>5 DEF Strings
<1>7. PICK p \in Strings : p = Fold(c, Prefix(pat)) /\ Len(p) = l
  BY <1>5, <1>6, FoldString
<1>8. PICK t \in Strings : t = Fold(c, text) /\ Len(t) = m
  BY <1>2, FoldString
<1>9. PICK r : r = From(t, l)
  OBVIOUS
<1>10. Glob(pat, text, sc, c) <=> Matches(p, t, 0) /\ GlobTokens(Tokens(w), r, sc)
  <2>1. PICK x \in Strings : x = Fold(c, pat)
    BY FoldString
  <2>2. Prefix(x) = p /\ WildPart(x) = w
    BY <1>7, <2>1, FoldedParts DEF PartsOf
  <2>3. GlobTokens(Tokens(x), t, sc) <=>
          Matches(Prefix(x), t, 0) /\ GlobTokens(Tokens(WildPart(x)), From(t, Len(Prefix(x))), sc)
    BY <1>8, <2>1, PrefixSplits
  <2> QED BY <1>7, <1>8, <1>9, <2>1, <2>2, <2>3 DEF Glob
<1>11. CASE l > m
  <2>1. ~Matches(p, t, 0)
    BY <1>7, <1>8, <1>11 DEF Matches
  <2>2. ~BucketChecks(c, pat, w, e, y, tail, text, sc)
    BY <1>2, <1>4, <1>6, <1>11 DEF BucketChecks
  <2> QED BY <1>10, <2>1, <2>2
<1>12. CASE l <= m
  <2>1. l \in 0 .. Len(t) /\ l \in 0 .. Len(text)
    BY <1>2, <1>8, <1>12
  <2>2. r \in Strings /\ Len(r) = m - l
    BY <1>8, <1>9, <2>1, FromFacts
  <2>3. /\ GlobTokens(Tokens(w), r, sc) => d <= m - l
        /\ m - l = 0 => (GlobTokens(Tokens(w), r, sc) <=> d = 0)
        /\ e = 0 /\ GlobTokens(Tokens(w), r, sc) => m - l = 0
        /\ d <= m - l =>
             /\ q <= m - l
             /\ GlobTokens(Tokens(w), r, sc) <=>
                  /\ Matches(tail, r, (m - l) - q)
                  /\ GlobTokens(Tokens(y), SubSeq(r, 1, (m - l) - q), sc)
    <3>1. RestIs(w, e, y, tail, r, sc, q)
      BY <1>3, <2>2, RestDecided
    <3> QED BY <1>4, <2>2, <3>1 DEF RestIs
  <2>4. Matches(p, t, 0) <=> PrefixAgrees(c, pat, text)
    <3>1. 1 \in 1 .. Len(text) + 1 /\ l \in 1 - 1 .. Len(text) /\ 0 + Len(p) <= Len(t)
      BY <1>2, <1>7, <1>8, <1>12
    <3>2. Fold(c, SubSeq(text, 1, l)) = SubSeq(t, 1, l)
      BY <1>8, <3>1, FoldedPart
    <3>3. Matches(p, t, 0) <=> SubSeq(t, 0 + 1, 0 + Len(p)) = p
      BY <1>7, <1>8, <3>1, MatchesPart
    <3>4. 0 + 1 = 1 /\ 0 + Len(p) = l
      BY <1>7
    <3> QED BY <1>6, <1>7, <3>2, <3>3, <3>4 DEF PrefixAgrees
  <2>5. CASE ~(d <= m - l)
    <3>1. ~BucketChecks(c, pat, w, e, y, tail, text, sc)
      BY <1>2, <1>4, <1>6, <2>5 DEF BucketChecks
    <3> QED BY <1>10, <2>3, <2>5, <3>1
  <2>6. CASE d <= m - l /\ l = m
    <3>1. d = 0 /\ m - l = 0
      BY <2>6
    <3>2. GlobTokens(Tokens(w), r, sc)
      BY <2>3, <3>1
    <3>3. BucketChecks(c, pat, w, e, y, tail, text, sc) <=> PrefixAgrees(c, pat, text)
      BY <1>2, <1>4, <1>6, <2>6, <3>1 DEF BucketChecks
    <3> QED BY <1>10, <2>4, <3>2, <3>3
  <2>7. CASE d <= m - l /\ l < m
    <3>1. q \in 0 .. Len(text) - l
      BY <1>2, <2>3, <2>7
    <3>2. /\ SubSeq(r, 1, Len(r) - q) = Fold(c, SubSeq(From(text, l), 1, Len(From(text, l)) - q))
          /\ Matches(tail, r, Len(r) - q)
               <=> Fold(c, SubSeq(text, Len(text) - q + 1, Len(text))) = tail
      <4>1. EndsIn(text, l, q, tail)
        BY <1>1, <1>3, <2>1, <3>1 DEF EndsIn
      <4>2. EndsAgree(c, text, l, q, tail, r)
        BY <1>8, <1>9, <4>1, EndsOfText
      <4> QED BY <4>2 DEF EndsAgree
    <3>3. Matches(tail, r, Len(r) - q) <=> TailAgrees(c, tail, text)
      BY <1>3, <3>2 DEF TailAgrees
    <3>4. GlobTokens(Tokens(y), SubSeq(r, 1, Len(r) - q), sc)
            <=> SuffixAgrees(c, y, tail, From(text, l), sc)
      BY <1>3, <3>2 DEF SuffixAgrees
    <3>5. GlobTokens(Tokens(w), r, sc) <=>
            TailAgrees(c, tail, text) /\ SuffixAgrees(c, y, tail, From(text, l), sc)
      BY <2>2, <2>3, <2>7, <3>3, <3>4
    <3>6. GlobTokens(Tokens(w), r, sc) => e # 0
      BY <2>3, <2>7
    <3>7. BucketChecks(c, pat, w, e, y, tail, text, sc) <=>
            /\ e # 0 /\ TailAgrees(c, tail, text) /\ PrefixAgrees(c, pat, text)
            /\ SuffixAgrees(c, y, tail, From(text, l), sc)
      BY <1>2, <1>4, <1>6, <2>7 DEF BucketChecks
    <3> QED BY <1>10, <2>4, <3>5, <3>6, <3>7
  <2> QED BY <1>12, <2>5, <2>6, <2>7
<1> QED BY <1>11, <1>12

\* Without a prefix the first literal is looked for as well.
SlowChecks(c, w, y, tail, first, text, sc) ==
    /\ Len(text) >= SuffixMinLength(w)
    /\ TailAgrees(c, tail, text)
    /\ first # << >> => \E k \in 1 .. Len(text) - Len(tail) :
         Fold(c, SubSeq(text, 1, Len(text) - Len(tail)))[k] = first[1]
    /\ SuffixAgrees(c, y, tail, text, sc)

LEMMA SlowDecides ==
    ASSUME NEW c \in BOOLEAN, NEW pat \in Strings, NEW w, NEW e, NEW y, NEW tail,
           PartsOf(c, pat, w, e, y, tail), NEW text \in Strings, NEW sc,
           Prefix(pat) = << >>, WildPart(pat) # << >>
    PROVE  Glob(pat, text, sc, c)
             <=> SlowChecks(c, w, y, tail, FirstLiteralChar(w), text, sc)
<1>1. /\ w \in Strings /\ tail \in Strings /\ HasSuffix(w, e, y, tail)
      /\ NeedAt(y, 0) \in Nat /\ SuffixMinLength(w) = NeedAt(y, 0) + Len(tail)
  BY PartsTyped
<1>2. PICK m \in Nat : m = Len(text)
  BY DEF Strings
<1>3. PICK q \in Nat : q = Len(tail)
  BY <1>1 DEF Strings
<1>4. PICK d \in Nat : d = SuffixMinLength(w)
  BY <1>1, <1>3
<1>5. PICK t \in Strings : t = Fold(c, text) /\ Len(t) = m
  BY <1>2, FoldString
<1>6. From(t, 0) = t /\ From(text, 0) = text
  <2>1. ASSUME NEW s \in Strings PROVE From(s, 0) = s
    <3>1. 0 \in 0 .. Len(s) /\ Len(s) \in Nat
      BY DEF Strings
    <3>2. PICK u : u = From(s, 0)
      OBVIOUS
    <3>3. u \in Strings /\ Len(u) = Len(s)
      BY <3>1, <3>2, FromFacts
    <3>4. \A i \in 1 .. Len(u) : u[i] = s[i]
      BY <3>1, <3>2, <3>3 DEF From, Strings
    <3> QED BY <3>2, <3>3, <3>4, SameString
  <2> QED BY <1>5, <2>1
<1>7. Glob(pat, text, sc, c) <=> GlobTokens(Tokens(w), t, sc)
  <2>1. PICK x \in Strings : x = Fold(c, pat)
    BY FoldString
  <2>2. Fold(c, << >>) = << >>
    <3>1. << >> \in Strings /\ Len(<< >>) = 0
      BY DEF Strings
    <3>2. Fold(c, << >>) \in Strings /\ Len(Fold(c, << >>)) = 0
      BY <3>1, FoldString
    <3> QED BY <3>2 DEF Strings
  <2>3. Prefix(x) = << >> /\ WildPart(x) = w
    BY <2>1, <2>2, FoldedParts DEF PartsOf
  <2>4. GlobTokens(Tokens(x), t, sc) <=>
          Matches(Prefix(x), t, 0) /\ GlobTokens(Tokens(WildPart(x)), From(t, Len(Prefix(x))), sc)
    BY <1>5, <2>1, PrefixSplits
  <2>5. Len(Prefix(x)) = 0 /\ Matches(Prefix(x), t, 0)
    BY <1>5, <2>3 DEF Matches
  <2>6. From(t, Len(Prefix(x))) = t
    BY <1>6, <2>5
  <2> QED BY <1>5, <2>1, <2>3, <2>4, <2>5, <2>6 DEF Glob
<1>8. /\ GlobTokens(Tokens(w), t, sc) => d <= m
      /\ d <= m =>
           /\ q <= m
           /\ GlobTokens(Tokens(w), t, sc) <=>
                /\ Matches(tail, t, m - q)
                /\ GlobTokens(Tokens(y), SubSeq(t, 1, m - q), sc)
  <2>1. RestIs(w, e, y, tail, t, sc, q)
    BY <1>3, <1>5, RestDecided
  <2> QED BY <1>4, <1>5, <2>1 DEF RestIs
<1>9. CASE ~(d <= m)
  <2>1. ~SlowChecks(c, w, y, tail, FirstLiteralChar(w), text, sc)
    BY <1>2, <1>4, <1>9 DEF SlowChecks
  <2> QED BY <1>7, <1>8, <1>9, <2>1
<1>10. CASE d <= m
  <2>1. 0 \in 0 .. Len(text) /\ q \in 0 .. Len(text) - 0
    BY <1>2, <1>8, <1>10
  <2>2. /\ SubSeq(t, 1, Len(t) - q) = Fold(c, SubSeq(From(text, 0), 1, Len(From(text, 0)) - q))
        /\ Matches(tail, t, Len(t) - q)
             <=> Fold(c, SubSeq(text, Len(text) - q + 1, Len(text))) = tail
    <3>1. t = From(Fold(c, text), 0)
      BY <1>5, <1>6
    <3>2. EndsIn(text, 0, q, tail)
      BY <1>1, <1>3, <2>1 DEF EndsIn
    <3>3. EndsAgree(c, text, 0, q, tail, t)
      BY <3>1, <3>2, EndsOfText
    <3> QED BY <3>3 DEF EndsAgree
  <2>3. PICK s : s = SubSeq(t, 1, m - q)
    OBVIOUS
  <2>4. s = Fold(c, SubSeq(text, 1, Len(text) - Len(tail)))
    BY <1>2, <1>3, <1>5, <1>6, <2>2, <2>3
  <2>5. Matches(tail, t, m - q) <=> TailAgrees(c, tail, text)
    BY <1>3, <1>5, <2>2 DEF TailAgrees
  <2>6. GlobTokens(Tokens(y), s, sc) <=> SuffixAgrees(c, y, tail, text, sc)
    BY <2>4 DEF SuffixAgrees
  <2>7. s \in Strings /\ Len(s) = m - q
    <3>1. 1 \in 1 .. Len(t) + 1 /\ m - q \in 1 - 1 .. Len(t) /\ ((m - q) - 1) + 1 = m - q
      BY <1>2, <1>5, <1>8, <1>10
    <3>2. s \in Strings /\ Len(s) = ((m - q) - 1) + 1
      BY <1>5, <2>3, <3>1, SubString
    <3> QED BY <3>1, <3>2
  <2>8. GlobTokens(Tokens(y), s, sc) /\ FirstLiteralChar(w) # << >> =>
          \E k \in 1 .. Len(text) - Len(tail) :
            Fold(c, SubSeq(text, 1, Len(text) - Len(tail)))[k] = FirstLiteralChar(w)[1]
    <3>1. GlobTokens(Tokens(y), s, sc) /\ FirstLiteralChar(w) # << >> =>
            \E k \in 1 .. Len(s) : s[k] = FirstLiteralChar(w)[1]
      BY <1>1, <2>7, ProbeFinds
    <3>2. Len(s) = Len(text) - Len(tail)
      BY <1>2, <1>3, <2>7
    <3> QED BY <2>4, <3>1, <3>2
  <2>9. SuffixMinLength(w) <= Len(text)
    BY <1>2, <1>4, <1>10
  <2> QED BY <1>2, <1>3, <1>4, <1>7, <1>8, <1>10, <2>3, <2>5, <2>6, <2>8, <2>9 DEF SlowChecks
<1> QED BY <1>2, <1>9, <1>10

=============================================================================

--------------------- MODULE KmStringPatternMatch_proofs ---------------------
(***************************************************************************)
(* Proofs about the engine, for every set of patterns and texts, every     *)
(* hash function and every size of the containers: the index is complete,  *)
(* whatever was added, refused or cleared before, and every search returns *)
(* exactly the contexts of the patterns that match.                        *)
(***************************************************************************)
EXTENDS KmStringPatternMatch, PatternParser_proofs

-----------------------------------------------------------------------------
(* The inductive invariant.                                                *)

Vectors(T) == [data : Seq(T), capacity : Nat]

EntrySet ==
    [buffer : Nat, prefixLength : Nat, suffixLength : Nat, tailBuffer : Nat,
     tailLength : Nat, Id : Nat, ContextIndex : Nat, MinWildcardMatchLength : Nat,
     Scope : WILD_CARD_SCOPE, FirstLiteral : Strings]

Registrations == [pattern : Patterns, scope : Scopes, context : Nat]

\* Part of a buffer of the arena, and a whole buffer; buffer 0 is null.
PartOf(arena, buffer, from, to) ==
    IF buffer = 0 THEN << >> ELSE SubSeq(arena[buffer], from, to)
WholeOf(arena, buffer) == IF buffer = 0 THEN << >> ELSE arena[buffer]

Wildcards(mode, pat) == Fold(mode, WildPart(pat))

\* The entry says of its pattern what AddPattern found out about it, and its
\* buffers hold the pattern's characters.
Describes(e, r, mode, arena, contexts) ==
    /\ e.buffer \in 0 .. Len(arena) /\ e.tailBuffer \in 0 .. Len(arena)
    /\ e.ContextIndex \in 1 .. Len(contexts) /\ contexts[e.ContextIndex] = r.context
    /\ e.prefixLength = Len(Prefix(r.pattern))
    /\ PartOf(arena, e.buffer, 1, e.prefixLength) = Fold(mode, Prefix(r.pattern))
    /\ e.suffixLength = LastWildcardEnd(Wildcards(mode, r.pattern))
    /\ PartOf(arena, e.buffer, e.prefixLength + 1, e.prefixLength + e.suffixLength)
         = SubSeq(Wildcards(mode, r.pattern), 1, e.suffixLength)
    /\ e.tailLength = Len(TailAnchor(Wildcards(mode, r.pattern)))
    /\ WholeOf(arena, e.tailBuffer) = TailAnchor(Wildcards(mode, r.pattern))
    /\ e.MinWildcardMatchLength = SuffixMinLength(Wildcards(mode, r.pattern))
    /\ e.Scope = r.scope
    /\ e.FirstLiteral = IF Prefix(r.pattern) = << >>
                        THEN FirstLiteralChar(Wildcards(mode, r.pattern)) ELSE << >>

Known(e, reg, mode, arena, contexts) ==
    e.Id \in 1 .. Len(reg) /\ Describes(e, reg[e.Id], mode, arena, contexts)

\* The entries of a list, in the order in which they were added.
Listed(data, reg, mode, arena, contexts) ==
    /\ data \in Seq(EntrySet)
    /\ \A i, j \in 1 .. Len(data) : i < j => data[i].Id < data[j].Id
    /\ \A i \in 1 .. Len(data) : Known(data[i], reg, mode, arena, contexts)

AllSlow(data, reg) == \A i \in 1 .. Len(data) : IsSlow(reg[data[i].Id].pattern)
AllHashed(data, reg, mode, h) ==
    \A i \in 1 .. Len(data) : /\ ~IsSlow(reg[data[i].Id].pattern)
                              /\ Hash(Fold(mode, Prefix(reg[data[i].Id].pattern))) = h

ListedHere(data) == Listed(data, registered, m_bCaseInsensitive, m_StringArena, m_ContextArena)

Typed ==
    /\ m_bCaseInsensitive \in CaseModes
    /\ m_StringArena \in Seq(Strings) /\ m_ContextArena \in Seq(Nat)
    /\ registered \in Seq(Registrations)
    /\ m_LengthVec \in Vectors(Nat) /\ m_SlowPathList \in Vectors(EntrySet)
    /\ m_HashMap = [buckets |-> m_HashMap.buckets, capacity |-> m_HashMap.capacity]
    /\ m_HashMap.buckets = [h \in DOMAIN m_HashMap.buckets |-> m_HashMap.buckets[h]]
    /\ \A h \in DOMAIN m_HashMap.buckets : m_HashMap.buckets[h] \in Vectors(EntrySet)

Sorted(data) == \A i, j \in 1 .. Len(data) : i < j => data[i] < data[j]

SlowIndexed == ListedHere(m_SlowPathList.data) /\ AllSlow(m_SlowPathList.data, registered)

HashIndexed ==
    \A h \in DOMAIN m_HashMap.buckets :
      /\ ListedHere(m_HashMap.buckets[h].data)
      /\ AllHashed(m_HashMap.buckets[h].data, registered, m_bCaseInsensitive, h)

HasId(data, k) == \E i \in 1 .. Len(data) : data[i].Id = k
HasMember(data, n) == \E i \in 1 .. Len(data) : data[i] = n

\* The k-th registered pattern has its entry, and nothing that Search looks
\* at first excludes it.
Reachable(k, pat) ==
    /\ IsSlow(pat) => HasId(m_SlowPathList.data, k)
    /\ ~IsSlow(pat) =>
         /\ HashOf(pat) \in DOMAIN m_HashMap.buckets
         /\ HasId(m_HashMap.buckets[HashOf(pat)].data, k)
         /\ FilterBit(HashOf(pat)) \in m_HashFilter
         /\ HasMember(m_LengthVec.data, Len(Prefix(pat)))
    /\ WildPart(pat) # << >> => m_bWildCardPresent
    /\ m_nGlobalMinMatchLength <=
         Len(Prefix(pat)) + SuffixMinLength(Wildcards(m_bCaseInsensitive, pat))

AllReachable == \A k \in 1 .. Len(registered) : Reachable(k, registered[k].pattern)

Recorded ==
    /\ m_nPatternCount = Len(registered)
    /\ \A k \in 1 .. Len(registered) : registered[k].context <= calls
    /\ \A k, l \in 1 .. Len(registered) :
         k < l => registered[k].context < registered[l].context

EInv ==
    /\ TypeOK /\ Typed /\ Sorted(m_LengthVec.data)
    /\ SlowIndexed /\ HashIndexed /\ AllReachable /\ Recorded

-----------------------------------------------------------------------------
(* What is indexed stays indexed.                                          *)

Extends(s, t) == Len(s) <= Len(t) /\ \A i \in 1 .. Len(s) : t[i] = s[i]

\* Appending to a sequence keeps what it holds.
LEMMA AppendExtends ==
    ASSUME NEW T, NEW s \in Seq(T), NEW x \in T
    PROVE  /\ Append(s, x) \in Seq(T) /\ Extends(s, Append(s, x))
           /\ Len(Append(s, x)) = Len(s) + 1 /\ Append(s, x)[Len(s) + 1] = x
  BY DEF Extends

\* An entry goes on describing its pattern when the arenas grow.
LEMMA DescribesKept ==
    ASSUME NEW e \in EntrySet, NEW r, NEW mode, NEW arena, NEW contexts, NEW arena2, NEW contexts2,
           Describes(e, r, mode, arena, contexts),
           Len(arena) \in Nat, Len(contexts) \in Nat, Len(arena2) \in Nat, Len(contexts2) \in Nat,
           Extends(arena, arena2), Extends(contexts, contexts2)
    PROVE  Describes(e, r, mode, arena2, contexts2)
<1>1. e.buffer \in Nat /\ e.tailBuffer \in Nat /\ e.ContextIndex \in Nat
  BY DEF EntrySet
<1>2. /\ e.buffer \in 0 .. Len(arena) /\ e.tailBuffer \in 0 .. Len(arena)
      /\ e.ContextIndex \in 1 .. Len(contexts) /\ contexts[e.ContextIndex] = r.context
  BY DEF Describes
<1>3. /\ e.buffer \in 0 .. Len(arena2) /\ e.tailBuffer \in 0 .. Len(arena2)
      /\ e.ContextIndex \in 1 .. Len(contexts2) /\ contexts2[e.ContextIndex] = r.context
  BY <1>1, <1>2 DEF Extends
<1>4. /\ e.buffer # 0 => arena2[e.buffer] = arena[e.buffer]
      /\ e.tailBuffer # 0 => arena2[e.tailBuffer] = arena[e.tailBuffer]
  BY <1>1, <1>2 DEF Extends
<1>5. /\ \A i, j : PartOf(arena2, e.buffer, i, j) = PartOf(arena, e.buffer, i, j)
      /\ WholeOf(arena2, e.tailBuffer) = WholeOf(arena, e.tailBuffer)
  BY <1>4, Zenon DEF PartOf, WholeOf
<1> QED BY <1>3, <1>5, Zenon DEF Describes

\* What a list of entries knows is not affected by what is added after it.
Contents(reg, arena, contexts) ==
    reg \in Seq(Registrations) /\ arena \in Seq(Strings) /\ contexts \in Seq(Nat)

Later(reg, arena, contexts, reg2, arena2, contexts2) ==
    /\ Contents(reg, arena, contexts) /\ Contents(reg2, arena2, contexts2)
    /\ Extends(reg, reg2) /\ Extends(arena, arena2) /\ Extends(contexts, contexts2)

\* What is listed stays listed when registrations and buffers are appended.
LEMMA ListedKept ==
    ASSUME NEW data, NEW mode, NEW reg, NEW arena, NEW contexts, NEW reg2, NEW arena2, NEW contexts2,
           Listed(data, reg, mode, arena, contexts),
           Later(reg, arena, contexts, reg2, arena2, contexts2)
    PROVE  /\ Listed(data, reg2, mode, arena2, contexts2)
           /\ \A i \in 1 .. Len(data) : reg2[data[i].Id] = reg[data[i].Id]
<1>1. /\ Len(reg) \in Nat /\ Len(reg2) \in Nat /\ Len(arena) \in Nat /\ Len(arena2) \in Nat
      /\ Len(contexts) \in Nat /\ Len(contexts2) \in Nat
      /\ Extends(reg, reg2) /\ Extends(arena, arena2) /\ Extends(contexts, contexts2)
  BY DEF Contents, Later
<1>2. ASSUME NEW i \in 1 .. Len(data)
      PROVE  /\ Known(data[i], reg2, mode, arena2, contexts2)
             /\ reg2[data[i].Id] = reg[data[i].Id]
  <2>1. PICK e \in EntrySet : e = data[i]
    BY DEF Listed
  <2>2. e.Id \in 1 .. Len(reg) /\ Describes(e, reg[e.Id], mode, arena, contexts)
    BY <2>1 DEF Listed, Known
  <2>3. e.Id \in 1 .. Len(reg2) /\ reg2[e.Id] = reg[e.Id]
    BY <1>1, <2>2 DEF Extends
  <2>4. Describes(e, reg2[e.Id], mode, arena2, contexts2)
    BY <1>1, <2>2, <2>3, DescribesKept
  <2> QED BY <2>1, <2>3, <2>4 DEF Known
<1> QED BY <1>2 DEF Listed

\* Listing one registration more, at the end.
LEMMA ListedAppend ==
    ASSUME NEW data, NEW mode, NEW reg, NEW arena, NEW contexts, NEW e \in EntrySet,
           Listed(data, reg, mode, arena, contexts), Known(e, reg, mode, arena, contexts),
           \A i \in 1 .. Len(data) : data[i].Id < e.Id
    PROVE  Listed(Append(data, e), reg, mode, arena, contexts)
<1>1. data \in Seq(EntrySet)
  BY DEF Listed
<1>2. PICK n \in Nat : n = Len(data)
  BY <1>1
<1>3. PICK d : d = Append(data, e)
  OBVIOUS
<1>4. d \in Seq(EntrySet) /\ Len(d) = n + 1 /\ d[n + 1] = e /\ \A i \in 1 .. n : d[i] = data[i]
  BY <1>1, <1>2, <1>3
<1>5. \A i \in 1 .. n + 1 : i = n + 1 \/ i \in 1 .. n
  OBVIOUS
<1>6. \A i \in 1 .. n : Known(data[i], reg, mode, arena, contexts)
  BY <1>2 DEF Listed
<1>7. \A i, j \in 1 .. n : i < j => data[i].Id < data[j].Id
  BY <1>2 DEF Listed
<1>8. \A i \in 1 .. n + 1 : Known(d[i], reg, mode, arena, contexts)
  BY <1>4, <1>5, <1>6
<1>9. ASSUME NEW i \in 1 .. n + 1, NEW j \in 1 .. n + 1, i < j PROVE d[i].Id < d[j].Id
  <2>1. i \in 1 .. n
    BY <1>9
  <2>2. CASE j = n + 1
    BY <1>2, <1>4, <2>1, <2>2
  <2>3. CASE j \in 1 .. n
    BY <1>4, <1>7, <1>9, <2>1, <2>3
  <2> QED BY <1>5, <2>2, <2>3
<1> QED BY <1>3, <1>4, <1>8, <1>9 DEF Listed

-----------------------------------------------------------------------------
(* The entry AddPattern builds.                                            *)

\* What the parser finds in a pattern of the caller's, once it is folded.
LEMMA PatternFacts ==
    ASSUME NEW pat \in Patterns, NEW mode \in CaseModes
    PROVE  /\ pat \in Strings /\ mode \in BOOLEAN
           /\ Prefix(pat) \in Strings /\ WildPart(pat) \in Strings
           /\ Len(Prefix(pat)) \in Nat /\ Len(WildPart(pat)) \in Nat
           /\ Wildcards(mode, pat) \in Strings
           /\ Len(Wildcards(mode, pat)) = Len(WildPart(pat))
           /\ LastWildcardEnd(Wildcards(mode, pat)) \in 0 .. Len(WildPart(pat))
           /\ SuffixMinLength(Wildcards(mode, pat)) \in Nat
           /\ TailAnchor(Wildcards(mode, pat)) \in Strings
           /\ FirstLiteralChar(Wildcards(mode, pat)) \in Strings
           /\ WildPart(pat) = << >> => /\ LastWildcardEnd(Wildcards(mode, pat)) = 0
                                       /\ TailAnchor(Wildcards(mode, pat)) = << >>
           /\ pat = << >> => Prefix(pat) = << >> /\ WildPart(pat) = << >>
<1>1. pat \in Strings /\ mode \in BOOLEAN
  BY StringsAssumption, ModesAssumption DEF Strings
<1>2. /\ Prefix(pat) \in Strings /\ WildPart(pat) \in Strings
      /\ pat = << >> => Prefix(pat) = << >> /\ WildPart(pat) = << >>
  BY <1>1, Parsed
<1>3. PICK w \in Strings : w = Wildcards(mode, pat) /\ Len(w) = Len(WildPart(pat))
  BY <1>1, <1>2, FoldString DEF Wildcards
<1>4. WildPart(pat) = << >> => w = << >>
  <2>1. WildPart(pat) = << >> => Len(w) = 0
    BY <1>3
  <2> QED BY <2>1 DEF Strings
<1>5. Len(Prefix(pat)) \in Nat /\ Len(WildPart(pat)) \in Nat
  BY <1>2 DEF Strings
<1>6. /\ LastWildcardEnd(w) \in 0 .. Len(w) /\ SuffixMinLength(w) \in Nat
      /\ w = << >> => LastWildcardEnd(w) = 0
      /\ TailAnchor(w) \in Strings /\ FirstLiteralChar(w) \in Strings
      /\ w = << >> => TailAnchor(w) = << >>
  BY Parsed
<1> QED BY <1>1, <1>2, <1>3, <1>4, <1>5, <1>6

\* The buffers written for a pattern, and where they are.
LEMMA WrittenFacts ==
    ASSUME Typed, NEW pat \in Patterns
    PROVE  /\ Written(pat) \in Seq(Strings) /\ Extends(m_StringArena, Written(pat))
           /\ RevertBookmark(Written(pat), Len(m_StringArena)) = m_StringArena
           /\ pat # << >> => /\ Len(m_StringArena) + 1 \in 1 .. Len(Written(pat))
                             /\ Written(pat)[Len(m_StringArena) + 1] = Stable(pat)
           /\ TailOf(pat) # << >> => /\ Len(m_StringArena) + 2 \in 1 .. Len(Written(pat))
                                     /\ Written(pat)[Len(m_StringArena) + 2] = TailOf(pat)
<1>0. m_bCaseInsensitive \in CaseModes /\ m_StringArena \in Seq(Strings)
  BY DEF Typed
<1>1. PICK a \in Nat : a = Len(m_StringArena)
  BY <1>0
<1>2. PICK tail \in Strings : /\ tail = TailOf(pat)
                              /\ WildPart(pat) = << >> => tail = << >>
  BY <1>0, PatternFacts DEF TailOf, WildOf, Folded, Wildcards
<1>3. PICK whole \in Strings : whole = Stable(pat)
  <2>1. Prefix(pat) \in Strings /\ WildPart(pat) \in Strings /\ m_bCaseInsensitive \in BOOLEAN
    BY <1>0, PatternFacts
  <2>2. Prefix(pat) \o WildPart(pat) \in Strings
    BY <2>1, Joined DEF Joins
  <2>3. Stable(pat) \in Strings
    BY <2>1, <2>2, FoldString DEF Stable, Folded
  <2> QED BY <2>3
<1>4. pat = << >> => tail = << >>
  BY <1>0, <1>2, PatternFacts
<1> DEFINE S == IF pat = << >> THEN << >> ELSE << whole >>
           T == IF tail = << >> THEN << >> ELSE << tail >>
<1>5. Written(pat) = (m_StringArena \o S) \o T
  BY <1>2, <1>3, Zenon DEF Written
<1>6. PICK w : w = Written(pat)
  OBVIOUS
<1>7. CASE pat = << >>
  <2>1. w = (m_StringArena \o << >>) \o << >>
    BY <1>4, <1>5, <1>6, <1>7, Zenon
  <2>2. w = m_StringArena
    BY <1>0, <2>1
  <2>3. SubSeq(m_StringArena, 1, Len(m_StringArena)) = m_StringArena
    BY <1>0
  <2> QED BY <1>0, <1>1, <1>2, <1>4, <1>6, <1>7, <2>2, <2>3 DEF Extends, RevertBookmark
<1>8. CASE pat # << >> /\ tail = << >>
  <2>1. w = (m_StringArena \o << whole >>) \o << >>
    BY <1>5, <1>6, <1>8, Zenon
  <2>2. /\ w \in Seq(Strings) /\ Len(w) = a + 1 /\ w[a + 1] = whole
        /\ \A i \in 1 .. a : w[i] = m_StringArena[i]
    BY <1>0, <1>1, <2>1
  <2>3. SubSeq(w, 1, a) = m_StringArena
    BY <1>0, <1>1, <2>2, SeqEqual
  <2> QED BY <1>0, <1>1, <1>2, <1>3, <1>6, <1>8, <2>2, <2>3 DEF Extends, RevertBookmark
<1>9. CASE pat # << >> /\ tail # << >>
  <2>1. w = (m_StringArena \o << whole >>) \o << tail >>
    BY <1>5, <1>6, <1>9, Zenon
  <2>2. /\ w \in Seq(Strings) /\ Len(w) = a + 2 /\ w[a + 1] = whole /\ w[a + 2] = tail
        /\ \A i \in 1 .. a : w[i] = m_StringArena[i]
    BY <1>0, <1>1, <2>1
  <2>3. SubSeq(w, 1, a) = m_StringArena
    BY <1>0, <1>1, <2>2, SeqEqual
  <2> QED BY <1>0, <1>1, <1>2, <1>3, <1>6, <1>9, <2>2, <2>3 DEF Extends, RevertBookmark
<1> QED BY <1>7, <1>8, <1>9

\* The entry describes the pattern it was built for.
LEMMA EntryDescribes ==
    ASSUME Typed, m_nPatternCount \in Nat, NEW pat \in Patterns, NEW scope \in Scopes, NEW payload,
           NEW contexts, contexts \in Seq(Nat), Len(contexts) = Len(m_ContextArena) + 1,
           contexts[Len(contexts)] = payload
    PROVE  /\ Entry(pat, scope) \in EntrySet
           /\ Describes(Entry(pat, scope), [pattern |-> pat, scope |-> scope, context |-> payload],
                        m_bCaseInsensitive, Written(pat), contexts)
<1>0. /\ m_bCaseInsensitive \in CaseModes /\ Len(m_StringArena) \in Nat
      /\ Len(m_ContextArena) \in Nat
  BY DEF Typed
<1>1. PICK mode : mode = m_bCaseInsensitive
  OBVIOUS
<1>2. PICK w : w = Wildcards(mode, pat)
  OBVIOUS
<1>3. /\ WildOf(pat) = w /\ TailOf(pat) = TailAnchor(w)
      /\ Stable(pat) = Fold(mode, Prefix(pat) \o WildPart(pat))
  BY <1>1, <1>2 DEF WildOf, TailOf, Stable, Folded, Wildcards
<1>4. PICK e : e = Entry(pat, scope)
  OBVIOUS
<1>5. PICK p : p = Prefix(pat)
  OBVIOUS
<1>6. /\ e = [buffer |-> e.buffer, prefixLength |-> e.prefixLength, suffixLength |-> e.suffixLength,
              tailBuffer |-> e.tailBuffer, tailLength |-> e.tailLength, Id |-> e.Id,
              ContextIndex |-> e.ContextIndex, MinWildcardMatchLength |-> e.MinWildcardMatchLength,
              Scope |-> e.Scope, FirstLiteral |-> e.FirstLiteral]
      /\ e.buffer = (IF pat = << >> THEN 0 ELSE Len(m_StringArena) + 1)
      /\ e.prefixLength = Len(p) /\ e.suffixLength = LastWildcardEnd(w)
      /\ e.tailBuffer = (IF TailAnchor(w) = << >> THEN 0 ELSE Len(m_StringArena) + 2)
      /\ e.tailLength = Len(TailAnchor(w)) /\ e.Id = m_nPatternCount + 1
      /\ e.ContextIndex = Len(m_ContextArena) + 1
      /\ e.MinWildcardMatchLength = SuffixMinLength(w) /\ e.Scope = scope
      /\ e.FirstLiteral = IF p = << >> THEN FirstLiteralChar(w) ELSE << >>
  BY <1>3, <1>4, <1>5 DEF Entry
<1>7. /\ pat \in Strings /\ mode \in BOOLEAN /\ p \in Strings /\ WildPart(pat) \in Strings
      /\ w \in Strings /\ Len(w) = Len(WildPart(pat)) /\ Len(p) \in Nat
      /\ LastWildcardEnd(w) \in 0 .. Len(WildPart(pat)) /\ SuffixMinLength(w) \in Nat
      /\ TailAnchor(w) \in Strings /\ FirstLiteralChar(w) \in Strings
      /\ WildPart(pat) = << >> => LastWildcardEnd(w) = 0 /\ TailAnchor(w) = << >>
      /\ pat = << >> => p = << >> /\ WildPart(pat) = << >>
  BY <1>0, <1>1, <1>2, <1>5, PatternFacts
<1>8. e \in EntrySet
  <2>1. scope \in WILD_CARD_SCOPE
    BY ModesAssumption
  <2>2. << >> \in Strings
    BY DEF Strings
  <2>3. Len(TailAnchor(w)) \in Nat /\ Len(WildPart(pat)) \in Nat
    BY <1>7 DEF Strings
  <2>4. /\ e.buffer \in Nat /\ e.prefixLength \in Nat /\ e.suffixLength \in Nat /\ e.tailBuffer \in Nat
        /\ e.tailLength \in Nat /\ e.Id \in Nat /\ e.ContextIndex \in Nat
        /\ e.MinWildcardMatchLength \in Nat
    BY <1>0, <1>6, <1>7, <2>3
  <2>5. e.Scope \in WILD_CARD_SCOPE /\ e.FirstLiteral \in Strings
    BY <1>6, <1>7, <2>1, <2>2
  <2> QED BY <1>6, <2>4, <2>5 DEF EntrySet
<1>9. PICK arena : arena = Written(pat)
  OBVIOUS
<1>10. /\ arena \in Seq(Strings)
       /\ pat # << >> => /\ Len(m_StringArena) + 1 \in 1 .. Len(arena)
                         /\ arena[Len(m_StringArena) + 1] = Fold(mode, p \o WildPart(pat))
       /\ TailAnchor(w) # << >> => /\ Len(m_StringArena) + 2 \in 1 .. Len(arena)
                                   /\ arena[Len(m_StringArena) + 2] = TailAnchor(w)
  BY <1>3, <1>5, <1>9, WrittenFacts
<1>11. e.buffer \in 0 .. Len(arena) /\ e.tailBuffer \in 0 .. Len(arena)
  BY <1>6, <1>10
<1>12. e.ContextIndex \in 1 .. Len(contexts) /\ contexts[e.ContextIndex] = payload
  BY <1>0, <1>6
<1>13. WholeOf(arena, e.tailBuffer) = TailAnchor(w)
  BY <1>0, <1>6, <1>10 DEF WholeOf
<1>14. /\ PartOf(arena, e.buffer, 1, e.prefixLength) = Fold(mode, p)
       /\ PartOf(arena, e.buffer, e.prefixLength + 1, e.prefixLength + e.suffixLength)
            = SubSeq(w, 1, e.suffixLength)
  <2>1. CASE pat = << >>
    <3>1. p = << >> /\ w = << >> /\ e.suffixLength = 0
      <4>1. Len(w) = 0
        BY <1>7, <2>1
      <4> QED BY <1>6, <1>7, <2>1, <4>1 DEF Strings
    <3>2. Fold(mode, p) = << >>
      <4>1. Fold(mode, p) \in Strings /\ Len(Fold(mode, p)) = Len(p)
        BY <1>7, FoldString
      <4> QED BY <3>1, <4>1 DEF Strings
    <3>3. SubSeq(w, 1, 0) = << >>
      BY <3>1
    <3> QED BY <1>6, <2>1, <3>1, <3>2, <3>3 DEF PartOf
  <2>2. CASE pat # << >>
    <3>1. e.buffer # 0 /\ arena[e.buffer] = Fold(mode, p \o WildPart(pat))
      BY <1>0, <1>6, <1>10, <2>2
    <3>2. SubSeq(Fold(mode, p \o WildPart(pat)), 1, Len(p)) = Fold(mode, p)
      BY <1>7, FoldJoined
    <3>3. SubSeq(Fold(mode, p \o WildPart(pat)), Len(p) + 1, Len(p) + e.suffixLength)
            = SubSeq(w, 1, e.suffixLength)
      <4>1. \A k \in 0 .. Len(WildPart(pat)) :
              SubSeq(Fold(mode, p \o WildPart(pat)), Len(p) + 1, Len(p) + k)
                = SubSeq(Fold(mode, WildPart(pat)), 1, k)
        BY <1>7, FoldJoined
      <4>2. e.suffixLength \in 0 .. Len(WildPart(pat)) /\ w = Fold(mode, WildPart(pat))
        BY <1>2, <1>6, <1>7 DEF Wildcards
      <4> QED BY <4>1, <4>2
    <3> QED BY <1>6, <3>1, <3>2, <3>3 DEF PartOf
  <2> QED BY <2>1, <2>2
<1>15. Describes(e, [pattern |-> pat, scope |-> scope, context |-> payload], mode, arena, contexts)
  BY <1>2, <1>5, <1>6, <1>11, <1>12, <1>13, <1>14 DEF Describes
<1> QED BY <1>1, <1>4, <1>8, <1>9, <1>15

-----------------------------------------------------------------------------
(* The containers of the index.                                            *)

\* A vector that has to grow gets room for at least one more element.
LEMMA GrownFacts ==
    ASSUME NEW T, NEW v \in Vectors(T)
    PROVE  /\ Grown(v) \in Nat
           /\ Len(v.data) <= v.capacity => Len(v.data) + 1 <= Grown(v)
<1>1. v.data \in Seq(T)
  BY DEF Vectors
<1>2. PICK n \in Nat, c \in Nat : n = Len(v.data) /\ c = v.capacity
  BY <1>1 DEF Vectors
<1>3. c \div 2 \in Nat /\ (c >= 1024 => c \div 2 >= 1)
  OBVIOUS
<1>4. ComputeNextCapacity(c) \in Nat /\ ComputeNextCapacity(c) >= c + 1
  BY <1>3 DEF ComputeNextCapacity
<1> QED BY <1>2, <1>4 DEF Grown, IsFull

\* PushBack appends, within the capacity.
LEMMA PushBackFacts ==
    ASSUME NEW T, NEW v \in Vectors(T), NEW x \in T
    PROVE  /\ PushBack(v, x) \in Vectors(T) /\ PushBack(v, x).data = Append(v.data, x)
           /\ Len(v.data) <= v.capacity => Len(PushBack(v, x).data) <= PushBack(v, x).capacity
<1>1. v.data \in Seq(T)
  BY DEF Vectors
<1>2. PushBack(v, x).data = Append(v.data, x) /\ PushBack(v, x).capacity = Grown(v)
  BY DEF PushBack
<1>3. Append(v.data, x) \in Seq(T) /\ Len(Append(v.data, x)) = Len(v.data) + 1
  BY <1>1
<1>4. Grown(v) \in Nat /\ (Len(v.data) <= v.capacity => Len(v.data) + 1 <= Grown(v))
  BY GrownFacts
<1>5. PushBack(v, x) \in Vectors(T)
  BY <1>3, <1>4 DEF PushBack, Vectors
<1> QED BY <1>2, <1>3, <1>4, <1>5

\* Inserting before the first larger element keeps a sequence sorted.
LEMMA InsertSorted ==
    ASSUME NEW v \in Seq(Nat), Sorted(v), NEW n \in Nat, NEW p \in 1 .. Len(v) + 1,
           \A i \in 1 .. p - 1 : v[i] < n, p <= Len(v) => n < v[p]
    PROVE  /\ InsertAt(v, p, n) \in Seq(Nat) /\ Sorted(InsertAt(v, p, n))
           /\ Len(InsertAt(v, p, n)) = Len(v) + 1
           /\ HasMember(InsertAt(v, p, n), n)
           /\ \A k : HasMember(v, k) => HasMember(InsertAt(v, p, n), k)
<1>1. PICK l \in Nat : l = Len(v)
  OBVIOUS
<1>p. p \in Nat /\ 1 <= p /\ p <= l + 1
  BY <1>1
<1>a1. PICK a : a = SubSeq(v, 1, p - 1)
  OBVIOUS
<1>a. a \in Seq(Nat) /\ Len(a) = p - 1 /\ \A i \in 1 .. p - 1 : a[i] = v[i]
  <2>1. 1 \in 1 .. Len(v) + 1 /\ p - 1 \in 1 - 1 .. Len(v) /\ ((p - 1) - 1) + 1 = p - 1
    BY <1>1, <1>p
  <2>2. /\ SubSeq(v, 1, p - 1) \in Seq(Nat) /\ Len(SubSeq(v, 1, p - 1)) = p - 1
        /\ \A i \in 1 .. p - 1 : SubSeq(v, 1, p - 1)[i] = v[(1 + i) - 1]
    BY <2>1, PartFacts
  <2>3. \A i \in 1 .. p - 1 : (1 + i) - 1 = i
    BY <1>p
  <2> QED BY <1>a1, <2>2, <2>3
<1>b1. PICK b : b = SubSeq(v, p, l)
  OBVIOUS
<1>b. /\ b \in Seq(Nat) /\ Len(b) = (l - p) + 1
      /\ \A i \in 1 .. (l - p) + 1 : b[i] = v[(p + i) - 1]
  <2>1. p \in 1 .. Len(v) + 1 /\ l \in p - 1 .. Len(v)
    BY <1>1, <1>p
  <2>2. /\ SubSeq(v, p, l) \in Seq(Nat) /\ Len(SubSeq(v, p, l)) = (l - p) + 1
        /\ \A i \in 1 .. (l - p) + 1 : SubSeq(v, p, l)[i] = v[(p + i) - 1]
    BY <2>1, PartFacts
  <2> QED BY <1>b1, <2>2
<1>n1. PICK o : o = << n >>
  OBVIOUS
<1>n. o \in Seq(Nat) /\ Len(o) = 1 /\ o[1] = n
  BY <1>n1
<1>c1. PICK c : c = a \o o
  OBVIOUS
<1>c. /\ c \in Seq(Nat) /\ Len(c) = p
      /\ \A i \in 1 .. p - 1 : c[i] = v[i]
      /\ c[p] = n
  <2>2. /\ a \o o \in Seq(Nat) /\ Len(a \o o) = Len(a) + Len(o)
        /\ \A i \in 1 .. Len(a) : (a \o o)[i] = a[i]
        /\ \A i \in 1 .. Len(o) : (a \o o)[Len(a) + i] = o[i]
    <3>1. a \in Seq(Nat) /\ o \in Seq(Nat)
      BY <1>a, <1>n
    <3> QED BY <3>1, JoinFacts
  <2>3. (a \o o)[Len(a) + 1] = n /\ Len(a) + Len(o) = p /\ Len(a) + 1 = p
    BY <1>n, <1>a, <1>p, <2>2
  <2> QED BY <1>c1, <1>a, <2>2, <2>3
<1>w1. PICK w : w = c \o b
  OBVIOUS
<1>w. /\ w \in Seq(Nat) /\ Len(w) = l + 1
      /\ \A i \in 1 .. p : w[i] = c[i]
      /\ \A i \in 1 .. (l - p) + 1 : w[p + i] = b[i]
  <2>1. /\ c \o b \in Seq(Nat) /\ Len(c \o b) = Len(c) + Len(b)
        /\ \A i \in 1 .. Len(c) : (c \o b)[i] = c[i]
        /\ \A i \in 1 .. Len(b) : (c \o b)[Len(c) + i] = b[i]
    <3>1. b \in Seq(Nat) /\ c \in Seq(Nat)
      BY <1>b, <1>c
    <3> QED BY <3>1, JoinFacts
  <2>2. Len(c) + Len(b) = l + 1
    BY <1>b, <1>c, <1>p
  <2> QED BY <1>w1, <1>b, <1>c, <2>1, <2>2
<1>2. w = InsertAt(v, p, n)
  BY <1>1, <1>a1, <1>b1, <1>n1, <1>c1, <1>w1 DEF InsertAt
<1>5. w[p] = n
  BY <1>p, <1>c, <1>w
<1>6. \A i \in 1 .. p - 1 : w[i] = v[i]
  BY <1>p, <1>c, <1>w
<1>7. \A i \in p .. l : w[i + 1] = v[i]
  <2>1. ASSUME NEW i \in p .. l PROVE w[i + 1] = v[i]
    <3>1. PICK k \in 1 .. (l - p) + 1 : k = (i - p) + 1
      BY <1>p
    <3>2. p + k = i + 1 /\ (p + k) - 1 = i
      BY <1>p, <3>1
    <3> QED BY <1>b, <1>w, <3>2
  <2> QED BY <2>1
<1>8. \A i \in p .. l : n < v[i]
  <2>1. ASSUME NEW i \in p .. l PROVE n < v[i]
    <3>1. p \in 1 .. l /\ i \in 1 .. l /\ n < v[p]
      BY <1>1, <1>p
    <3>2. v[p] \in Nat /\ v[i] \in Nat
      BY <1>1, <3>1
    <3>3. p < i => v[p] < v[i]
      BY <1>1, <3>1 DEF Sorted
    <3> QED BY <3>1, <3>2, <3>3
  <2> QED BY <2>1
<1>v. \A i, j \in 1 .. l : i < j => v[i] < v[j]
  BY <1>1 DEF Sorted
<1>t. \A i \in 1 .. l : v[i] \in Nat
  BY <1>1
<1>9. ASSUME NEW i \in 1 .. l + 1, NEW j \in 1 .. l + 1, i < j PROVE w[i] < w[j]
  <2>1. CASE j < p
    <3>1. i \in 1 .. p - 1 /\ j \in 1 .. p - 1 /\ i \in 1 .. l /\ j \in 1 .. l
      BY <1>p, <1>9, <2>1
    <3> QED BY <1>6, <1>v, <1>9, <3>1
  <2>2. CASE j = p
    <3>1. i \in 1 .. p - 1
      BY <1>p, <1>9, <2>2
    <3> QED BY <1>5, <1>6, <2>2, <3>1
  <2>3. CASE j > p
    <3>1. PICK k \in p .. l : j = k + 1
      BY <1>p, <2>3
    <3>2. w[j] = v[k]
      BY <1>7, <3>1
    <3>3. CASE i = p
      BY <1>5, <1>8, <3>2, <3>3
    <3>4. CASE i < p
      <4>1. i \in 1 .. p - 1 /\ i \in 1 .. l /\ k \in 1 .. l /\ i < k
        BY <1>p, <3>4
      <4> QED BY <1>6, <1>v, <3>2, <4>1
    <3>5. CASE i > p
      <4>1. PICK m \in p .. l : i = m + 1
        BY <1>p, <1>9, <3>5
      <4>2. m < k /\ m \in 1 .. l /\ k \in 1 .. l
        BY <1>p, <1>9, <3>1, <4>1
      <4> QED BY <1>7, <1>v, <3>2, <4>1, <4>2
    <3> QED BY <1>p, <3>3, <3>4, <3>5
  <2> QED BY <1>p, <2>1, <2>2, <2>3
<1>10. HasMember(w, n)
  <2>1. p \in 1 .. Len(w)
    BY <1>p, <1>w
  <2> QED BY <1>5, <2>1 DEF HasMember
<1>11. ASSUME NEW k, HasMember(v, k) PROVE HasMember(w, k)
  <2>1. PICK i \in 1 .. l : v[i] = k
    BY <1>1, <1>11 DEF HasMember
  <2>2. CASE i < p
    <3>1. i \in 1 .. Len(w) /\ i \in 1 .. p - 1
      BY <1>p, <1>w, <2>2
    <3>2. w[i] = k
      BY <1>6, <2>1, <3>1
    <3> QED BY <3>1, <3>2 DEF HasMember
  <2>3. CASE i >= p
    <3>1. i + 1 \in 1 .. Len(w) /\ i \in p .. l
      BY <1>p, <1>w, <2>3
    <3>2. w[i + 1] = k
      BY <1>7, <2>1, <3>1
    <3> QED BY <3>1, <3>2 DEF HasMember
  <2> QED BY <1>p, <2>2, <2>3
<1>12. Sorted(w)
  BY <1>w, <1>9 DEF Sorted
<1> QED BY <1>1, <1>2, <1>w, <1>10, <1>11, <1>12

\* The length vector stays sorted and gains the length.
LEMMA WithLengthFacts ==
    ASSUME Typed, Sorted(m_LengthVec.data), Len(m_LengthVec.data) <= m_LengthVec.capacity,
           NEW n \in Nat
    PROVE  /\ WithLength(n) \in Vectors(Nat) /\ Sorted(WithLength(n).data)
           /\ Len(WithLength(n).data) <= WithLength(n).capacity
           /\ HasMember(WithLength(n).data, n)
           /\ \A k : HasMember(m_LengthVec.data, k) => HasMember(WithLength(n).data, k)
<1>0. m_LengthVec \in Vectors(Nat)
  BY DEF Typed
<1>1. PICK v \in Seq(Nat) : v = m_LengthVec.data
  BY <1>0 DEF Vectors
<1>2. PICK l \in Nat : l = Len(v)
  OBVIOUS
<1> DEFINE P == {i \in 1 .. l + 1 : i = l + 1 \/ v[i] >= n}
<1>3. PICK p : p = Min(P)
  OBVIOUS
<1>4. LengthPos(n) = p
  BY <1>1, <1>2, <1>3, Zenon DEF LengthPos
<1>5. p \in P /\ \A i \in P : p <= i
  <2>1. P \subseteq Nat /\ l + 1 \in P
    OBVIOUS
  <2> HIDE DEF P
  <2> QED BY <1>3, <2>1, MinFacts
<1>6. p \in 1 .. l + 1 /\ \A i \in 1 .. p - 1 : v[i] < n
  BY <1>2, <1>5
<1>7. HasLength(n) <=> p <= l /\ v[p] = n
  BY <1>1, <1>2, <1>4 DEF HasLength
<1>8. CASE HasLength(n)
  <2>1. HasMember(v, n)
    BY <1>2, <1>6, <1>7, <1>8 DEF HasMember
  <2> QED BY <1>0, <1>1, <1>8, <2>1 DEF WithLength
<1>9. CASE ~HasLength(n)
  <2>1. p <= l => n < v[p]
    BY <1>2, <1>5, <1>6, <1>7, <1>9
  <2>2. PICK u : u = InsertAt(v, p, n)
    OBVIOUS
  <2>3. /\ u \in Seq(Nat) /\ Sorted(u) /\ Len(u) = Len(v) + 1 /\ HasMember(u, n)
        /\ \A k : HasMember(v, k) => HasMember(u, k)
    BY <1>1, <1>2, <1>6, <2>1, <2>2, InsertSorted
  <2>4. WithLength(n) = [data |-> u, capacity |-> Grown(m_LengthVec)]
    BY <1>1, <1>4, <1>9, <2>2, Zenon DEF WithLength
  <2>5. Grown(m_LengthVec) \in Nat /\ Len(v) + 1 <= Grown(m_LengthVec)
    BY <1>0, <1>1, GrownFacts
  <2>6. WithLength(n) \in Vectors(Nat) /\ WithLength(n).data = u
        /\ WithLength(n).capacity = Grown(m_LengthVec)
    BY <2>3, <2>4, <2>5 DEF Vectors
  <2> QED BY <1>1, <2>3, <2>5, <2>6
<1> QED BY <1>8, <1>9

\* The hash map keeps its buckets; a new one is empty.
LEMMA GetOrInsertFacts ==
    ASSUME Typed, NEW h
    PROVE  /\ GetOrInsert(h) = [buckets |-> GetOrInsert(h).buckets, capacity |-> GetOrInsert(h).capacity]
           /\ GetOrInsert(h).buckets = [k \in DOMAIN GetOrInsert(h).buckets |-> GetOrInsert(h).buckets[k]]
           /\ DOMAIN GetOrInsert(h).buckets = DOMAIN m_HashMap.buckets \cup {h}
           /\ \A k \in DOMAIN GetOrInsert(h).buckets :
                /\ GetOrInsert(h).buckets[k] \in Vectors(EntrySet)
                /\ HasKey(k) => GetOrInsert(h).buckets[k] = m_HashMap.buckets[k]
                /\ ~HasKey(k) => GetOrInsert(h).buckets[k].data = << >>
<1>1. PICK B : B = m_HashMap.buckets
  OBVIOUS
<1>2. /\ B = [k \in DOMAIN B |-> B[k]]
      /\ \A k \in DOMAIN B : B[k] \in Vectors(EntrySet)
      /\ m_HashMap = [buckets |-> B, capacity |-> m_HashMap.capacity]
  BY <1>1 DEF Typed
<1>3. EmptyVector \in Vectors(EntrySet) /\ EmptyVector.data = << >>
  <2>1. SvoCapacity \in Nat
    BY SizeAssumption
  <2> QED BY <2>1 DEF EmptyVector, Vectors
<1>4. CASE HasKey(h)
  BY <1>1, <1>2, <1>4 DEF GetOrInsert, HasKey
<1>5. CASE ~HasKey(h)
  <2>1. PICK N : N = [k \in DOMAIN B \cup {h} |-> IF k \in DOMAIN B THEN B[k] ELSE EmptyVector]
    OBVIOUS
  <2>2. \E c : GetOrInsert(h) = [buckets |-> N, capacity |-> c]
    BY <1>1, <1>5, <2>1, Zenon DEF GetOrInsert, HasKey
  <2>3. PICK c : GetOrInsert(h) = [buckets |-> N, capacity |-> c]
    BY <2>2
  <2> QED BY <1>1, <1>2, <1>3, <2>1, <2>3 DEF HasKey
<1> QED BY <1>4, <1>5

-----------------------------------------------------------------------------
(* What every call but Clear leaves in place.                              *)

Grows ==
    /\ m_bCaseInsensitive' = m_bCaseInsensitive
    /\ Extends(registered, registered') /\ Extends(m_StringArena, m_StringArena')
    /\ Extends(m_ContextArena, m_ContextArena')
    /\ Extends(m_SlowPathList.data, m_SlowPathList'.data)
    /\ \A h \in DOMAIN m_HashMap.buckets :
         /\ h \in DOMAIN m_HashMap'.buckets
         /\ Extends(m_HashMap.buckets[h].data, m_HashMap'.buckets[h].data)
    /\ m_HashFilter \subseteq m_HashFilter'
    /\ \A n : HasMember(m_LengthVec.data, n) => HasMember(m_LengthVec'.data, n)
    /\ m_bWildCardPresent => m_bWildCardPresent'
    /\ m_nGlobalMinMatchLength' <= m_nGlobalMinMatchLength

\* An entry found in a list is found in the longer list.
LEMMA HasIdKept ==
    ASSUME NEW data \in Seq(EntrySet), NEW data2 \in Seq(EntrySet), Extends(data, data2),
           NEW k, HasId(data, k)
    PROVE  HasId(data2, k)
  BY DEF Extends, HasId

\* A larger filter and more lengths still admit what they admitted.
LEMMA ReachableKept ==
    ASSUME EInv, Typed', m_nGlobalMinMatchLength' \in Nat, Grows,
           NEW k \in 1 .. Len(registered)
    PROVE  Reachable(k, registered[k].pattern)'
<1>1. PICK pat : pat = registered[k].pattern
  OBVIOUS
<1>2. registered'[k].pattern = pat /\ pat \in Patterns
  <2>1. registered \in Seq(Registrations)
    BY DEF EInv, Typed
  <2>2. registered[k] \in Registrations
    BY <2>1
  <2> QED BY <1>1, <2>2 DEF Grows, Extends, Registrations
<1>3. Reachable(k, pat)
  BY <1>1 DEF EInv, AllReachable
<1>4. PICK h : h = HashOf(pat)
  OBVIOUS
<1>5. HashOf(pat)' = h /\ FilterBit(h)' = FilterBit(h)
  BY <1>4 DEF Grows, HashOf, Folded, FilterBit
<1>6. IsSlow(pat) => HasId(m_SlowPathList'.data, k)
  <2>1. m_SlowPathList.data \in Seq(EntrySet) /\ m_SlowPathList'.data \in Seq(EntrySet)
    BY DEF EInv, Typed, Vectors
  <2>2. Extends(m_SlowPathList.data, m_SlowPathList'.data)
    BY DEF Grows
  <2>3. IsSlow(pat) => HasId(m_SlowPathList.data, k)
    BY <1>3 DEF Reachable
  <2> QED BY <2>1, <2>2, <2>3, HasIdKept
<1>7. ASSUME ~IsSlow(pat)
      PROVE  /\ h \in DOMAIN m_HashMap'.buckets /\ HasId(m_HashMap'.buckets[h].data, k)
             /\ FilterBit(h) \in m_HashFilter'
             /\ HasMember(m_LengthVec'.data, Len(Prefix(pat)))
  <2>1. /\ h \in DOMAIN m_HashMap.buckets /\ HasId(m_HashMap.buckets[h].data, k)
        /\ FilterBit(h) \in m_HashFilter /\ HasMember(m_LengthVec.data, Len(Prefix(pat)))
    BY <1>3, <1>4, <1>7 DEF Reachable
  <2>2. /\ h \in DOMAIN m_HashMap'.buckets
        /\ Extends(m_HashMap.buckets[h].data, m_HashMap'.buckets[h].data)
        /\ FilterBit(h) \in m_HashFilter'
        /\ HasMember(m_LengthVec'.data, Len(Prefix(pat)))
    BY <2>1 DEF Grows
  <2>3. m_HashMap.buckets[h].data \in Seq(EntrySet) /\ m_HashMap'.buckets[h].data \in Seq(EntrySet)
    BY <2>1, <2>2 DEF EInv, Typed, Vectors
  <2> QED BY <2>1, <2>2, <2>3, HasIdKept
<1>8. WildPart(pat) # << >> => m_bWildCardPresent'
  BY <1>3 DEF Reachable, Grows
<1>9. m_nGlobalMinMatchLength' <=
        Len(Prefix(pat)) + SuffixMinLength(Wildcards(m_bCaseInsensitive, pat))
  <2>1. /\ Len(Prefix(pat)) \in Nat
        /\ SuffixMinLength(Wildcards(m_bCaseInsensitive, pat)) \in Nat
    BY <1>2, PatternFacts DEF EInv, Typed
  <2>2. m_nGlobalMinMatchLength \in Nat /\ m_nGlobalMinMatchLength' <= m_nGlobalMinMatchLength
    BY DEF EInv, TypeOK, Grows
  <2>3. m_nGlobalMinMatchLength <=
          Len(Prefix(pat)) + SuffixMinLength(Wildcards(m_bCaseInsensitive, pat))
    BY <1>3 DEF Reachable
  <2> QED BY <2>1, <2>2, <2>3
<1>10. m_bCaseInsensitive' = m_bCaseInsensitive
  BY DEF Grows
<1>11. Reachable(k, pat)'
  BY <1>5, <1>6, <1>7, <1>8, <1>9, <1>10 DEF Reachable
<1>12. registered[k].pattern' = pat
  BY <1>2
<1> QED BY <1>11, <1>12, Zenon

\* What was listed is still listed, for the arenas as they are now.
ListedNow(data) == Listed(data, registered', m_bCaseInsensitive, m_StringArena', m_ContextArena')

\* An index whose lists stay describes the registrations it described.
LEMMA ListsKept ==
    ASSUME EInv, Typed', Grows
    PROVE  /\ ListedNow(m_SlowPathList.data) /\ AllSlow(m_SlowPathList.data, registered')
           /\ \A h \in DOMAIN m_HashMap.buckets :
                /\ ListedNow(m_HashMap.buckets[h].data)
                /\ AllHashed(m_HashMap.buckets[h].data, registered', m_bCaseInsensitive, h)
<1>1. /\ Contents(registered, m_StringArena, m_ContextArena)
      /\ Contents(registered', m_StringArena', m_ContextArena')
      /\ Extends(registered, registered') /\ Extends(m_StringArena, m_StringArena')
      /\ Extends(m_ContextArena, m_ContextArena')
  BY DEF EInv, Typed, Contents, Grows
<1>2. ASSUME NEW data, ListedHere(data)
      PROVE  /\ ListedNow(data)
             /\ \A i \in 1 .. Len(data) : registered'[data[i].Id] = registered[data[i].Id]
  <2>1. PICK mode, reg, arena, contexts, reg2, arena2, contexts2 :
          /\ mode = m_bCaseInsensitive /\ reg = registered /\ reg2 = registered'
          /\ arena = m_StringArena /\ arena2 = m_StringArena'
          /\ contexts = m_ContextArena /\ contexts2 = m_ContextArena'
    OBVIOUS
  <2>2. Listed(data, reg, mode, arena, contexts)
    BY <1>2, <2>1 DEF ListedHere
  <2>3. Later(reg, arena, contexts, reg2, arena2, contexts2)
    BY <1>1, <2>1 DEF Later
  <2>4. /\ Listed(data, reg2, mode, arena2, contexts2)
        /\ \A i \in 1 .. Len(data) : reg2[data[i].Id] = reg[data[i].Id]
    BY <2>2, <2>3, ListedKept
  <2> QED BY <2>1, <2>4 DEF ListedNow
<1>3. ListedNow(m_SlowPathList.data) /\ AllSlow(m_SlowPathList.data, registered')
  BY <1>2 DEF EInv, SlowIndexed, AllSlow
<1>4. ASSUME NEW h \in DOMAIN m_HashMap.buckets
      PROVE  /\ ListedNow(m_HashMap.buckets[h].data)
             /\ AllHashed(m_HashMap.buckets[h].data, registered', m_bCaseInsensitive, h)
  BY <1>2 DEF EInv, HashIndexed, AllHashed
<1> QED BY <1>3, <1>4

\* A call that leaves the index as it was.
LEMMA IndexSame ==
    ASSUME EInv, UNCHANGED << m_bCaseInsensitive, index, registered >>,
           calls' \in 0 .. MaxCalls, calls <= calls'
    PROVE  EInv'
<1>1. /\ UNCHANGED << m_bCaseInsensitive, registered, m_nPatternCount, m_nGlobalMinMatchLength >>
      /\ UNCHANGED << m_bWildCardPresent, m_HashFilter, m_LengthVec, m_SlowPathList, m_HashMap >>
      /\ UNCHANGED << m_StringArena, m_ContextArena >>
  BY DEF index
<1>2. TypeOK'
  BY <1>1 DEF EInv, TypeOK
<1>3. Typed' /\ Sorted(m_LengthVec.data)'
  BY <1>1 DEF EInv, Typed, Sorted
<1>4. SlowIndexed'
  BY <1>1 DEF EInv, SlowIndexed, ListedHere, AllSlow
<1>5. HashIndexed'
  BY <1>1 DEF EInv, HashIndexed, ListedHere
<1>6. AllReachable'
  BY <1>1 DEF EInv, AllReachable, Reachable, HashOf, Folded, FilterBit, HasId, HasMember
<1>7. Recorded'
  <2>1. \A k \in 1 .. Len(registered) : registered[k].context \in Nat
    <3>1. registered \in Seq(Registrations)
      BY DEF EInv, Typed
    <3>2. \A k \in 1 .. Len(registered) : registered[k] \in Registrations
      BY <3>1
    <3> QED BY <3>2 DEF Registrations
  <2>2. calls \in Nat /\ calls' \in Nat
    BY SizeAssumption DEF EInv, TypeOK
  <2> QED BY <1>1, <2>1, <2>2 DEF EInv, Recorded
<1> QED BY <1>2, <1>3, <1>4, <1>5, <1>6, <1>7 DEF EInv

-----------------------------------------------------------------------------
(* AddPattern, call by call.                                               *)

LEMMA Limits ==
    /\ kMaxPatterns \in Nat /\ MaxCalls \in Nat /\ FilterBits \in Nat \ {0}
    /\ \A h \in Nat : FilterBit(h) \in 0 .. FilterBits - 1
<1>1. MaxBlocks \in Nat /\ BlockCapacity \in Nat /\ MaxCalls \in Nat /\ FilterBits \in Nat \ {0}
  BY SizeAssumption
<1>2. kMaxPatterns \in Nat
  BY <1>1 DEF kMaxPatterns
<1>3. \A h \in Nat : FilterBit(h) \in 0 .. FilterBits - 1
  BY <1>1 DEF FilterBit
<1> QED BY <1>1, <1>2, <1>3

\* A list without entries describes nothing.
LEMMA EmptyListed ==
    ASSUME NEW reg, NEW mode, NEW arena, NEW contexts
    PROVE  /\ Listed(<< >>, reg, mode, arena, contexts) /\ AllSlow(<< >>, reg)
           /\ \A h : AllHashed(<< >>, reg, mode, h)
  BY DEF Listed, AllSlow, AllHashed

\* A failure before the context is stored is rolled back completely.
LEMMA AddFailsEarlyKeeps ==
    ASSUME EInv, AddAccepted, NEW pat \in Patterns, AddFailsEarly(pat)
    PROVE  EInv'
<1>1. m_StringArena' = m_StringArena
  BY WrittenFacts DEF EInv, AddFailsEarly
<1>2. calls' = calls + 1 /\ UNCHANGED m_bCaseInsensitive
  BY DEF AddFailsEarly, AddReturns
<1>3. calls' \in 0 .. MaxCalls /\ calls <= calls'
  BY <1>2, Limits DEF EInv, TypeOK, AddAccepted, CanAdd
<1>4. UNCHANGED << m_bCaseInsensitive, index, registered >>
  BY <1>1, <1>2 DEF AddFailsEarly, index
<1> QED BY <1>3, <1>4, IndexSame

\* A failure after the context is stored leaves an orphan behind, and maybe a
\* length and an empty bucket, which exclude and add nothing.
LEMMA AddFailsLateKeeps ==
    ASSUME EInv, AddAccepted, NEW pat \in Patterns, AddFailsLate(pat)
    PROVE  EInv'
<1>t. Typed /\ Sorted(m_LengthVec.data) /\ Len(m_LengthVec.data) <= m_LengthVec.capacity
  BY DEF EInv, TypeOK
<1>1. m_StringArena' = m_StringArena /\ m_StringArena \in Seq(Strings)
  BY <1>t, WrittenFacts DEF AddFailsLate, Typed
<1>2. /\ calls' = calls + 1 /\ m_bCaseInsensitive' = m_bCaseInsensitive
      /\ registered' = registered /\ m_nPatternCount' = m_nPatternCount
      /\ m_nGlobalMinMatchLength' = m_nGlobalMinMatchLength
      /\ m_bWildCardPresent' = m_bWildCardPresent /\ m_HashFilter' = m_HashFilter
      /\ m_SlowPathList' = m_SlowPathList
      /\ m_ContextArena' = Append(m_ContextArena, calls + 1)
  BY DEF AddFailsLate, AddReturns, Payload
<1>3. calls \in Nat /\ calls' \in 0 .. MaxCalls /\ calls <= calls'
  BY <1>2, Limits DEF EInv, TypeOK, AddAccepted, CanAdd
<1>4. /\ m_ContextArena \in Seq(Nat) /\ m_ContextArena' \in Seq(Nat)
      /\ Extends(m_ContextArena, m_ContextArena')
      /\ Len(m_ContextArena') = Len(m_ContextArena) + 1
  <2>1. m_ContextArena \in Seq(Nat) /\ calls + 1 \in Nat
    BY <1>t, <1>3 DEF Typed
  <2> QED BY <1>2, <2>1, AppendExtends
<1>5. Len(m_ContextArena') <= kMaxPatterns
  <2>1. Len(m_ContextArena) \in Nat
    BY <1>4
  <2> QED BY <1>4, <2>1, Limits DEF AddFailsLate, ContextsFull
<1>6h. PICK h : h = HashOf(pat)
  OBVIOUS
<1>6. PICK n \in Nat : n = Len(Prefix(pat))
  BY <1>t, PatternFacts DEF Typed
<1>7. /\ m_LengthVec' = m_LengthVec \/ m_LengthVec' = WithLength(n)
      /\ m_HashMap' = m_HashMap \/ m_HashMap' = GetOrInsert(h)
  BY <1>6, <1>6h DEF AddFailsLate
<1>8. /\ m_LengthVec' \in Vectors(Nat) /\ Sorted(m_LengthVec'.data)
      /\ Len(m_LengthVec'.data) <= m_LengthVec'.capacity
      /\ \A k : HasMember(m_LengthVec.data, k) => HasMember(m_LengthVec'.data, k)
  <2>1. CASE m_LengthVec' = m_LengthVec
    BY <1>t, <2>1 DEF Typed
  <2>2. CASE m_LengthVec' = WithLength(n)
    BY <1>t, <2>2, WithLengthFacts
  <2> QED BY <1>7, <2>1, <2>2
<1>9. /\ m_HashMap' = [buckets |-> m_HashMap'.buckets, capacity |-> m_HashMap'.capacity]
      /\ m_HashMap'.buckets = [k \in DOMAIN m_HashMap'.buckets |-> m_HashMap'.buckets[k]]
      /\ DOMAIN m_HashMap.buckets \subseteq DOMAIN m_HashMap'.buckets
      /\ \A k \in DOMAIN m_HashMap'.buckets :
           /\ m_HashMap'.buckets[k] \in Vectors(EntrySet)
           /\ k \in DOMAIN m_HashMap.buckets => m_HashMap'.buckets[k] = m_HashMap.buckets[k]
           /\ k \notin DOMAIN m_HashMap.buckets => m_HashMap'.buckets[k].data = << >>
  <2>1. CASE m_HashMap' = m_HashMap
    BY <1>t, <2>1 DEF Typed
  <2>2. CASE m_HashMap' = GetOrInsert(h)
    BY <1>t, <2>2, GetOrInsertFacts DEF HasKey
  <2> QED BY <1>7, <2>1, <2>2
<1>10. Typed'
  BY <1>t, <1>1, <1>2, <1>4, <1>8, <1>9 DEF Typed
<1>11. Grows
  <2>1. \A s : Extends(s, s) <=> Len(s) <= Len(s)
    BY DEF Extends
  <2>2. /\ Len(registered) \in Nat /\ Len(m_StringArena) \in Nat /\ Len(m_SlowPathList.data) \in Nat
        /\ \A k \in DOMAIN m_HashMap.buckets : Len(m_HashMap.buckets[k].data) \in Nat
    BY <1>t DEF Typed, Vectors
  <2>3. m_nGlobalMinMatchLength \in Nat
    BY DEF EInv, TypeOK
  <2>4. \A k \in DOMAIN m_HashMap.buckets :
           /\ k \in DOMAIN m_HashMap'.buckets
           /\ Extends(m_HashMap.buckets[k].data, m_HashMap'.buckets[k].data)
    BY <1>9, <2>1, <2>2
  <2>5. /\ Extends(registered, registered') /\ Extends(m_StringArena, m_StringArena')
        /\ Extends(m_SlowPathList.data, m_SlowPathList'.data)
    BY <1>1, <1>2, <2>1, <2>2
  <2>6. m_nGlobalMinMatchLength' <= m_nGlobalMinMatchLength
    BY <1>2, <2>3
  <2> QED BY <1>2, <1>4, <1>8, <2>4, <2>5, <2>6 DEF Grows
<1>12. TypeOK'
  BY <1>2, <1>3, <1>5, <1>8 DEF EInv, TypeOK
<1>13. SlowIndexed'
  <2>1. ListedNow(m_SlowPathList.data) /\ AllSlow(m_SlowPathList.data, registered')
    BY <1>10, <1>11, ListsKept
  <2> QED BY <1>2, <2>1 DEF SlowIndexed, ListedHere, ListedNow
<1>14. HashIndexed'
  <2>1. ASSUME NEW k \in DOMAIN m_HashMap'.buckets
        PROVE  /\ ListedNow(m_HashMap'.buckets[k].data)
               /\ AllHashed(m_HashMap'.buckets[k].data, registered', m_bCaseInsensitive, k)
    <3>1. CASE k \in DOMAIN m_HashMap.buckets
      BY <1>9, <1>10, <1>11, <3>1, ListsKept
    <3>2. CASE k \notin DOMAIN m_HashMap.buckets
      BY <1>9, <3>2, EmptyListed DEF ListedNow
    <3> QED BY <3>1, <3>2
  <2> QED BY <1>2, <2>1 DEF HashIndexed, ListedHere, ListedNow
<1>15. AllReachable'
  <2>1. m_nGlobalMinMatchLength' \in Nat
    BY <1>2 DEF EInv, TypeOK
  <2>2. \A k \in 1 .. Len(registered) : Reachable(k, registered[k].pattern)'
    BY <1>10, <1>11, <2>1, ReachableKept
  <2> QED BY <1>2, <2>2 DEF AllReachable
<1>16. Recorded'
  <2>1. registered \in Seq(Registrations)
    BY <1>t DEF Typed
  <2>2. \A k \in 1 .. Len(registered) : registered[k] \in Registrations
    BY <2>1
  <2>3. \A k \in 1 .. Len(registered) : registered[k].context \in Nat
    BY <2>2 DEF Registrations
  <2>4. calls' \in Nat
    BY <1>3, Limits
  <2> QED BY <1>2, <1>3, <2>3, <2>4 DEF EInv, Recorded
<1> QED BY <1>8, <1>10, <1>12, <1>13, <1>14, <1>15, <1>16 DEF EInv

\* What both kinds of successful insertion do to the rest of the state.
LEMMA AddedFacts ==
    ASSUME EInv, AddAccepted, NEW pat \in Patterns, NEW scope \in Scopes, Added(pat, scope)
    PROVE  /\ m_bCaseInsensitive' = m_bCaseInsensitive
           /\ registered' \in Seq(Registrations) /\ Extends(registered, registered')
           /\ Len(registered') = Len(registered) + 1
           /\ registered'[Len(registered) + 1].pattern = pat
           /\ m_StringArena' \in Seq(Strings) /\ Extends(m_StringArena, m_StringArena')
           /\ m_ContextArena' \in Seq(Nat) /\ Extends(m_ContextArena, m_ContextArena')
           /\ Len(m_ContextArena') <= kMaxPatterns
           /\ m_nPatternCount' \in 0 .. kMaxPatterns /\ m_nGlobalMinMatchLength' \in Nat
           /\ m_bWildCardPresent' \in BOOLEAN /\ calls' \in 0 .. MaxCalls
           /\ m_nGlobalMinMatchLength' <= m_nGlobalMinMatchLength
           /\ m_nGlobalMinMatchLength' <=
                Len(Prefix(pat)) + SuffixMinLength(Wildcards(m_bCaseInsensitive, pat))
           /\ m_bWildCardPresent => m_bWildCardPresent'
           /\ WildPart(pat) # << >> => m_bWildCardPresent'
           /\ Recorded'
           /\ Entry(pat, scope) \in EntrySet /\ Entry(pat, scope).Id = Len(registered) + 1
           /\ Known(Entry(pat, scope), registered', m_bCaseInsensitive, m_StringArena', m_ContextArena')
<1>t. Typed /\ registered \in Seq(Registrations) /\ m_ContextArena \in Seq(Nat)
      /\ m_bCaseInsensitive \in CaseModes
  BY DEF EInv, Typed
<1>c. /\ calls \in Nat /\ calls + 1 \in 0 .. MaxCalls /\ m_nPatternCount \in Nat
      /\ m_nPatternCount + 1 \in 0 .. kMaxPatterns /\ m_nGlobalMinMatchLength \in Nat
      /\ m_bWildCardPresent \in BOOLEAN /\ m_nPatternCount = Len(registered)
  BY Limits DEF EInv, TypeOK, Recorded, AddAccepted, CanAdd
<1>1. PICK r : r = [pattern |-> pat, scope |-> scope, context |-> calls + 1]
  OBVIOUS
<1>2. r \in Registrations /\ r.pattern = pat /\ r.context = calls + 1
  BY <1>1, <1>c DEF Registrations
<1>3. /\ registered' = Append(registered, r) /\ m_StringArena' = Written(pat)
      /\ m_ContextArena' = Append(m_ContextArena, calls + 1)
      /\ m_nPatternCount' = m_nPatternCount + 1 /\ calls' = calls + 1
      /\ m_nGlobalMinMatchLength' = Lower(Len(Prefix(pat)) + SuffixMinLength(WildOf(pat)))
      /\ m_bWildCardPresent' = (m_bWildCardPresent \/ WildPart(pat) # << >>)
      /\ m_bCaseInsensitive' = m_bCaseInsensitive /\ ~ContextsFull
  BY <1>1 DEF Added, AddReturns, Payload
<1>4. PICK n \in Nat : n = Len(registered)
  BY <1>t
<1>5. /\ registered' \in Seq(Registrations) /\ Extends(registered, registered')
      /\ Len(registered') = n + 1 /\ registered'[n + 1] = r
  BY <1>t, <1>2, <1>3, <1>4, AppendExtends
<1>6. m_StringArena' \in Seq(Strings) /\ Extends(m_StringArena, m_StringArena')
  BY <1>t, <1>3, WrittenFacts
<1>7. PICK m \in Nat : m = Len(m_ContextArena)
  BY <1>t
<1>8. /\ m_ContextArena' \in Seq(Nat) /\ Extends(m_ContextArena, m_ContextArena')
      /\ Len(m_ContextArena') = m + 1 /\ m_ContextArena'[m + 1] = calls + 1
  BY <1>t, <1>c, <1>3, <1>7, AppendExtends
<1>9. Len(m_ContextArena') <= kMaxPatterns
  BY <1>3, <1>7, <1>8, Limits DEF ContextsFull
<1>10. PICK l \in Nat : l = Len(Prefix(pat)) + SuffixMinLength(Wildcards(m_bCaseInsensitive, pat))
  <2>1. /\ Len(Prefix(pat)) \in Nat
        /\ SuffixMinLength(Wildcards(m_bCaseInsensitive, pat)) \in Nat
    BY <1>t, PatternFacts
  <2> QED BY <2>1
<1>11. /\ m_nGlobalMinMatchLength' \in Nat /\ m_nGlobalMinMatchLength' <= m_nGlobalMinMatchLength
       /\ m_nGlobalMinMatchLength' <= l
  <2>1. m_nGlobalMinMatchLength' = Lower(l)
    BY <1>3, <1>10 DEF WildOf, Folded, Wildcards
  <2> QED BY <1>c, <2>1 DEF Lower
<1>12. Recorded'
  <2>1. \A k \in 1 .. n : registered[k].context <= calls /\ registered[k].context \in Nat
    <3>1. \A k \in 1 .. n : registered[k] \in Registrations
      BY <1>t, <1>4
    <3> QED BY <1>4, <3>1 DEF EInv, Recorded, Registrations
  <2>2. \A k, j \in 1 .. n : k < j => registered[k].context < registered[j].context
    BY <1>4 DEF EInv, Recorded
  <2>3. \A k \in 1 .. n : registered'[k] = registered[k]
    BY <1>4, <1>5 DEF Extends
  <2>4. \A k \in 1 .. n + 1 : k = n + 1 \/ k \in 1 .. n
    OBVIOUS
  <2>5. registered'[n + 1].context = calls + 1
    BY <1>2, <1>5
  <2>6. \A k \in 1 .. n + 1 : registered'[k].context <= calls + 1
    BY <1>c, <2>1, <2>3, <2>4, <2>5
  <2>7. ASSUME NEW k \in 1 .. n + 1, NEW j \in 1 .. n + 1, k < j
        PROVE  registered'[k].context < registered'[j].context
    <3>1. k \in 1 .. n
      BY <2>7
    <3>2. CASE j = n + 1
      BY <1>c, <2>1, <2>3, <2>5, <3>1, <3>2
    <3>3. CASE j \in 1 .. n
      BY <2>2, <2>3, <2>7, <3>1, <3>3
    <3> QED BY <2>4, <3>2, <3>3
  <2> QED BY <1>c, <1>3, <1>4, <1>5, <2>6, <2>7 DEF Recorded
<1>13. /\ Entry(pat, scope) \in EntrySet
       /\ Describes(Entry(pat, scope), r, m_bCaseInsensitive, m_StringArena', m_ContextArena')
  <2>1. PICK contexts \in Seq(Nat) : contexts = m_ContextArena'
    BY <1>8
  <2>2. Len(contexts) = Len(m_ContextArena) + 1 /\ contexts[Len(contexts)] = calls + 1
    BY <1>7, <1>8, <2>1
  <2> QED BY <1>t, <1>c, <1>1, <1>3, <2>1, <2>2, EntryDescribes
<1>14. Entry(pat, scope).Id = n + 1
  BY <1>c, <1>4 DEF Entry
<1>15. Known(Entry(pat, scope), registered', m_bCaseInsensitive, m_StringArena', m_ContextArena')
  BY <1>5, <1>13, <1>14 DEF Known
<1> QED BY <1>c, <1>2, <1>3, <1>4, <1>5, <1>6, <1>8, <1>9, <1>10, <1>11, <1>12, <1>13, <1>14, <1>15

\* The entry is the newest one of every list it can be appended to.
LEMMA NewestEntry ==
    ASSUME EInv, Typed', Grows, NEW data, ListedHere(data), ListedNow(data),
           NEW e \in EntrySet, e.Id = Len(registered) + 1,
           Known(e, registered', m_bCaseInsensitive, m_StringArena', m_ContextArena')
    PROVE  /\ ListedNow(Append(data, e)) /\ Extends(data, Append(data, e))
           /\ HasId(Append(data, e), Len(registered) + 1)
           /\ \A i \in 1 .. Len(Append(data, e)) :
                (i \in 1 .. Len(data) /\ Append(data, e)[i] = data[i]) \/ Append(data, e)[i] = e
<1>1. data \in Seq(EntrySet)
  BY DEF ListedHere, Listed
<1>2. /\ Extends(data, Append(data, e)) /\ Len(Append(data, e)) = Len(data) + 1
      /\ Append(data, e)[Len(data) + 1] = e
  BY <1>1, AppendExtends
<1>3. PICK n \in Nat : n = Len(data)
  BY <1>1
<1>4. Len(registered) \in Nat
  BY DEF EInv, Typed
<1>5. \A i \in 1 .. Len(data) : data[i].Id < e.Id
  BY <1>4 DEF ListedHere, Listed, Known
<1>6. ListedNow(Append(data, e))
  <2>1. PICK mode, reg, arena, contexts :
          /\ mode = m_bCaseInsensitive /\ reg = registered'
          /\ arena = m_StringArena' /\ contexts = m_ContextArena'
    OBVIOUS
  <2>2. Listed(data, reg, mode, arena, contexts) /\ Known(e, reg, mode, arena, contexts)
    BY <2>1 DEF ListedNow
  <2>3. Listed(Append(data, e), reg, mode, arena, contexts)
    BY <1>5, <2>2, ListedAppend
  <2> QED BY <2>1, <2>3 DEF ListedNow
<1>7. HasId(Append(data, e), Len(registered) + 1)
  BY <1>2, <1>3 DEF HasId
<1>8. \A i \in 1 .. n + 1 : i \in 1 .. n \/ i = n + 1
  OBVIOUS
<1> QED BY <1>2, <1>3, <1>6, <1>7, <1>8 DEF Extends

\* AddPattern of a pattern that starts with a wildcard.
LEMMA AddSlowKeeps ==
    ASSUME EInv, AddAccepted, NEW pat \in Patterns, NEW scope \in Scopes, AddSlow(pat, scope)
    PROVE  EInv'
<1>a. IsSlow(pat) /\ Added(pat, scope)
  BY DEF AddSlow
<1>1. /\ m_bCaseInsensitive' = m_bCaseInsensitive
      /\ registered' \in Seq(Registrations) /\ Extends(registered, registered')
      /\ Len(registered') = Len(registered) + 1
      /\ registered'[Len(registered) + 1].pattern = pat
      /\ m_StringArena' \in Seq(Strings) /\ Extends(m_StringArena, m_StringArena')
      /\ m_ContextArena' \in Seq(Nat) /\ Extends(m_ContextArena, m_ContextArena')
      /\ Len(m_ContextArena') <= kMaxPatterns
      /\ m_nPatternCount' \in 0 .. kMaxPatterns /\ m_nGlobalMinMatchLength' \in Nat
      /\ m_bWildCardPresent' \in BOOLEAN /\ calls' \in 0 .. MaxCalls
  BY <1>a, AddedFacts
<1>2. /\ m_nGlobalMinMatchLength' <= m_nGlobalMinMatchLength
      /\ m_nGlobalMinMatchLength' <=
           Len(Prefix(pat)) + SuffixMinLength(Wildcards(m_bCaseInsensitive, pat))
      /\ m_bWildCardPresent => m_bWildCardPresent'
      /\ WildPart(pat) # << >> => m_bWildCardPresent'
      /\ Recorded'
  BY <1>a, AddedFacts
<1>e. PICK e \in EntrySet :
        /\ e = Entry(pat, scope) /\ e.Id = Len(registered) + 1
        /\ Known(e, registered', m_bCaseInsensitive, m_StringArena', m_ContextArena')
  BY <1>a, AddedFacts
<1>3. /\ m_HashFilter' = m_HashFilter /\ m_LengthVec' = m_LengthVec /\ m_HashMap' = m_HashMap
      /\ m_SlowPathList' = PushBack(m_SlowPathList, e)
  BY <1>e DEF AddSlow
<1>4. /\ Typed /\ m_SlowPathList \in Vectors(EntrySet)
      /\ Len(m_SlowPathList.data) <= m_SlowPathList.capacity
  BY DEF EInv, TypeOK, Typed
<1>5. /\ m_SlowPathList' \in Vectors(EntrySet)
      /\ m_SlowPathList'.data = Append(m_SlowPathList.data, e)
      /\ Len(m_SlowPathList'.data) <= m_SlowPathList'.capacity
  BY <1>3, <1>4, PushBackFacts
<1>6. Typed'
  BY <1>1, <1>3, <1>4, <1>5 DEF Typed
<1>7. TypeOK'
  BY <1>1, <1>3, <1>5 DEF EInv, TypeOK
<1>8. Grows
  <2>1. \A k \in DOMAIN m_HashMap.buckets :
          Extends(m_HashMap.buckets[k].data, m_HashMap.buckets[k].data)
    <3>1. \A k \in DOMAIN m_HashMap.buckets : m_HashMap.buckets[k].data \in Seq(EntrySet)
      BY <1>4 DEF Typed, Vectors
    <3> QED BY <3>1 DEF Extends
  <2>2. Extends(m_SlowPathList.data, m_SlowPathList'.data)
    <3>1. m_SlowPathList.data \in Seq(EntrySet)
      BY <1>4 DEF Vectors
    <3> QED BY <1>5, <3>1, AppendExtends
  <2> QED BY <1>1, <1>2, <1>3, <2>1, <2>2 DEF Grows
<1>9. /\ ListedHere(m_SlowPathList.data) /\ ListedNow(m_SlowPathList.data)
      /\ AllSlow(m_SlowPathList.data, registered')
  BY <1>6, <1>8, ListsKept DEF EInv, SlowIndexed
<1>n. PICK data : data = m_SlowPathList.data
  OBVIOUS
<1>m. PICK data2 : data2 = m_SlowPathList'.data
  OBVIOUS
<1>10. /\ ListedNow(data2) /\ HasId(data2, Len(registered) + 1)
       /\ \A i \in 1 .. Len(data2) : (i \in 1 .. Len(data) /\ data2[i] = data[i]) \/ data2[i] = e
  BY <1>e, <1>n, <1>m, <1>5, <1>6, <1>8, <1>9, NewestEntry
<1>11. AllSlow(data2, registered')
  BY <1>a, <1>e, <1>1, <1>n, <1>9, <1>10 DEF AllSlow
<1>12. SlowIndexed'
  BY <1>1, <1>m, <1>10, <1>11 DEF SlowIndexed, ListedHere, ListedNow
<1>13. HashIndexed'
  <2>1. \A h \in DOMAIN m_HashMap.buckets :
          /\ ListedNow(m_HashMap.buckets[h].data)
          /\ AllHashed(m_HashMap.buckets[h].data, registered', m_bCaseInsensitive, h)
    BY <1>6, <1>8, ListsKept
  <2> QED BY <1>1, <1>3, <2>1 DEF HashIndexed, ListedHere, ListedNow
<1>14. AllReachable'
  <2>1. PICK n \in Nat : n = Len(registered)
    BY <1>4 DEF Typed
  <2>2. \A k \in 1 .. n : Reachable(k, registered[k].pattern)'
    BY <1>1, <1>6, <1>8, <2>1, ReachableKept
  <2>3. Reachable(n + 1, registered[n + 1].pattern)'
    <3>1. Reachable(n + 1, pat)'
      BY <1>a, <1>1, <1>2, <1>m, <1>10, <2>1 DEF Reachable
    <3>2. registered[n + 1].pattern' = pat
      BY <1>1, <2>1
    <3> QED BY <3>1, <3>2, Zenon
  <2>4. \A k \in 1 .. n + 1 : k \in 1 .. n \/ k = n + 1
    OBVIOUS
  <2>5. \A k \in 1 .. n + 1 : Reachable(k, registered[k].pattern)'
    BY <2>2, <2>3, <2>4, Zenon
  <2> QED BY <1>1, <2>1, <2>5 DEF AllReachable
<1>15. Sorted(m_LengthVec.data)'
  BY <1>3 DEF EInv, Sorted
<1> QED BY <1>2, <1>6, <1>7, <1>12, <1>13, <1>14, <1>15 DEF EInv

\* The bucket of the hash gains the entry, the other buckets are kept.
LEMMA WithEntryFacts ==
    ASSUME Typed, NEW h, NEW e \in EntrySet
    PROVE  /\ WithEntry(h, e) = [buckets |-> WithEntry(h, e).buckets,
                                 capacity |-> WithEntry(h, e).capacity]
           /\ WithEntry(h, e).buckets
                = [k \in DOMAIN WithEntry(h, e).buckets |-> WithEntry(h, e).buckets[k]]
           /\ DOMAIN WithEntry(h, e).buckets = DOMAIN m_HashMap.buckets \cup {h}
           /\ \A k \in DOMAIN WithEntry(h, e).buckets :
                /\ WithEntry(h, e).buckets[k] \in Vectors(EntrySet)
                /\ k # h => WithEntry(h, e).buckets[k] = m_HashMap.buckets[k]
           /\ h \in DOMAIN m_HashMap.buckets =>
                WithEntry(h, e).buckets[h].data = Append(m_HashMap.buckets[h].data, e)
           /\ h \notin DOMAIN m_HashMap.buckets =>
                WithEntry(h, e).buckets[h].data = Append(<< >>, e)
<1>1. PICK G, B : G = GetOrInsert(h) /\ B = G.buckets
  OBVIOUS
<1>2. /\ G = [buckets |-> B, capacity |-> G.capacity] /\ B = [k \in DOMAIN B |-> B[k]]
      /\ DOMAIN B = DOMAIN m_HashMap.buckets \cup {h}
      /\ \A k \in DOMAIN B :
           /\ B[k] \in Vectors(EntrySet)
           /\ k \in DOMAIN m_HashMap.buckets => B[k] = m_HashMap.buckets[k]
           /\ k \notin DOMAIN m_HashMap.buckets => B[k].data = << >>
  BY <1>1, GetOrInsertFacts DEF HasKey
<1>3. PICK v : v = PushBack(B[h], e)
  OBVIOUS
<1>4. v \in Vectors(EntrySet) /\ v.data = Append(B[h].data, e)
  BY <1>2, <1>3, PushBackFacts
<1>5. PICK N : N = [B EXCEPT ![h] = v]
  OBVIOUS
<1>6. WithEntry(h, e) = [buckets |-> N, capacity |-> G.capacity]
  BY <1>1, <1>2, <1>3, <1>5 DEF WithEntry
<1>7. /\ DOMAIN N = DOMAIN B /\ N = [k \in DOMAIN N |-> N[k]] /\ N[h] = v
      /\ \A k \in DOMAIN B : k # h => N[k] = B[k]
  BY <1>2, <1>5
<1>8. \A k \in DOMAIN N : N[k] \in Vectors(EntrySet) /\ (k # h => N[k] = m_HashMap.buckets[k])
  BY <1>2, <1>4, <1>7
<1> QED BY <1>2, <1>4, <1>6, <1>7, <1>8

\* AddPattern of a pattern with a literal prefix.
LEMMA AddHashedKeeps ==
    ASSUME EInv, AddAccepted, NEW pat \in Patterns, NEW scope \in Scopes, AddHashed(pat, scope)
    PROVE  EInv'
<1>a. ~IsSlow(pat) /\ Added(pat, scope)
  BY DEF AddHashed
<1>1. /\ m_bCaseInsensitive' = m_bCaseInsensitive
      /\ registered' \in Seq(Registrations) /\ Extends(registered, registered')
      /\ Len(registered') = Len(registered) + 1
      /\ registered'[Len(registered) + 1].pattern = pat
      /\ m_StringArena' \in Seq(Strings) /\ Extends(m_StringArena, m_StringArena')
      /\ m_ContextArena' \in Seq(Nat) /\ Extends(m_ContextArena, m_ContextArena')
      /\ Len(m_ContextArena') <= kMaxPatterns
      /\ m_nPatternCount' \in 0 .. kMaxPatterns /\ m_nGlobalMinMatchLength' \in Nat
      /\ m_bWildCardPresent' \in BOOLEAN /\ calls' \in 0 .. MaxCalls
  BY <1>a, AddedFacts
<1>2. /\ m_nGlobalMinMatchLength' <= m_nGlobalMinMatchLength
      /\ m_nGlobalMinMatchLength' <=
           Len(Prefix(pat)) + SuffixMinLength(Wildcards(m_bCaseInsensitive, pat))
      /\ m_bWildCardPresent => m_bWildCardPresent'
      /\ WildPart(pat) # << >> => m_bWildCardPresent'
      /\ Recorded'
  BY <1>a, AddedFacts
<1>e. PICK e \in EntrySet :
        /\ e = Entry(pat, scope) /\ e.Id = Len(registered) + 1
        /\ Known(e, registered', m_bCaseInsensitive, m_StringArena', m_ContextArena')
  BY <1>a, AddedFacts
<1>4. /\ Typed /\ Sorted(m_LengthVec.data) /\ Len(m_LengthVec.data) <= m_LengthVec.capacity
  BY DEF EInv, TypeOK
<1>h. PICK h \in Nat, n \in Nat : /\ h = HashOf(pat) /\ n = Len(Prefix(pat))
                                  /\ h = Hash(Fold(m_bCaseInsensitive, Prefix(pat)))
  BY <1>4, PatternFacts, HashAssumption DEF Typed, HashOf, Folded
<1>3. /\ m_SlowPathList' = m_SlowPathList /\ m_LengthVec' = WithLength(n)
      /\ m_HashMap' = WithEntry(h, e) /\ m_HashFilter' = m_HashFilter \cup {FilterBit(h)}
  BY <1>e, <1>h DEF AddHashed
<1>5. /\ m_LengthVec' \in Vectors(Nat) /\ Sorted(m_LengthVec'.data)
      /\ Len(m_LengthVec'.data) <= m_LengthVec'.capacity /\ HasMember(m_LengthVec'.data, n)
      /\ \A k : HasMember(m_LengthVec.data, k) => HasMember(m_LengthVec'.data, k)
  BY <1>3, <1>4, WithLengthFacts
<1>b. PICK B, N : B = m_HashMap.buckets /\ N = m_HashMap'.buckets
  OBVIOUS
<1>6. /\ m_HashMap' = [buckets |-> N, capacity |-> m_HashMap'.capacity]
      /\ N = [k \in DOMAIN N |-> N[k]] /\ DOMAIN N = DOMAIN B \cup {h}
      /\ \A k \in DOMAIN N : N[k] \in Vectors(EntrySet) /\ (k # h => N[k] = B[k])
      /\ h \in DOMAIN B => N[h].data = Append(B[h].data, e)
      /\ h \notin DOMAIN B => N[h].data = Append(<< >>, e)
  <2>1. PICK M : M = WithEntry(h, e)
    OBVIOUS
  <2>2. /\ M = [buckets |-> M.buckets, capacity |-> M.capacity]
        /\ M.buckets = [k \in DOMAIN M.buckets |-> M.buckets[k]]
        /\ DOMAIN M.buckets = DOMAIN m_HashMap.buckets \cup {h}
        /\ \A k \in DOMAIN M.buckets :
             /\ M.buckets[k] \in Vectors(EntrySet)
             /\ k # h => M.buckets[k] = m_HashMap.buckets[k]
        /\ h \in DOMAIN m_HashMap.buckets =>
             M.buckets[h].data = Append(m_HashMap.buckets[h].data, e)
        /\ h \notin DOMAIN m_HashMap.buckets => M.buckets[h].data = Append(<< >>, e)
    BY <1>4, <2>1, WithEntryFacts
  <2>3. m_HashMap' = M
    BY <1>3, <2>1
  <2> QED BY <1>b, <2>2, <2>3
<1>7. Typed'
  BY <1>1, <1>3, <1>4, <1>5, <1>6, <1>b DEF Typed
<1>8. TypeOK'
  <2>1. m_HashFilter' \in SUBSET (0 .. FilterBits - 1)
    BY <1>3, <1>h, Limits DEF EInv, TypeOK
  <2> QED BY <1>1, <1>3, <1>5, <2>1 DEF EInv, TypeOK
<1>9. \A k \in DOMAIN B : B[k].data \in Seq(EntrySet)
  BY <1>4, <1>b DEF Typed, Vectors
<1>10. Grows
  <2>1. \A k \in DOMAIN B : k \in DOMAIN N /\ Extends(B[k].data, N[k].data)
    <3>1. ASSUME NEW k \in DOMAIN B PROVE Extends(B[k].data, N[k].data)
      <4>1. CASE k = h
        <5>1. PICK d \in Seq(EntrySet) : d = B[h].data
          BY <1>9, <4>1
        <5>2. Extends(d, Append(d, e))
          BY <5>1, AppendExtends
        <5> QED BY <1>6, <4>1, <5>1, <5>2
      <4>2. CASE k # h
        <5>1. N[k] = B[k]
          BY <1>6, <4>2
        <5> QED BY <1>9, <5>1 DEF Extends
      <4> QED BY <4>1, <4>2
    <3> QED BY <1>6, <3>1
  <2>2. Extends(m_SlowPathList.data, m_SlowPathList'.data)
    <3>1. m_SlowPathList.data \in Seq(EntrySet)
      BY <1>4 DEF Typed, Vectors
    <3> QED BY <1>3, <3>1 DEF Extends
  <2> QED BY <1>1, <1>2, <1>3, <1>5, <1>b, <2>1, <2>2 DEF Grows
<1>11. /\ ListedNow(m_SlowPathList.data) /\ AllSlow(m_SlowPathList.data, registered')
       /\ \A k \in DOMAIN B :
            /\ ListedHere(B[k].data) /\ ListedNow(B[k].data)
            /\ AllHashed(B[k].data, registered', m_bCaseInsensitive, k)
  BY <1>7, <1>10, <1>b, ListsKept DEF EInv, HashIndexed
<1>12. SlowIndexed'
  BY <1>1, <1>3, <1>11 DEF SlowIndexed, ListedHere, ListedNow
<1>13. PICK data : /\ N[h].data = Append(data, e) /\ ListedHere(data) /\ ListedNow(data)
                   /\ AllHashed(data, registered', m_bCaseInsensitive, h)
  <2>1. CASE h \in DOMAIN B
    BY <1>6, <1>11, <2>1
  <2>2. CASE h \notin DOMAIN B
    BY <1>6, <2>2, EmptyListed DEF ListedHere, ListedNow
  <2> QED BY <2>1, <2>2
<1>14. /\ ListedNow(N[h].data) /\ HasId(N[h].data, Len(registered) + 1)
       /\ \A i \in 1 .. Len(N[h].data) :
            (i \in 1 .. Len(data) /\ N[h].data[i] = data[i]) \/ N[h].data[i] = e
  BY <1>e, <1>7, <1>10, <1>13, NewestEntry
<1>15. AllHashed(N[h].data, registered', m_bCaseInsensitive, h)
  BY <1>a, <1>e, <1>h, <1>1, <1>13, <1>14 DEF AllHashed
<1>16. HashIndexed'
  <2>1. ASSUME NEW k \in DOMAIN N
        PROVE  /\ ListedNow(N[k].data)
               /\ AllHashed(N[k].data, registered', m_bCaseInsensitive, k)
    <3>1. CASE k = h
      BY <1>14, <1>15, <3>1
    <3>2. CASE k # h
      <4>1. k \in DOMAIN B /\ N[k] = B[k]
        BY <1>6, <3>2
      <4> QED BY <1>11, <4>1
    <3> QED BY <3>1, <3>2
  <2> QED BY <1>1, <1>b, <2>1 DEF HashIndexed, ListedHere, ListedNow
<1>17. AllReachable'
  <2>1. PICK m \in Nat : m = Len(registered)
    BY <1>4 DEF Typed
  <2>2. \A k \in 1 .. m : Reachable(k, registered[k].pattern)'
    BY <1>1, <1>7, <1>10, <2>1, ReachableKept
  <2>3. Reachable(m + 1, registered[m + 1].pattern)'
    <3>1. HashOf(pat)' = h
      BY <1>1, <1>h DEF HashOf, Folded
    <3>2. h \in DOMAIN m_HashMap'.buckets /\ HasId(m_HashMap'.buckets[h].data, m + 1)
      BY <1>b, <1>6, <1>14, <2>1
    <3>3. FilterBit(h) \in m_HashFilter' /\ HasMember(m_LengthVec'.data, Len(Prefix(pat)))
      BY <1>h, <1>3, <1>5
    <3>4. Reachable(m + 1, pat)'
      BY <1>a, <1>1, <1>2, <3>1, <3>2, <3>3 DEF Reachable
    <3>5. registered[m + 1].pattern' = pat
      BY <1>1, <2>1
    <3> QED BY <3>4, <3>5, Zenon
  <2>4. \A k \in 1 .. m + 1 : k \in 1 .. m \/ k = m + 1
    OBVIOUS
  <2>5. \A k \in 1 .. m + 1 : Reachable(k, registered[k].pattern)'
    BY <2>2, <2>3, <2>4, Zenon
  <2> QED BY <1>1, <2>1, <2>5 DEF AllReachable
<1> QED BY <1>2, <1>5, <1>7, <1>8, <1>12, <1>16, <1>17 DEF EInv

\* With nothing registered, nothing has to be found.
Blank ==
    /\ m_bCaseInsensitive \in CaseModes /\ m_nPatternCount = 0
    /\ m_nGlobalMinMatchLength = MAXUINT32 /\ m_bWildCardPresent = FALSE /\ m_HashFilter = {}
    /\ m_LengthVec \in Vectors(Nat) /\ m_LengthVec.data = << >>
    /\ m_SlowPathList \in Vectors(EntrySet) /\ m_SlowPathList.data = << >>
    /\ m_HashMap = [buckets |-> << >>, capacity |-> m_HashMap.capacity]
    /\ m_StringArena = << >> /\ m_ContextArena = << >> /\ registered = << >>
    /\ calls \in 0 .. MaxCalls

\* The empty index.
LEMMA BlankIndex == Blank => EInv
<1> SUFFICES ASSUME Blank PROVE EInv
  OBVIOUS
<1>1. TypeOK
  <2>1. m_LengthVec.capacity \in Nat /\ m_SlowPathList.capacity \in Nat
    BY DEF Blank, Vectors
  <2>2. Len(m_LengthVec.data) = 0 /\ Len(m_SlowPathList.data) = 0 /\ Len(m_ContextArena) = 0
    BY DEF Blank
  <2>3. m_nPatternCount \in 0 .. kMaxPatterns /\ m_nGlobalMinMatchLength \in Nat
    BY Limits DEF Blank, MAXUINT32
  <2>4. m_HashFilter \in SUBSET (0 .. FilterBits - 1) /\ m_bWildCardPresent \in BOOLEAN
    BY DEF Blank
  <2>5. Len(m_ContextArena) <= kMaxPatterns /\ calls \in 0 .. MaxCalls
    BY <2>2, Limits DEF Blank
  <2> QED BY <2>1, <2>2, <2>3, <2>4, <2>5 DEF TypeOK
<1>2. m_HashMap.buckets = << >> /\ DOMAIN m_HashMap.buckets = {}
  <2>1. m_HashMap.buckets = << >>
    BY DEF Blank
  <2> QED BY <2>1
<1>3. Typed
  <2>1. m_HashMap.buckets = [h \in DOMAIN m_HashMap.buckets |-> m_HashMap.buckets[h]]
    BY <1>2
  <2> QED BY <1>2, <2>1 DEF Blank, Typed
<1>4. SlowIndexed
  BY EmptyListed DEF Blank, SlowIndexed, ListedHere
<1>5. HashIndexed
  BY <1>2 DEF HashIndexed
<1> QED BY <1>1, <1>3, <1>4, <1>5 DEF Blank, EInv, Sorted, AllReachable, Recorded

LEMMA EmptiedVector ==
    ASSUME NEW T, NEW v \in Vectors(T)
    PROVE  [v EXCEPT !.data = << >>] \in Vectors(T) /\ [v EXCEPT !.data = << >>].data = << >>
<1>1. v = [data |-> v.data, capacity |-> v.capacity] /\ v.capacity \in Nat
  BY DEF Vectors
<1>2. [v EXCEPT !.data = << >>] = [data |-> << >>, capacity |-> v.capacity]
  BY <1>1
<1>3. << >> \in Seq(T)
  OBVIOUS
<1> QED BY <1>1, <1>2, <1>3 DEF Vectors

\* Clear empties every list of the index.
LEMMA ClearKeeps ==
    ASSUME EInv, Clear
    PROVE  EInv'
<1>1. calls' \in 0 .. MaxCalls
  BY Limits DEF EInv, TypeOK, Clear, CanAdd
<1>2. /\ m_LengthVec \in Vectors(Nat) /\ m_SlowPathList \in Vectors(EntrySet)
      /\ m_HashMap = [buckets |-> m_HashMap.buckets, capacity |-> m_HashMap.capacity]
      /\ m_bCaseInsensitive \in CaseModes
  BY DEF EInv, Typed
<1>3. /\ m_LengthVec' \in Vectors(Nat) /\ m_LengthVec'.data = << >>
      /\ m_SlowPathList' \in Vectors(EntrySet) /\ m_SlowPathList'.data = << >>
  BY <1>2, EmptiedVector DEF Clear
<1>4. m_HashMap' = [buckets |-> << >>, capacity |-> m_HashMap'.capacity]
  BY <1>2 DEF Clear
<1>5. Blank'
  BY <1>1, <1>2, <1>3, <1>4 DEF Clear, Blank
<1> QED BY <1>5, BlankIndex, PTL

\* The constructed engine.
LEMMA EngineStarts == Init => EInv
<1> SUFFICES ASSUME Init PROVE EInv
  OBVIOUS
<1>1. SvoCapacity \in Nat
  BY SizeAssumption
<1>2. /\ m_LengthVec \in Vectors(Nat) /\ m_LengthVec.data = << >>
      /\ m_SlowPathList \in Vectors(EntrySet) /\ m_SlowPathList.data = << >>
  BY <1>1 DEF Init, EmptyVector, Vectors
<1>3. m_HashMap = [buckets |-> << >>, capacity |-> m_HashMap.capacity]
  BY DEF Init, NoTable
<1>4. calls \in 0 .. MaxCalls
  BY Limits DEF Init
<1>5. Blank
  BY <1>2, <1>3, <1>4 DEF Init, Blank
<1> QED BY <1>5, BlankIndex

\* Every call, with every outcome.
LEMMA EngineStep == EInv /\ [Next]_vars => EInv'
<1> SUFFICES ASSUME EInv, [Next]_vars PROVE EInv'
  OBVIOUS
<1>c. calls \in 0 .. MaxCalls /\ calls \in Nat
  BY Limits DEF EInv, TypeOK
<1>i. ASSUME UNCHANGED << m_bCaseInsensitive, index, registered, calls >> PROVE EInv'
  BY <1>c, <1>i, IndexSame
<1>1. CASE AddInvalid
  BY <1>1, <1>i DEF AddInvalid
<1>2. CASE AddOverLimit
  <2>1. calls' \in 0 .. MaxCalls /\ calls <= calls'
    BY <1>c, <1>2, Limits DEF AddOverLimit, AddReturns, CanAdd
  <2>2. UNCHANGED << m_bCaseInsensitive, index, registered >>
    BY <1>2 DEF AddOverLimit, AddReturns
  <2> QED BY <2>1, <2>2, IndexSame
<1>3. ASSUME AddAccepted, NEW pat \in Patterns, AddFailsEarly(pat) PROVE EInv'
  BY <1>3, AddFailsEarlyKeeps
<1>4. ASSUME AddAccepted, NEW pat \in Patterns, AddFailsLate(pat) PROVE EInv'
  BY <1>4, AddFailsLateKeeps
<1>5. ASSUME AddAccepted, NEW pat \in Patterns, NEW scope \in Scopes, AddSlow(pat, scope) PROVE EInv'
  BY <1>5, AddSlowKeeps
<1>6. ASSUME AddAccepted, NEW pat \in Patterns, NEW scope \in Scopes, AddHashed(pat, scope) PROVE EInv'
  BY <1>6, AddHashedKeeps
<1>7. CASE Clear
  BY <1>7, ClearKeeps
<1>8. ASSUME NEW op, NEW text, NEW status, NEW found, SearchReturns(op, text, status, found)
      PROVE  EInv'
  BY <1>8, <1>i DEF SearchReturns
<1>9. CASE Search
  BY <1>8, <1>9 DEF Search, SearchInvalid, SearchFirst, SearchAll, CollectAll
<1>10. CASE Return
  BY <1>10, <1>i DEF Return
<1>11. CASE UNCHANGED vars
  BY <1>11, <1>i DEF vars
<1> QED BY <1>1, <1>2, <1>3, <1>4, <1>5, <1>6, <1>7, <1>9, <1>10, <1>11 DEF Next, AddPattern

\* The invariant of the engine, for every set of patterns, every hash function
\* and every size of its containers: the lists describe exactly the patterns
\* registered, in the order in which AddPattern accepted them, and Search can
\* reach every one of them.
THEOREM EngineInvariant == Spec => []EInv
<1>1. Init => EInv
  BY EngineStarts
<1>2. EInv /\ [Next]_vars => EInv'
  BY EngineStep
<1> QED BY <1>1, <1>2, PTL DEF Spec

\* The invariant gives Search what it relies on.
LEMMA InvariantCompletes == EInv => IndexComplete
<1> SUFFICES ASSUME EInv PROVE IndexComplete
  OBVIOUS
<1>t. TypeOK /\ Typed /\ m_bCaseInsensitive \in CaseModes /\ registered \in Seq(Registrations)
  BY DEF EInv, Typed
<1>1. ASSUME NEW e \in EntrySet,
             Known(e, registered, m_bCaseInsensitive, m_StringArena, m_ContextArena)
      PROVE  \E pat \in Patterns :
               /\ pat = registered[e.Id].pattern /\ Reachable(e.Id, pat)
               /\ e.prefixLength = Len(Prefix(pat))
               /\ PrefixOf(e) = Folded(Prefix(pat))
               /\ e.suffixLength # 0 => WildPart(pat) # << >>
               /\ m_nGlobalMinMatchLength <= e.prefixLength + e.MinWildcardMatchLength
  <2>1. PICK r : r = registered[e.Id]
    OBVIOUS
  <2>2. /\ e.Id \in 1 .. Len(registered) /\ r \in Registrations
        /\ Describes(e, r, m_bCaseInsensitive, m_StringArena, m_ContextArena)
    BY <1>t, <1>1, <2>1 DEF Known
  <2>3. r.pattern \in Patterns
    BY <2>2 DEF Registrations
  <2>4. Reachable(e.Id, r.pattern)
    BY <2>1, <2>2 DEF EInv, AllReachable
  <2>5. /\ e.prefixLength = Len(Prefix(r.pattern))
        /\ PartOf(m_StringArena, e.buffer, 1, e.prefixLength)
             = Fold(m_bCaseInsensitive, Prefix(r.pattern))
        /\ e.suffixLength = LastWildcardEnd(Wildcards(m_bCaseInsensitive, r.pattern))
        /\ e.MinWildcardMatchLength = SuffixMinLength(Wildcards(m_bCaseInsensitive, r.pattern))
    BY <2>2 DEF Describes
  <2>6. PrefixOf(e) = Folded(Prefix(r.pattern))
    BY <2>5 DEF PrefixOf, PartOf, Folded
  <2>7. e.suffixLength # 0 => WildPart(r.pattern) # << >>
    BY <1>t, <2>3, <2>5, PatternFacts
  <2>8. m_nGlobalMinMatchLength <= e.prefixLength + e.MinWildcardMatchLength
    BY <2>4, <2>5 DEF Reachable
  <2> QED BY <2>1, <2>3, <2>4, <2>5, <2>6, <2>7, <2>8
<1>2. ASSUME NEW data, ListedHere(data), NEW e \in ToSet(data)
      PROVE  \E i \in 1 .. Len(data) : e = data[i] /\ e \in EntrySet
               /\ Known(e, registered, m_bCaseInsensitive, m_StringArena, m_ContextArena)
  BY <1>2 DEF ListedHere, Listed, ToSet
<1>3. ASSUME NEW h \in DOMAIN m_HashMap.buckets, NEW e \in ToSet(m_HashMap.buckets[h].data)
      PROVE  /\ Hash(PrefixOf(e)) = h /\ FilterBit(h) \in m_HashFilter
             /\ e.prefixLength \in ToSet(m_LengthVec.data)
             /\ e.suffixLength # 0 => m_bWildCardPresent
             /\ m_nGlobalMinMatchLength <= e.prefixLength + e.MinWildcardMatchLength
  <2>1. PICK data : data = m_HashMap.buckets[h].data
    OBVIOUS
  <2>2. ListedHere(data) /\ AllHashed(data, registered, m_bCaseInsensitive, h)
    BY <2>1 DEF EInv, HashIndexed
  <2>3. PICK i \in 1 .. Len(data) : e = data[i] /\ e \in EntrySet
               /\ Known(e, registered, m_bCaseInsensitive, m_StringArena, m_ContextArena)
    BY <1>2, <1>3, <2>1, <2>2
  <2>4. PICK pat \in Patterns :
               /\ pat = registered[e.Id].pattern /\ Reachable(e.Id, pat)
               /\ e.prefixLength = Len(Prefix(pat))
               /\ PrefixOf(e) = Folded(Prefix(pat))
               /\ e.suffixLength # 0 => WildPart(pat) # << >>
               /\ m_nGlobalMinMatchLength <= e.prefixLength + e.MinWildcardMatchLength
    BY <1>1, <2>3
  <2>5. ~IsSlow(pat) /\ Hash(Fold(m_bCaseInsensitive, Prefix(pat))) = h
    BY <2>2, <2>3, <2>4 DEF AllHashed
  <2>6. HashOf(pat) = h /\ Hash(PrefixOf(e)) = h
    BY <2>4, <2>5 DEF HashOf, Folded
  <2>7. /\ FilterBit(h) \in m_HashFilter /\ HasMember(m_LengthVec.data, e.prefixLength)
        /\ WildPart(pat) # << >> => m_bWildCardPresent
    BY <2>4, <2>5, <2>6 DEF Reachable
  <2>8. e.prefixLength \in ToSet(m_LengthVec.data)
    <3>1. m_LengthVec.data \in Seq(Nat)
      BY <1>t DEF Typed, Vectors
    <3> QED BY <2>7, <3>1 DEF HasMember, ToSet
  <2> QED BY <2>4, <2>6, <2>7, <2>8
<1>4. ASSUME NEW e \in ToSet(m_SlowPathList.data)
      PROVE  /\ m_bWildCardPresent
             /\ m_nGlobalMinMatchLength <= e.prefixLength + e.MinWildcardMatchLength
  <2>1. PICK data : data = m_SlowPathList.data
    OBVIOUS
  <2>2. ListedHere(data) /\ AllSlow(data, registered)
    BY <2>1 DEF EInv, SlowIndexed
  <2>3. PICK i \in 1 .. Len(data) : e = data[i] /\ e \in EntrySet
               /\ Known(e, registered, m_bCaseInsensitive, m_StringArena, m_ContextArena)
    BY <1>2, <1>4, <2>1, <2>2
  <2>4. PICK pat \in Patterns :
               /\ pat = registered[e.Id].pattern /\ Reachable(e.Id, pat)
               /\ m_nGlobalMinMatchLength <= e.prefixLength + e.MinWildcardMatchLength
    BY <1>1, <2>3
  <2>5. IsSlow(pat)
    BY <2>2, <2>3, <2>4 DEF AllSlow
  <2> QED BY <2>4, <2>5 DEF Reachable, IsSlow
<1>5. m_SlowPathList.data # << >> => m_bWildCardPresent
  <2>1. m_SlowPathList.data \in Seq(EntrySet)
    BY <1>t DEF Typed, Vectors
  <2>2. m_SlowPathList.data # << >> => m_SlowPathList.data[1] \in ToSet(m_SlowPathList.data)
    BY <2>1 DEF ToSet
  <2> QED BY <1>4, <2>2
<1>6. \A e \in Entries : m_nGlobalMinMatchLength <= e.prefixLength + e.MinWildcardMatchLength
  BY <1>3, <1>4 DEF Entries, BucketEntries
<1> QED BY <1>t, <1>3, <1>5, <1>6 DEF IndexComplete, EInv, Sorted

\* What Search relies on to find an entry again (IndexComplete): the bucket of
\* its own hash, its filter bit, its length in the sorted vector, and cached
\* minima that do not exclude it.
THEOREM IndexCompleteHolds == Spec => []IndexComplete
  BY EngineInvariant, InvariantCompletes, PTL

-----------------------------------------------------------------------------
(* Search.                                                                 *)

\* The parts an entry was made of.
LEMMA KnownParts ==
    ASSUME EInv, NEW e \in EntrySet,
           Known(e, registered, m_bCaseInsensitive, m_StringArena, m_ContextArena),
           NEW pat, pat = registered[e.Id].pattern, NEW w, w = Wildcards(m_bCaseInsensitive, pat)
    PROVE  /\ pat \in Patterns /\ pat \in Strings /\ m_bCaseInsensitive \in BOOLEAN
           /\ PrefixOf(e) = Fold(m_bCaseInsensitive, Prefix(pat))
           /\ TailTextOf(e) = TailAnchor(w)
           /\ PartsOf(m_bCaseInsensitive, pat, w, e.suffixLength, SuffixOf(e), TailTextOf(e))
           /\ e.prefixLength = Len(Prefix(pat))
           /\ e.tailLength = Len(TailTextOf(e))
           /\ e.MinWildcardMatchLength = SuffixMinLength(w)
           /\ e.Scope = registered[e.Id].scope
           /\ e.FirstLiteral = IF Prefix(pat) = << >> THEN FirstLiteralChar(w) ELSE << >>
           /\ m_ContextArena[e.ContextIndex] = registered[e.Id].context
<1>1. e.Id \in 1 .. Len(registered)
      /\ Describes(e, registered[e.Id], m_bCaseInsensitive, m_StringArena, m_ContextArena)
  BY DEF Known
<1>2. registered \in Seq(Registrations) /\ m_bCaseInsensitive \in CaseModes
  BY DEF EInv, Typed
<1>3. pat \in Patterns
  <2>1. PICK r : r = registered[e.Id]
    OBVIOUS
  <2>2. r \in Registrations
    BY <1>1, <1>2, <2>1
  <2>3. r.pattern \in Patterns
    BY <2>2 DEF Registrations
  <2> QED BY <2>1, <2>3
<1>4. pat \in Strings /\ m_bCaseInsensitive \in BOOLEAN
  BY <1>2, <1>3, PatternFacts
<1>5. /\ PartOf(m_StringArena, e.buffer, 1, e.prefixLength) = Fold(m_bCaseInsensitive, Prefix(pat))
      /\ PartOf(m_StringArena, e.buffer, e.prefixLength + 1, e.prefixLength + e.suffixLength)
           = SubSeq(w, 1, e.suffixLength)
      /\ WholeOf(m_StringArena, e.tailBuffer) = TailAnchor(w)
      /\ e.suffixLength = LastWildcardEnd(w)
  BY <1>1 DEF Describes
<1>6. PrefixOf(e) = Fold(m_bCaseInsensitive, Prefix(pat))
  BY <1>5 DEF PartOf, PrefixOf
<1>7. SuffixOf(e) = SubSeq(w, 1, e.suffixLength)
  BY <1>5 DEF PartOf, SuffixOf
<1>8. TailTextOf(e) = TailAnchor(w)
  BY <1>5 DEF WholeOf, TailTextOf
<1>9. PartsOf(m_bCaseInsensitive, pat, w, e.suffixLength, SuffixOf(e), TailTextOf(e))
  BY <1>5, <1>7, <1>8 DEF PartsOf, HasSuffix, Wildcards
<1> QED BY <1>1, <1>3, <1>4, <1>6, <1>8, <1>9 DEF Describes

\* The entries of the index are known.
LEMMA EntriesKnown ==
    ASSUME EInv, NEW e \in Entries
    PROVE  /\ e \in EntrySet
           /\ Known(e, registered, m_bCaseInsensitive, m_StringArena, m_ContextArena)
<1>1. ASSUME NEW data, ListedHere(data), e \in ToSet(data)
      PROVE  /\ e \in EntrySet
             /\ Known(e, registered, m_bCaseInsensitive, m_StringArena, m_ContextArena)
  <2>1. data \in Seq(EntrySet)
    BY <1>1 DEF ListedHere, Listed
  <2>2. PICK i \in 1 .. Len(data) : e = data[i]
    BY <1>1, <2>1 DEF ToSet
  <2> QED BY <1>1, <2>1, <2>2 DEF ListedHere, Listed
<1>2. CASE e \in ToSet(m_SlowPathList.data)
  BY <1>1, <1>2 DEF EInv, SlowIndexed
<1>3. CASE e \in BucketEntries
  <2>1. PICK h \in DOMAIN m_HashMap.buckets : e \in ToSet(m_HashMap.buckets[h].data)
    BY <1>3 DEF BucketEntries
  <2> QED BY <1>1, <2>1 DEF EInv, HashIndexed
<1> QED BY <1>2, <1>3 DEF Entries

\* Every wildcard suffix handed to the matcher starts and ends with an
\* unescaped wildcard, and minWildLen is what it needs.
LEMMA InvariantKeepsContract == EInv => MatcherContract
<1> SUFFICES ASSUME EInv, NEW e \in Entries, e.suffixLength # 0
             PROVE  LET toks == Tokens(SuffixOf(e))
                    IN  /\ toks[1].wild /\ toks[Len(toks)].wild
                        /\ e.MinWildcardMatchLength - e.tailLength = MinLength(SuffixOf(e))
  BY DEF MatcherContract
<1>1. /\ e \in EntrySet
      /\ Known(e, registered, m_bCaseInsensitive, m_StringArena, m_ContextArena)
  BY EntriesKnown
<1>2. PICK pat : pat = registered[e.Id].pattern
  OBVIOUS
<1>3. PICK w : w = Wildcards(m_bCaseInsensitive, pat)
  OBVIOUS
<1>4. /\ pat \in Strings /\ m_bCaseInsensitive \in BOOLEAN
      /\ PartsOf(m_bCaseInsensitive, pat, w, e.suffixLength, SuffixOf(e), TailTextOf(e))
      /\ e.tailLength = Len(TailTextOf(e)) /\ e.MinWildcardMatchLength = SuffixMinLength(w)
  BY <1>1, <1>2, <1>3, KnownParts
<1>5. /\ w \in Strings /\ HasSuffix(w, e.suffixLength, SuffixOf(e), TailTextOf(e))
      /\ w = << >> \/ At(w, 0) \in Wild
      /\ e.suffixLength = 0 <=> w = << >>
      /\ TailTextOf(e) \in Strings
      /\ NeedAt(SuffixOf(e), 0) \in Nat
      /\ SuffixMinLength(w) = NeedAt(SuffixOf(e), 0) + Len(TailTextOf(e))
  BY <1>4, PartsTyped
<1>6. Tokens(SuffixOf(e))[1].wild
  BY <1>5, SuffixStartsWild
<1>7. WildLast(Tokens(SuffixOf(e)))
  BY <1>5, SuffixEndsWild
<1>8. MinLength(SuffixOf(e)) = NeedAt(SuffixOf(e), 0)
  BY DEF MinLength, NeedAt, Tokens
<1>9. e.MinWildcardMatchLength - e.tailLength = MinLength(SuffixOf(e))
  <2>1. Len(TailTextOf(e)) \in Nat
    BY <1>5 DEF Strings
  <2> QED BY <1>4, <1>5, <1>8, <2>1
<1> QED BY <1>6, <1>7, <1>9 DEF WildLast

\* The contract between the engine and WildCardMatch holds in every state.
THEOREM MatcherContractHolds == Spec => []MatcherContract
  BY EngineInvariant, InvariantKeepsContract, PTL

\* The registration k matches the text, by the reference definition.
MatchesText(k, text) ==
    Glob(registered[k].pattern, text, registered[k].scope, m_bCaseInsensitive)

KnownHere(e) == Known(e, registered, m_bCaseInsensitive, m_StringArena, m_ContextArena)

\* The checks of an entry decide whether its pattern matches.
LEMMA BucketHitDecides ==
    ASSUME EInv, NEW e \in EntrySet, KnownHere(e), NEW n \in Nat, NEW text \in Strings
    PROVE  BucketHit(e, n, text) <=> e.prefixLength = n /\ MatchesText(e.Id, text)
<1>1. PICK pat : pat = registered[e.Id].pattern
  OBVIOUS
<1>2. PICK w : w = Wildcards(m_bCaseInsensitive, pat)
  OBVIOUS
<1>3. PICK c, tail : c \in BOOLEAN /\ c = m_bCaseInsensitive /\ tail = TailTextOf(e)
  BY <1>1, <1>2, KnownParts DEF KnownHere
<1>4. /\ pat \in Strings /\ PrefixOf(e) = Fold(c, Prefix(pat))
      /\ PartsOf(c, pat, w, e.suffixLength, SuffixOf(e), tail)
      /\ e.prefixLength = Len(Prefix(pat)) /\ e.tailLength = Len(tail)
      /\ e.MinWildcardMatchLength = SuffixMinLength(w)
      /\ e.Scope = registered[e.Id].scope
  BY <1>1, <1>2, <1>3, KnownParts DEF KnownHere
<1>5. MatchesText(e.Id, text) <=>
        BucketChecks(c, pat, w, e.suffixLength, SuffixOf(e), tail, text, e.Scope)
  <2>1. Glob(pat, text, e.Scope, c) <=>
          BucketChecks(c, pat, w, e.suffixLength, SuffixOf(e), tail, text, e.Scope)
    BY <1>3, <1>4, BucketDecides
  <2> QED BY <1>1, <1>3, <1>4, <2>1 DEF MatchesText
<1>6. CASE e.prefixLength # n
  BY <1>6 DEF BucketHit
<1>7. CASE e.prefixLength = n
  <2>1. EvaluateTailMatch(e, text) <=> TailAgrees(c, tail, text)
    BY <1>3, <1>4 DEF EvaluateTailMatch, TailAgrees, Folded, LastChars
  <2>2. EvaluatePrefixMatch(e, text) <=> PrefixAgrees(c, pat, text)
    BY <1>3, <1>4 DEF EvaluatePrefixMatch, PrefixAgrees, Folded
  <2>3. EvaluatePatternSuffix(e, DropFirst(text, n)) <=>
          SuffixAgrees(c, SuffixOf(e), tail, From(text, n), e.Scope)
    BY <1>3, <1>4 DEF EvaluatePatternSuffix, SuffixAgrees, Folded, DropFirst, DropLast, From
  <2>4. BucketHit(e, n, text) <=>
          BucketChecks(c, pat, w, e.suffixLength, SuffixOf(e), tail, text, e.Scope)
    BY <1>4, <1>7, <2>1, <2>2, <2>3 DEF BucketHit, BucketChecks
  <2> QED BY <1>5, <1>7, <2>4
<1> QED BY <1>6, <1>7

\* The checks of the slow path decide the reference match.
LEMMA SlowHitDecides ==
    ASSUME EInv, NEW e \in EntrySet, KnownHere(e), IsSlow(registered[e.Id].pattern),
           NEW text \in Strings
    PROVE  SlowHit(e, text) <=> MatchesText(e.Id, text)
<1>1. PICK pat : pat = registered[e.Id].pattern
  OBVIOUS
<1>2. PICK w : w = Wildcards(m_bCaseInsensitive, pat)
  OBVIOUS
<1>3. PICK c, tail : c \in BOOLEAN /\ c = m_bCaseInsensitive /\ tail = TailTextOf(e)
  BY <1>1, <1>2, KnownParts DEF KnownHere
<1>4. Prefix(pat) = << >> /\ WildPart(pat) # << >>
  BY <1>1 DEF IsSlow
<1>5. /\ pat \in Strings
      /\ PartsOf(c, pat, w, e.suffixLength, SuffixOf(e), tail)
      /\ e.tailLength = Len(tail)
      /\ e.MinWildcardMatchLength = SuffixMinLength(w)
      /\ e.Scope = registered[e.Id].scope
      /\ e.FirstLiteral = FirstLiteralChar(w)
  BY <1>1, <1>2, <1>3, <1>4, KnownParts DEF KnownHere
<1>6. MatchesText(e.Id, text) <=>
        SlowChecks(c, w, SuffixOf(e), tail, FirstLiteralChar(w), text, e.Scope)
  <2>1. Glob(pat, text, e.Scope, c) <=>
          SlowChecks(c, w, SuffixOf(e), tail, FirstLiteralChar(w), text, e.Scope)
    BY <1>3, <1>4, <1>5, SlowDecides
  <2> QED BY <1>1, <1>3, <1>5, <2>1 DEF MatchesText
<1>7. EvaluateTailMatch(e, text) <=> TailAgrees(c, tail, text)
  BY <1>3, <1>5 DEF EvaluateTailMatch, TailAgrees, Folded, LastChars
<1>8. EvaluatePatternSuffix(e, text) <=> SuffixAgrees(c, SuffixOf(e), tail, text, e.Scope)
  BY <1>3, <1>5 DEF EvaluatePatternSuffix, SuffixAgrees, Folded, DropLast
<1>9. PICK first : first = FirstLiteralChar(w)
  OBVIOUS
<1>10. ASSUME Len(text) >= SuffixMinLength(w)
       PROVE  Contains(Folded(DropLast(text, e.tailLength)), first[1]) <=>
                \E k \in 1 .. Len(text) - Len(tail) :
                  Fold(c, SubSeq(text, 1, Len(text) - Len(tail)))[k] = first[1]
  <2>1. PICK s : s = Fold(c, SubSeq(text, 1, Len(text) - Len(tail)))
    OBVIOUS
  <2>2. Len(s) = Len(text) - Len(tail)
    <3>1. /\ tail \in Strings /\ NeedAt(SuffixOf(e), 0) \in Nat
          /\ SuffixMinLength(w) = NeedAt(SuffixOf(e), 0) + Len(tail)
      BY <1>3, <1>5, PartsTyped
    <3>2. PICK m \in Nat, q \in Nat : m = Len(text) /\ q = Len(tail)
      BY <3>1 DEF Strings
    <3>3. m - q \in Nat
      BY <1>10, <3>1, <3>2
    <3>4. 1 \in 1 .. Len(text) + 1 /\ m - q \in 1 - 1 .. Len(text) /\ ((m - q) - 1) + 1 = m - q
      BY <3>2, <3>3
    <3>5. PICK u \in Strings : u = SubSeq(text, 1, m - q) /\ Len(u) = m - q
      <4>1. SubSeq(text, 1, m - q) \in Strings /\ Len(SubSeq(text, 1, m - q)) = ((m - q) - 1) + 1
        BY <3>4, SubString
      <4> QED BY <3>4, <4>1
    <3>6. Len(Fold(c, u)) = Len(u)
      BY <1>3, <3>5, FoldString
    <3> QED BY <2>1, <3>2, <3>5, <3>6
  <2>3. Folded(DropLast(text, e.tailLength)) = s
    BY <1>3, <1>5, <2>1 DEF Folded, DropLast
  <2> QED BY <2>1, <2>2, <2>3 DEF Contains
<1>11. SlowHit(e, text) <=>
         SlowChecks(c, w, SuffixOf(e), tail, first, text, e.Scope)
  BY <1>5, <1>7, <1>8, <1>9, <1>10 DEF SlowHit, SlowChecks
<1> QED BY <1>6, <1>9, <1>11

-----------------------------------------------------------------------------
(* The loops of Search.                                                    *)

\* The turns 1 .. n of a loop with values in R, and its values from `base` on.
Turns(n, step, R) == n \in Nat /\ \A i \in 1 .. n : \A r \in R : step[i][r] \in R

Values(h, n, step, R, base) ==
    /\ h = [i \in 0 .. n |-> h[i]] /\ h[0] = base
    /\ \A i \in 0 .. n : h[i] \in R
    /\ \A i \in 1 .. n : h[i] = step[i][h[i - 1]]

\* A loop of n turns has a value after every one of them.
LEMMA Upward ==
    ASSUME NEW n, NEW R, NEW step, Turns(n, step, R), NEW base \in R
    PROVE  \E h : Values(h, n, step, R, base)
<1>a. n \in Nat /\ \A i \in 1 .. n : \A r \in R : step[i][r] \in R
  BY DEF Turns
<1>1. PICK w : w = [i \in 0 .. n - 1 |-> 1]
  BY <1>a
<1>2. PICK st : st = [i \in 0 .. n - 1 |-> step[n - i]]
  BY <1>a
<1>3. \A i \in 0 .. n - 1 : w[i] = 1 /\ st[i] = step[n - i] /\ n - i \in 1 .. n
  BY <1>a, <1>1, <1>2
<1>4. Scan(0, n, w, st, R)
  BY <1>a, <1>3 DEF Scan
<1>5. PICK g : g[n] = base /\ Computes(g, 0, n, w, st, R)
  BY <1>a, <1>4, Recursion
<1>6. \A i \in 0 .. n : g[i] \in R
  BY <1>a, <1>4, <1>5, RecursionTyped
<1>7. \A i \in 0 .. n - 1 : g[i] = step[n - i][g[i + 1]]
  <2>1. ASSUME NEW i \in 0 .. n - 1 PROVE g[i] = step[n - i][g[i + 1]]
    <3>1. i + w[i] = i + 1 /\ i + 1 \in 0 .. n
      BY <1>a, <1>3
    <3>2. g[i + w[i]] \in R
      BY <1>a, <1>6, <3>1
    <3>3. g[i] = st[i][g[i + w[i]]]
      BY <1>a, <1>5, <3>2 DEF Computes
    <3> QED BY <1>a, <1>3, <3>1, <3>3
  <2> QED BY <1>a, <2>1
<1>8. PICK h : h = [i \in 0 .. n |-> g[n - i]]
  BY <1>a
<1>9. \A i \in 0 .. n : h[i] = g[n - i]
  BY <1>a, <1>8
<1>10. h = [i \in 0 .. n |-> h[i]]
  BY <1>a, <1>8
<1>11. h[0] = base
  <2>1. n - 0 = n
    BY <1>a
  <2> QED BY <1>a, <1>5, <1>9, <2>1
<1>12. ASSUME NEW i \in 0 .. n PROVE h[i] \in R
  <2>1. n - i \in 0 .. n
    BY <1>a
  <2> QED BY <1>a, <1>6, <1>9, <2>1
<1>13. ASSUME NEW i \in 1 .. n PROVE h[i] = step[i][h[i - 1]]
  <2>1. n - i \in 0 .. n - 1 /\ n - (n - i) = i /\ (n - i) + 1 = n - (i - 1) /\ i - 1 \in 0 .. n
    BY <1>a
  <2>2. g[n - i] = step[n - (n - i)][g[(n - i) + 1]]
    BY <1>a, <1>7, <2>1
  <2>3. h[i - 1] = g[(n - i) + 1]
    BY <1>a, <1>9, <2>1
  <2>4. h[i] = g[n - i]
    BY <1>a, <1>9
  <2> QED BY <1>a, <2>1, <2>2, <2>3, <2>4
<1>14. Values(h, n, step, R, base)
  BY <1>a, <1>10, <1>11, <1>12, <1>13 DEF Values
<1> QED BY <1>a, <1>14

\* What Filtered computes, entry by entry.
FilteredBy(f, list, hit, n) ==
    /\ f[0] = << >>
    /\ \A i \in 1 .. n : f[i] = IF hit[i] THEN Append(f[i - 1], list[i]) ELSE f[i - 1]

\* Filtered has one step per entry of its list.
LEMMA FilteredRecursion ==
    ASSUME NEW T, NEW list \in Seq(T), NEW hit, NEW n, n = Len(list)
    PROVE  \E f : Filtered(list, hit) = f[n] /\ FilteredBy(f, list, hit, n)
<1>1. n \in Nat
  OBVIOUS
<1> DEFINE More(i, r) == IF hit[i] THEN Append(r, list[i]) ELSE r
           Nil == << >>
<1>2. PICK step : step = [i \in 1 .. n |-> [r \in Seq(T) |-> More(i, r)]]
  OBVIOUS
<1>3. ASSUME NEW i \in 1 .. n, NEW r \in Seq(T) PROVE More(i, r) \in Seq(T) /\ step[i][r] = More(i, r)
  <2>1. list[i] \in T
    OBVIOUS
  <2>2. More(i, r) \in Seq(T)
    BY <2>1
  <2> HIDE DEF More
  <2> QED BY <1>2, <2>2
<1>4. Nil \in Seq(T)
  OBVIOUS
<1> HIDE DEF More, Nil
<1>5. PICK g : /\ g = [i \in 0 .. n |-> g[i]] /\ g[0] = Nil
               /\ \A i \in 0 .. n : g[i] \in Seq(T)
               /\ \A i \in 1 .. n : g[i] = step[i][g[i - 1]]
  <2>1. PICK R : R = Seq(T)
    OBVIOUS
  <2>2. Turns(n, step, R)
    BY <1>1, <1>3, <2>1 DEF Turns
  <2>3. Nil \in R
    BY <1>4, <2>1
  <2>4. PICK h : Values(h, n, step, R, Nil)
    BY <2>2, <2>3, Upward
  <2>5. /\ h = [i \in 0 .. n |-> h[i]] /\ h[0] = Nil
        /\ \A i \in 0 .. n : h[i] \in Seq(T)
        /\ \A i \in 1 .. n : h[i] = step[i][h[i - 1]]
    BY <2>1, <2>4 DEF Values
  <2> QED BY <2>5
<1>6. ASSUME NEW i \in 0 .. n PROVE g[i] = IF i = 0 THEN Nil ELSE More(i, g[i - 1])
  <2>1. CASE i = 0
    BY <1>5, <2>1
  <2>2. CASE i # 0
    <3>1. i \in 1 .. n /\ i - 1 \in 0 .. n
      BY <1>1, <2>2
    <3>2. g[i - 1] \in Seq(T)
      BY <1>5, <3>1
    <3>3. g[i] = step[i][g[i - 1]]
      BY <1>5, <3>1
    <3> QED BY <1>3, <2>2, <3>1, <3>2, <3>3
  <2> QED BY <2>1, <2>2
<1>7. g = [i \in 0 .. n |-> IF i = 0 THEN Nil ELSE More(i, g[i - 1])]
  BY <1>5, <1>6
<1>8. g = [i \in 0 .. Len(list) |-> IF i = 0 THEN << >>
             ELSE IF hit[i] THEN Append(g[i - 1], list[i]) ELSE g[i - 1]]
  BY <1>7, Zenon DEF Nil, More
<1>9. PICK f : /\ Filtered(list, hit) = f[Len(list)]
               /\ f = [i \in 0 .. Len(list) |-> IF i = 0 THEN << >>
                         ELSE IF hit[i] THEN Append(f[i - 1], list[i]) ELSE f[i - 1]]
  BY <1>8 DEF Filtered
<1>10. f = [i \in 0 .. n |-> IF i = 0 THEN Nil ELSE More(i, f[i - 1])]
  BY <1>9, Zenon DEF Nil, More
<1>11. f[0] = Nil /\ \A i \in 1 .. n : f[i] = More(i, f[i - 1])
  BY <1>1, <1>10
<1>12. FilteredBy(f, list, hit, n)
  BY <1>11, Zenon DEF Nil, More, FilteredBy
<1> QED BY <1>9, <1>12

\* s holds the entries of the list up to n whose test succeeds, and no other,
\* by increasing Id.
Gathers(s, list, hit, n) ==
    /\ s \in Seq(EntrySet)
    /\ \A j \in 1 .. Len(s) : \E k \in 1 .. n : hit[k] /\ s[j] = list[k]
    /\ \A k \in 1 .. n : hit[k] => \E j \in 1 .. Len(s) : s[j] = list[k]
    /\ \A i, j \in 1 .. Len(s) : i < j => s[i].Id < s[j].Id

IncreasingIds(list) ==
    /\ list \in Seq(EntrySet)
    /\ \A i, j \in 1 .. Len(list) : i < j => list[i].Id < list[j].Id

\* One turn of a filtering loop.
LEMMA GatherOne ==
    ASSUME NEW list, IncreasingIds(list), NEW hit, NEW i \in 1 .. Len(list),
           NEW s, Gathers(s, list, hit, i - 1)
    PROVE  /\ hit[i] => Gathers(Append(s, list[i]), list, hit, i)
           /\ ~hit[i] => Gathers(s, list, hit, i)
<1>1. /\ list \in Seq(EntrySet) /\ \A k, j \in 1 .. Len(list) : k < j => list[k].Id < list[j].Id
  BY DEF IncreasingIds
<1>2. PICK n \in Nat : n = Len(list)
  BY <1>1
<1>3. /\ s \in Seq(EntrySet)
      /\ \A j \in 1 .. Len(s) : \E k \in 1 .. i - 1 : hit[k] /\ s[j] = list[k]
      /\ \A k \in 1 .. i - 1 : hit[k] => \E j \in 1 .. Len(s) : s[j] = list[k]
      /\ \A k, j \in 1 .. Len(s) : k < j => s[k].Id < s[j].Id
  BY DEF Gathers
<1>4. PICK m \in Nat : m = Len(s)
  BY <1>3
<1>5. 1 .. i - 1 \subseteq 1 .. i /\ \A k \in 1 .. i : k \in 1 .. i - 1 \/ k = i
  OBVIOUS
<1>6. ASSUME ~hit[i] PROVE Gathers(s, list, hit, i)
  BY <1>3, <1>5, <1>6 DEF Gathers
<1>7. ASSUME hit[i] PROVE Gathers(Append(s, list[i]), list, hit, i)
  <2>1. PICK t : t = Append(s, list[i])
    OBVIOUS
  <2>2. list[i] \in EntrySet
    BY <1>1
  <2>3. /\ t \in Seq(EntrySet) /\ Len(t) = m + 1 /\ t[m + 1] = list[i]
        /\ \A j \in 1 .. m : t[j] = s[j]
    BY <1>3, <1>4, <2>1, <2>2
  <2>4. \A j \in 1 .. m + 1 : j \in 1 .. m \/ j = m + 1
    OBVIOUS
  <2>5. \A j \in 1 .. m + 1 : \E k \in 1 .. i : hit[k] /\ t[j] = list[k]
    <3>1. ASSUME NEW j \in 1 .. m PROVE \E k \in 1 .. i : hit[k] /\ t[j] = list[k]
      BY <1>3, <1>4, <1>5, <2>3
    <3>2. i \in 1 .. i
      OBVIOUS
    <3> QED BY <1>7, <2>3, <2>4, <3>1, <3>2
  <2>6. \A k \in 1 .. i : hit[k] => \E j \in 1 .. m + 1 : t[j] = list[k]
    <3>1. ASSUME NEW k \in 1 .. i - 1, hit[k] PROVE \E j \in 1 .. m + 1 : t[j] = list[k]
      <4>1. PICK j \in 1 .. m : s[j] = list[k]
        BY <1>3, <1>4, <3>1
      <4>2. j \in 1 .. m + 1 /\ t[j] = list[k]
        BY <2>3, <4>1
      <4> QED BY <4>2
    <3>2. m + 1 \in 1 .. m + 1
      OBVIOUS
    <3> QED BY <1>5, <2>3, <3>1, <3>2
  <2>7. \A k, j \in 1 .. m + 1 : k < j => t[k].Id < t[j].Id
    <3>1. ASSUME NEW k \in 1 .. m PROVE t[k].Id < t[m + 1].Id
      <4>1. PICK l \in 1 .. i - 1 : s[k] = list[l]
        BY <1>3, <1>4
      <4>2. l \in 1 .. Len(list) /\ i \in 1 .. Len(list) /\ l < i
        BY <1>2
      <4>3. list[l].Id < list[i].Id
        BY <1>1, <4>2
      <4> QED BY <2>3, <4>1, <4>3
    <3>2. ASSUME NEW k \in 1 .. m, NEW j \in 1 .. m, k < j PROVE t[k].Id < t[j].Id
      <4>1. s[k].Id < s[j].Id
        BY <1>3, <1>4, <3>2
      <4> QED BY <2>3, <4>1
    <3>3. \A k, j \in 1 .. m + 1 : k < j => (k \in 1 .. m /\ (j \in 1 .. m \/ j = m + 1))
      OBVIOUS
    <3> QED BY <3>1, <3>2, <3>3
  <2>8. Gathers(t, list, hit, i)
    <3>1. Len(t) = m + 1 /\ t \in Seq(EntrySet)
      BY <2>3
    <3> QED BY <2>5, <2>6, <2>7, <3>1 DEF Gathers
  <2> QED BY <2>1, <2>8
<1> QED BY <1>6, <1>7

\* A filtering loop keeps exactly the entries whose test succeeds, in order.
LEMMA FilteredGathers ==
    ASSUME NEW list, IncreasingIds(list), NEW hit, NEW n, n = Len(list)
    PROVE  Gathers(Filtered(list, hit), list, hit, n)
<1>1. list \in Seq(EntrySet) /\ n \in Nat
  BY DEF IncreasingIds
<1>2. PICK f : Filtered(list, hit) = f[n] /\ FilteredBy(f, list, hit, n)
  BY <1>1, FilteredRecursion
<1>3. f[0] = << >> /\ \A i \in 1 .. n : f[i] = IF hit[i] THEN Append(f[i - 1], list[i]) ELSE f[i - 1]
  BY <1>2 DEF FilteredBy
<1> DEFINE G == {i \in 0 .. n : Gathers(f[i], list, hit, i)}
<1>4. 0 \in G
  <2>1. Gathers(<< >>, list, hit, 0)
    BY DEF Gathers
  <2> QED BY <1>1, <1>3, <2>1
<1>5. ASSUME NEW i \in 0 .. n - 1, i \in G PROVE i + 1 \in G
  <2>1. PICK k \in 1 .. n : k = i + 1
    BY <1>1
  <2>2. k - 1 = i
    BY <2>1
  <2>3. Gathers(f[k - 1], list, hit, k - 1)
    BY <1>5, <2>2
  <2>4. /\ hit[k] => Gathers(Append(f[k - 1], list[k]), list, hit, k)
        /\ ~hit[k] => Gathers(f[k - 1], list, hit, k)
    BY <2>3, GatherOne
  <2>5. Gathers(f[k], list, hit, k)
    BY <1>3, <2>4
  <2> QED BY <1>1, <2>1, <2>5
<1>6. n \in G
  <2> HIDE DEF G
  <2>1. \A i \in 0 .. n : i \in G
    BY <1>1, <1>4, <1>5, UpFromZero
  <2> QED BY <1>1, <2>1
<1> QED BY <1>2, <1>6

\* What a match says about the prefix, the lengths and the wildcards.
LEMMA MatchSays ==
    ASSUME EInv, NEW k \in 1 .. Len(registered), NEW text \in Strings, MatchesText(k, text),
           NEW pat, pat = registered[k].pattern, NEW l, l = Len(Prefix(pat))
    PROVE  /\ pat \in Patterns /\ l \in 0 .. Len(text)
           /\ l + SuffixMinLength(Wildcards(m_bCaseInsensitive, pat)) <= Len(text)
           /\ SuffixMinLength(Wildcards(m_bCaseInsensitive, pat)) \in Nat
           /\ Folded(SubSeq(text, 1, l)) = Folded(Prefix(pat))
           /\ WildPart(pat) = << >> => l = Len(text)
<1>1. registered \in Seq(Registrations) /\ m_bCaseInsensitive \in CaseModes
  BY DEF EInv, Typed
<1>2. PICK r : r = registered[k]
  OBVIOUS
<1>3. r \in Registrations
  BY <1>1, <1>2
<1>4. pat \in Patterns
  BY <1>2, <1>3 DEF Registrations
<1>5. PICK c : c \in BOOLEAN /\ c = m_bCaseInsensitive
  BY <1>1, <1>4, PatternFacts
<1>6. PICK w : w = Wildcards(c, pat)
  OBVIOUS
<1>7. /\ pat \in Strings /\ Prefix(pat) \in Strings /\ l \in Nat
      /\ SuffixMinLength(w) \in Nat /\ (WildPart(pat) = << >> => LastWildcardEnd(w) = 0)
  BY <1>1, <1>4, <1>5, <1>6, PatternFacts
<1>8. PICK e, y, tail : HasSuffix(w, e, y, tail)
  BY DEF HasSuffix
<1>9. PartsOf(c, pat, w, e, y, tail) /\ e = LastWildcardEnd(w)
  BY <1>6, <1>8 DEF PartsOf, Wildcards, HasSuffix
<1>10. Glob(pat, text, r.scope, c)
  BY <1>2, <1>5 DEF MatchesText
<1>11. BucketChecks(c, pat, w, e, y, tail, text, r.scope)
  BY <1>5, <1>7, <1>9, <1>10, BucketDecides
<1>12. PICK m \in Nat : m = Len(text)
  BY DEF Strings
<1>13. m >= l + SuffixMinLength(w) /\ (l < m => e # 0) /\ PrefixAgrees(c, pat, text)
  BY <1>11, <1>12 DEF BucketChecks
<1>14. Folded(SubSeq(text, 1, l)) = Folded(Prefix(pat))
  BY <1>5, <1>13 DEF PrefixAgrees, Folded
<1>15. l \in 0 .. m /\ l + SuffixMinLength(w) <= m
  BY <1>7, <1>12, <1>13
<1>16. WildPart(pat) = << >> => l = m
  BY <1>7, <1>9, <1>12, <1>13, <1>15
<1> QED BY <1>4, <1>5, <1>6, <1>7, <1>12, <1>14, <1>15, <1>16

\* The order in which Search reports registrations: by the length of their
\* prefix, then in the order they were added; the slow path comes last.
PrefixLengthOf(reg, k) == Len(Prefix(reg[k].pattern))
Precedes(reg, k, l) ==
    \/ ~IsSlow(reg[k].pattern) /\ IsSlow(reg[l].pattern)
    \/ IsSlow(reg[k].pattern) /\ IsSlow(reg[l].pattern) /\ k < l
    \/ /\ ~IsSlow(reg[k].pattern) /\ ~IsSlow(reg[l].pattern)
       /\ \/ PrefixLengthOf(reg, k) < PrefixLengthOf(reg, l)
          \/ PrefixLengthOf(reg, k) = PrefixLengthOf(reg, l) /\ k < l

\* The order of the answers is strict: no two registrations precede each other.
LEMMA PrecedesStrict ==
    ASSUME NEW reg \in Seq(Registrations), NEW k \in 1 .. Len(reg), NEW l \in 1 .. Len(reg),
           Precedes(reg, k, l)
    PROVE  k # l /\ ~Precedes(reg, l, k)
<1>1. ASSUME NEW i \in 1 .. Len(reg) PROVE PrefixLengthOf(reg, i) \in Nat
  <2>1. PICK x : x = reg[i]
    OBVIOUS
  <2>2. x \in Registrations
    BY <2>1
  <2>3. x.pattern \in Strings
    BY <2>2, StringsAssumption DEF Registrations, Strings
  <2>4. Prefix(x.pattern) \in Strings
    BY <2>3, Parsed
  <2> QED BY <2>1, <2>4 DEF PrefixLengthOf, Strings
<1>2. PICK a \in Nat, b \in Nat : a = PrefixLengthOf(reg, k) /\ b = PrefixLengthOf(reg, l)
  BY <1>1
<1>3. PICK m \in Nat, n \in Nat : m = k /\ n = l
  OBVIOUS
<1>4. (a < b => ~(b < a) /\ a # b) /\ (m < n => ~(n < m) /\ m # n)
  OBVIOUS
<1> QED BY <1>2, <1>3, <1>4 DEF Precedes

\* s holds the entry of every registration in K, of no other, in order.
Answers(s, K) ==
    /\ s \in Seq(EntrySet)
    /\ \A j \in 1 .. Len(s) : KnownHere(s[j]) /\ s[j].Id \in K /\ s[j] \in Entries
    /\ \A k \in K : \E j \in 1 .. Len(s) : s[j].Id = k
    /\ \A i, j \in 1 .. Len(s) : i < j => Precedes(registered, s[i].Id, s[j].Id)

\* The empty answer.
LEMMA NoAnswer == Answers(<< >>, {})
  BY DEF Answers

\* Two answers, all of the first before all of the second.
LEMMA AnswersJoin ==
    ASSUME NEW s, NEW t, NEW K, NEW L, Answers(s, K), Answers(t, L),
           \A k \in K, l \in L : Precedes(registered, k, l)
    PROVE  Answers(s \o t, K \cup L)
<1>1. /\ s \in Seq(EntrySet)
      /\ \A j \in 1 .. Len(s) : KnownHere(s[j]) /\ s[j].Id \in K /\ s[j] \in Entries
      /\ \A k \in K : \E j \in 1 .. Len(s) : s[j].Id = k
      /\ \A i, j \in 1 .. Len(s) : i < j => Precedes(registered, s[i].Id, s[j].Id)
  BY DEF Answers
<1>2. /\ t \in Seq(EntrySet)
      /\ \A j \in 1 .. Len(t) : KnownHere(t[j]) /\ t[j].Id \in L /\ t[j] \in Entries
      /\ \A k \in L : \E j \in 1 .. Len(t) : t[j].Id = k
      /\ \A i, j \in 1 .. Len(t) : i < j => Precedes(registered, t[i].Id, t[j].Id)
  BY DEF Answers
<1>3. PICK a : a = s \o t
  OBVIOUS
<1>4. PICK m \in Nat : m = Len(s)
  BY <1>1
<1>5. PICK n \in Nat : n = Len(t)
  BY <1>2
<1>6. /\ a \in Seq(EntrySet) /\ Len(a) = m + n
      /\ \A j \in 1 .. m : a[j] = s[j]
      /\ \A j \in 1 .. n : a[m + j] = t[j]
  BY <1>1, <1>2, <1>3, <1>4, <1>5, JoinFacts
<1>7. \A j \in 1 .. m + n : j \in 1 .. m \/ \E i \in 1 .. n : j = m + i
  <2>1. ASSUME NEW j \in 1 .. m + n, j \notin 1 .. m PROVE \E i \in 1 .. n : j = m + i
    <3>1. j - m \in 1 .. n /\ j = m + (j - m)
      BY <2>1
    <3> QED BY <3>1
  <2> QED BY <2>1
<1>8. \A j \in 1 .. m : KnownHere(a[j]) /\ a[j].Id \in K /\ a[j] \in Entries
  BY <1>1, <1>4, <1>6
<1>9. \A j \in 1 .. n : KnownHere(a[m + j]) /\ a[m + j].Id \in L /\ a[m + j] \in Entries
  BY <1>2, <1>5, <1>6
<1>10. \A j \in 1 .. Len(a) : KnownHere(a[j]) /\ a[j].Id \in K \cup L /\ a[j] \in Entries
  BY <1>6, <1>7, <1>8, <1>9
<1>11. ASSUME NEW k \in K \cup L PROVE \E j \in 1 .. Len(a) : a[j].Id = k
  <2>1. CASE k \in K
    <3>1. PICK j \in 1 .. m : s[j].Id = k
      BY <1>1, <1>4, <2>1
    <3>2. j \in 1 .. Len(a) /\ a[j].Id = k
      BY <1>6, <3>1
    <3> QED BY <3>2
  <2>2. CASE k \in L
    <3>1. PICK j \in 1 .. n : t[j].Id = k
      BY <1>2, <1>5, <2>2
    <3>2. m + j \in 1 .. Len(a) /\ a[m + j].Id = k
      BY <1>6, <3>1
    <3> QED BY <3>2
  <2> QED BY <2>1, <2>2
<1>12. ASSUME NEW i \in 1 .. m + n, NEW j \in 1 .. m + n, i < j
       PROVE  Precedes(registered, a[i].Id, a[j].Id)
  <2>1. CASE j \in 1 .. m
    <3>1. i \in 1 .. m
      BY <1>12, <2>1
    <3> QED BY <1>1, <1>4, <1>6, <1>12, <2>1, <3>1
  <2>2. CASE i \in 1 .. m /\ j \notin 1 .. m
    <3>1. PICK b \in 1 .. n : j = m + b
      BY <1>7, <2>2
    <3>2. a[i].Id \in K /\ a[j].Id \in L
      BY <1>8, <1>9, <2>2, <3>1
    <3> QED BY <3>2
  <2>3. CASE i \notin 1 .. m
    <3>1. j \notin 1 .. m
      BY <1>12, <2>3
    <3>2. PICK b \in 1 .. n : i = m + b
      BY <1>7, <2>3
    <3>3. PICK d \in 1 .. n : j = m + d
      BY <1>7, <3>1
    <3>4. b < d
      BY <1>12, <3>2, <3>3
    <3>5. Precedes(registered, t[b].Id, t[d].Id)
      BY <1>2, <1>5, <3>4
    <3> QED BY <1>6, <3>2, <3>3, <3>5
  <2> QED BY <2>1, <2>2, <2>3
<1>13. \A i, j \in 1 .. Len(a) : i < j => Precedes(registered, a[i].Id, a[j].Id)
  BY <1>6, <1>12
<1>14. Answers(a, K \cup L)
  BY <1>6, <1>10, <1>11, <1>13, Zenon DEF Answers
<1> QED BY <1>3, <1>14

\* The entries that a loop over one list of the index hands on.
LEMMA LoopAnswers ==
    ASSUME EInv, NEW list, ListedHere(list), NEW hit, NEW K,
           \A i \in 1 .. Len(list) : list[i] \in Entries,
           \A i \in 1 .. Len(list) : hit[i] <=> list[i].Id \in K,
           \A k \in K : HasId(list, k),
           \A k, l \in K : k < l => Precedes(registered, k, l)
    PROVE  Answers(Filtered(list, hit), K)
<1>1. /\ list \in Seq(EntrySet)
      /\ \A i, j \in 1 .. Len(list) : i < j => list[i].Id < list[j].Id
      /\ \A i \in 1 .. Len(list) : KnownHere(list[i])
  BY DEF ListedHere, Listed, KnownHere
<1>2. IncreasingIds(list)
  BY <1>1 DEF IncreasingIds
<1>3. PICK n \in Nat : n = Len(list)
  BY <1>1
<1>4. PICK s : s = Filtered(list, hit)
  OBVIOUS
<1>5. Gathers(s, list, hit, n)
  BY <1>2, <1>3, <1>4, FilteredGathers
<1>6. /\ s \in Seq(EntrySet)
      /\ \A j \in 1 .. Len(s) : \E k \in 1 .. n : hit[k] /\ s[j] = list[k]
      /\ \A k \in 1 .. n : hit[k] => \E j \in 1 .. Len(s) : s[j] = list[k]
      /\ \A i, j \in 1 .. Len(s) : i < j => s[i].Id < s[j].Id
  BY <1>5 DEF Gathers
<1>7. \A j \in 1 .. Len(s) : KnownHere(s[j]) /\ s[j].Id \in K /\ s[j] \in Entries
  BY <1>1, <1>3, <1>6
<1>8. ASSUME NEW k \in K PROVE \E j \in 1 .. Len(s) : s[j].Id = k
  <2>1. PICK i \in 1 .. n : list[i].Id = k
    BY <1>3 DEF HasId
  <2>2. hit[i]
    BY <1>3, <2>1
  <2>3. PICK j \in 1 .. Len(s) : s[j] = list[i]
    BY <1>6, <2>2
  <2> QED BY <2>1, <2>3
<1>9. \A i, j \in 1 .. Len(s) : i < j => Precedes(registered, s[i].Id, s[j].Id)
  BY <1>6, <1>7
<1> QED BY <1>4, <1>6, <1>7, <1>8, <1>9 DEF Answers

\* The registrations a bucket visit for the length n has to find, and the
\* ones the slow path has to find.
HashedMatches(n, text) ==
    {k \in 1 .. Len(registered) :
       /\ ~IsSlow(registered[k].pattern) /\ Len(Prefix(registered[k].pattern)) = n
       /\ MatchesText(k, text)}
SlowMatches(text) ==
    {k \in 1 .. Len(registered) : IsSlow(registered[k].pattern) /\ MatchesText(k, text)}

\* The slow path finds the registrations without a prefix that match.
LEMMA SlowHitsAnswer ==
    ASSUME EInv, NEW text \in Strings
    PROVE  Answers(SlowHits(text), SlowMatches(text))
<1>1. PICK list : list = m_SlowPathList.data
  OBVIOUS
<1>2. ListedHere(list) /\ AllSlow(list, registered)
  BY <1>1 DEF EInv, SlowIndexed
<1>3. PICK hit : hit = [i \in 1 .. Len(list) |-> SlowHit(list[i], text)]
  OBVIOUS
<1>4. SlowHits(text) = Filtered(list, hit)
  BY <1>1, <1>3, Zenon DEF SlowHits
<1>5. list \in Seq(EntrySet)
  BY <1>2 DEF ListedHere, Listed
<1>6. ASSUME NEW i \in 1 .. Len(list) PROVE hit[i] <=> list[i].Id \in SlowMatches(text)
  <2>1. PICK e : e = list[i]
    OBVIOUS
  <2>2. e \in EntrySet /\ KnownHere(e) /\ IsSlow(registered[e.Id].pattern)
    BY <1>2, <1>5, <2>1 DEF ListedHere, Listed, KnownHere, AllSlow
  <2>3. SlowHit(e, text) <=> MatchesText(e.Id, text)
    BY <2>2, SlowHitDecides
  <2>4. e.Id \in 1 .. Len(registered)
    BY <2>2 DEF KnownHere, Known
  <2>5. hit[i] <=> SlowHit(e, text)
    BY <1>3, <2>1
  <2> QED BY <2>1, <2>2, <2>3, <2>4, <2>5 DEF SlowMatches
<1>7. ASSUME NEW k \in SlowMatches(text) PROVE HasId(list, k)
  BY <1>1 DEF SlowMatches, EInv, AllReachable, Reachable
<1>8. \A i \in 1 .. Len(list) : list[i] \in Entries
  BY <1>1, <1>5 DEF Entries, ToSet
<1>9. \A k, l \in SlowMatches(text) : k < l => Precedes(registered, k, l)
  BY DEF SlowMatches, Precedes
<1> QED BY <1>2, <1>4, <1>6, <1>7, <1>8, <1>9, LoopAnswers

\* One turn of the main loop finds the matching registrations of that prefix length.
LEMMA BucketHitsAnswer ==
    ASSUME EInv, NEW text \in Strings, NEW n \in 0 .. Len(text)
    PROVE  Answers(BucketHits(n, text), HashedMatches(n, text))
<1>1. PICK h : h = Hash(Folded(SubSeq(text, 1, n)))
  OBVIOUS
<1>2. ASSUME NEW k \in HashedMatches(n, text)
      PROVE  /\ h \in DOMAIN m_HashMap.buckets /\ HasId(m_HashMap.buckets[h].data, k)
             /\ FilterBit(h) \in m_HashFilter
  <2>1. PICK pat : pat = registered[k].pattern
    OBVIOUS
  <2>2. /\ k \in 1 .. Len(registered) /\ ~IsSlow(pat) /\ n = Len(Prefix(pat)) /\ MatchesText(k, text)
    BY <2>1 DEF HashedMatches
  <2>3. Folded(SubSeq(text, 1, n)) = Folded(Prefix(pat))
    BY <2>1, <2>2, MatchSays
  <2>4. HashOf(pat) = h
    BY <1>1, <2>3 DEF HashOf
  <2>5. Reachable(k, pat)
    BY <2>1, <2>2 DEF EInv, AllReachable
  <2> QED BY <2>2, <2>4, <2>5 DEF Reachable
<1>3. CASE FilterBit(h) \in m_HashFilter /\ HasKey(h)
  <2>1. PICK list : list = m_HashMap.buckets[h].data
    OBVIOUS
  <2>2. ListedHere(list) /\ AllHashed(list, registered, m_bCaseInsensitive, h)
    BY <1>3, <2>1 DEF EInv, HashIndexed, HasKey
  <2>3. PICK hit : hit = [i \in 1 .. Len(list) |-> BucketHit(list[i], n, text)]
    OBVIOUS
  <2>4. BucketHits(n, text) = Filtered(list, hit)
    BY <1>1, <1>3, <2>1, <2>3, Zenon DEF BucketHits
  <2>5. list \in Seq(EntrySet)
    BY <2>2 DEF ListedHere, Listed
  <2>6. ASSUME NEW i \in 1 .. Len(list) PROVE hit[i] <=> list[i].Id \in HashedMatches(n, text)
    <3>1. PICK e : e = list[i]
      OBVIOUS
    <3>2. e \in EntrySet /\ KnownHere(e) /\ ~IsSlow(registered[e.Id].pattern)
      BY <2>2, <2>5, <3>1 DEF ListedHere, Listed, KnownHere, AllHashed
    <3>3. n \in Nat
      BY DEF Strings
    <3>4. BucketHit(e, n, text) <=> e.prefixLength = n /\ MatchesText(e.Id, text)
      BY <3>2, <3>3, BucketHitDecides
    <3>5. e.Id \in 1 .. Len(registered) /\ e.prefixLength = Len(Prefix(registered[e.Id].pattern))
      BY <3>2 DEF KnownHere, Known, Describes
    <3>6. hit[i] <=> BucketHit(e, n, text)
      BY <2>3, <3>1
    <3> QED BY <3>1, <3>2, <3>4, <3>5, <3>6 DEF HashedMatches
  <2>7. \A k \in HashedMatches(n, text) : HasId(list, k)
    BY <1>2, <2>1
  <2>8. \A i \in 1 .. Len(list) : list[i] \in Entries
    <3>1. \A i \in 1 .. Len(list) : list[i] \in ToSet(list)
      BY <2>5 DEF ToSet
    <3>2. ToSet(list) \subseteq BucketEntries
      BY <1>3, <2>1 DEF BucketEntries, HasKey
    <3> QED BY <3>1, <3>2 DEF Entries
  <2>9. \A k, l \in HashedMatches(n, text) : k < l => Precedes(registered, k, l)
    BY DEF HashedMatches, Precedes, PrefixLengthOf
  <2> QED BY <2>2, <2>4, <2>6, <2>7, <2>8, <2>9, LoopAnswers
<1>4. CASE ~(FilterBit(h) \in m_HashFilter /\ HasKey(h))
  <2>1. HashedMatches(n, text) = {}
    BY <1>2, <1>4 DEF HasKey
  <2>2. BucketHits(n, text) = << >>
    BY <1>1, <1>4, Zenon DEF BucketHits
  <2> QED BY <2>1, <2>2, NoAnswer
<1> QED BY <1>3, <1>4

-----------------------------------------------------------------------------
(* The lengths that are visited.                                           *)

\* The ranges of the binary search over N lengths; what is already decided.
Ranges(N) == {r \in [first : 1 .. N + 1, count : 0 .. N] : r.first + r.count <= N + 1}
DecidedAround(v, n, r) ==
    /\ \A i \in 1 .. r.first - 1 : v[i] < n
    /\ \A i \in r.first + r.count .. Len(v) : v[i] >= n

\* A turn of the binary search stays within the vector and makes it smaller.
LEMMA HalveTyped ==
    ASSUME NEW N \in Nat, NEW v, NEW n, NEW r \in Ranges(N)
    PROVE  /\ HalveRange(v, n, r) \in Ranges(N)
           /\ r.count = 0 => HalveRange(v, n, r) = r
           /\ r.count # 0 => HalveRange(v, n, r).count < r.count
<1>1. PICK a, c : a = r.first /\ c = r.count
  OBVIOUS
<1>2. a \in 1 .. N + 1 /\ c \in 0 .. N /\ a + c <= N + 1
  BY <1>1 DEF Ranges
<1>3. PICK q : q = c \div 2
  OBVIOUS
<1>4. q \in Nat /\ 2 * q <= c /\ c < 2 * q + 2
  BY <1>2, <1>3
<1>5. CASE c = 0
  <2>1. HalveRange(v, n, r) = r
    BY <1>1, <1>5 DEF HalveRange
  <2> QED BY <1>1, <1>5, <2>1
<1>6. CASE c # 0
  <2>1. PICK b : b = a + q
    OBVIOUS
  <2>2. q < c /\ b \in 1 .. N /\ b + 1 \in 1 .. N + 1 /\ c - (q + 1) \in 0 .. N /\ q \in 0 .. N
        /\ (b + 1) + (c - (q + 1)) <= N + 1 /\ a + q <= N + 1 /\ c - (q + 1) < c
    BY <1>2, <1>4, <1>6, <2>1
  <2>3. HalveRange(v, n, r) = IF v[b] < n THEN [first |-> b + 1, count |-> c - (q + 1)]
                              ELSE [first |-> a, count |-> q]
    BY <1>1, <1>3, <1>6, <2>1, Zenon DEF HalveRange
  <2>4. CASE v[b] < n
    <3>1. HalveRange(v, n, r) = [first |-> b + 1, count |-> c - (q + 1)]
      BY <2>3, <2>4
    <3> QED BY <1>1, <1>6, <2>2, <3>1 DEF Ranges
  <2>5. CASE ~(v[b] < n)
    <3>1. HalveRange(v, n, r) = [first |-> a, count |-> q]
      BY <2>3, <2>5
    <3> QED BY <1>1, <1>2, <1>6, <2>2, <3>1 DEF Ranges
  <2> QED BY <2>4, <2>5
<1> QED BY <1>5, <1>6

\* What a turn of the binary search excludes is excluded rightly.
LEMMA HalveDecides ==
    ASSUME NEW v \in Seq(Nat), Sorted(v), NEW N, N = Len(v), NEW n \in Nat,
           NEW r \in Ranges(N), DecidedAround(v, n, r)
    PROVE  DecidedAround(v, n, HalveRange(v, n, r))
<1>0. N \in Nat /\ \A i \in 1 .. N : v[i] \in Nat
  OBVIOUS
<1>1. PICK a, c : a = r.first /\ c = r.count
  OBVIOUS
<1>2. a \in 1 .. N + 1 /\ c \in 0 .. N /\ a + c <= N + 1
  BY <1>0, <1>1 DEF Ranges
<1>3. PICK q : q = c \div 2
  OBVIOUS
<1>4. q \in Nat /\ 2 * q <= c /\ c < 2 * q + 2
  BY <1>0, <1>2, <1>3
<1>5. /\ \A i \in 1 .. a - 1 : v[i] < n
      /\ \A i \in a + c .. N : v[i] >= n
  BY <1>1 DEF DecidedAround
<1>6. CASE c = 0
  <2>1. HalveRange(v, n, r) = r
    BY <1>1, <1>6 DEF HalveRange
  <2> QED BY <2>1
<1>7. CASE c # 0
  <2>1. PICK b : b = a + q
    OBVIOUS
  <2>2. b \in 1 .. N
    BY <1>0, <1>2, <1>4, <1>7, <2>1
  <2>3. HalveRange(v, n, r) = IF v[b] < n THEN [first |-> b + 1, count |-> c - (q + 1)]
                              ELSE [first |-> a, count |-> q]
    BY <1>1, <1>3, <1>7, <2>1, Zenon DEF HalveRange
  <2>4. \A i \in 1 .. N : (i < b => v[i] < v[b]) /\ (b < i => v[b] < v[i])
    BY <2>2 DEF Sorted
  <2>5. CASE v[b] < n
    <3>1. HalveRange(v, n, r) = [first |-> b + 1, count |-> c - (q + 1)]
      BY <2>3, <2>5
    <3>2. ASSUME NEW i \in 1 .. (b + 1) - 1 PROVE v[i] < n
      <4>1. i \in 1 .. N /\ (i < b \/ i = b)
        BY <1>0, <2>2
      <4> QED BY <1>0, <2>2, <2>4, <2>5, <4>1
    <3>3. (b + 1) + (c - (q + 1)) = a + c
      BY <1>2, <1>4, <2>1
    <3>4. \A i \in (b + 1) + (c - (q + 1)) .. Len(v) : v[i] >= n
      BY <1>5, <3>3
    <3> QED BY <3>1, <3>2, <3>4 DEF DecidedAround
  <2>6. CASE ~(v[b] < n)
    <3>1. HalveRange(v, n, r) = [first |-> a, count |-> q]
      BY <2>3, <2>6
    <3>2. ASSUME NEW i \in a + q .. N PROVE v[i] >= n
      <4>1. i \in 1 .. N /\ (b < i \/ i = b)
        BY <1>0, <1>2, <1>4, <2>1, <2>2
      <4> QED BY <1>0, <2>2, <2>4, <2>6, <4>1
    <3> QED BY <1>5, <3>1, <3>2 DEF DecidedAround
  <2> QED BY <2>5, <2>6
<1> QED BY <1>6, <1>7

\* The binary search finds the first length that is not smaller.
LEMMA LowerBoundFacts ==
    ASSUME EInv, NEW n \in Nat, NEW v, v = m_LengthVec.data
    PROVE  /\ LowerBound(n) \in 1 .. Len(v) + 1
           /\ \A i \in 1 .. LowerBound(n) - 1 : v[i] < n
           /\ \A i \in LowerBound(n) .. Len(v) : v[i] >= n
<1>1. v \in Seq(Nat) /\ Sorted(v)
  BY DEF EInv, Typed, Vectors
<1>2. PICK N \in Nat : N = Len(v)
  BY <1>1
<1> DEFINE Start == [first |-> 1, count |-> N]
           Halve(r) == HalveRange(v, n, r)
<1>3. Start \in Ranges(N) /\ Start.count = N /\ DecidedAround(v, n, Start)
  BY <1>1, <1>2 DEF Ranges, DecidedAround
<1>4. \A r \in Ranges(N) : Halve(r) \in Ranges(N)
  BY <1>2, HalveTyped
<1> HIDE DEF Start, Halve
<1>5. PICK step : step = [k \in 1 .. N |-> [r \in Ranges(N) |-> Halve(r)]]
  OBVIOUS
<1>6. \A k \in 1 .. N : \A r \in Ranges(N) : step[k][r] = Halve(r)
  BY <1>5
<1>7. PICK g : Values(g, N, step, Ranges(N), Start)
  <2>1. Turns(N, step, Ranges(N))
    BY <1>2, <1>4, <1>6 DEF Turns
  <2> QED BY <1>3, <2>1, Upward
<1>8. ASSUME NEW k \in 0 .. N PROVE g[k] = IF k = 0 THEN Start ELSE Halve(g[k - 1])
  <2>1. CASE k = 0
    BY <1>7, <2>1 DEF Values
  <2>2. CASE k # 0
    <3>1. k \in 1 .. N /\ k - 1 \in 0 .. N
      BY <1>2, <2>2
    <3>2. g[k - 1] \in Ranges(N) /\ g[k] = step[k][g[k - 1]]
      BY <1>7, <3>1 DEF Values
    <3> QED BY <1>6, <2>2, <3>1, <3>2
  <2> QED BY <2>1, <2>2
<1>9. g = [k \in 0 .. N |-> IF k = 0 THEN Start ELSE Halve(g[k - 1])]
  <2>1. g = [k \in 0 .. N |-> g[k]]
    BY <1>7 DEF Values
  <2> QED BY <1>8, <2>1
<1>10. g = [k \in 0 .. Len(m_LengthVec.data) |->
              IF k = 0 THEN [first |-> 1, count |-> Len(m_LengthVec.data)]
              ELSE HalveRange(m_LengthVec.data, n, g[k - 1])]
  BY <1>2, <1>9, Zenon DEF Start, Halve
<1>11. PICK f : /\ LowerBound(n) = f[Len(m_LengthVec.data)].first
                /\ f = [k \in 0 .. Len(m_LengthVec.data) |->
                         IF k = 0 THEN [first |-> 1, count |-> Len(m_LengthVec.data)]
                         ELSE HalveRange(m_LengthVec.data, n, f[k - 1])]
  BY <1>10 DEF LowerBound
<1>12. f = [k \in 0 .. N |-> IF k = 0 THEN Start ELSE Halve(f[k - 1])]
  BY <1>2, <1>11, Zenon DEF Start, Halve
<1>13. f[0] = Start /\ \A k \in 1 .. N : f[k] = Halve(f[k - 1])
  BY <1>2, <1>12
<1> DEFINE G == {k \in 0 .. N : /\ f[k] \in Ranges(N) /\ DecidedAround(v, n, f[k])
                                /\ f[k].count <= N - k}
<1>14. 0 \in G
  BY <1>2, <1>3, <1>13
<1>15. ASSUME NEW k \in 0 .. N - 1, k \in G PROVE k + 1 \in G
  <2>1. PICK r : r = f[k]
    OBVIOUS
  <2>2. r \in Ranges(N) /\ DecidedAround(v, n, r) /\ r.count <= N - k
    BY <1>15, <2>1
  <2>3. k + 1 \in 1 .. N /\ (k + 1) - 1 = k
    BY <1>2
  <2>4. PICK s : s = HalveRange(v, n, r)
    OBVIOUS
  <2>5. f[k + 1] = s
    BY <1>13, <2>1, <2>3, <2>4 DEF Halve
  <2>6. s \in Ranges(N) /\ (r.count = 0 => s = r) /\ (r.count # 0 => s.count < r.count)
    BY <1>2, <2>2, <2>4, HalveTyped
  <2>7. DecidedAround(v, n, s)
    BY <1>1, <1>2, <2>2, <2>4, HalveDecides
  <2>8. r.count \in 0 .. N /\ s.count \in 0 .. N
    BY <2>2, <2>6 DEF Ranges
  <2>9. s.count <= N - (k + 1)
    <3>1. PICK x \in 0 .. N, y \in 0 .. N : x = r.count /\ y = s.count
      BY <2>8
    <3>2. CASE x = 0
      <4>1. y = 0
        BY <2>6, <3>1, <3>2
      <4> QED BY <1>2, <3>1, <4>1
    <3>3. CASE x # 0
      <4>1. y < x /\ x <= N - k
        BY <2>2, <2>6, <3>1, <3>3
      <4> QED BY <1>2, <3>1, <4>1
    <3> QED BY <3>2, <3>3
  <2> QED BY <1>2, <2>3, <2>5, <2>6, <2>7, <2>9
<1>16. N \in G
  <2> HIDE DEF G
  <2>1. \A k \in 0 .. N : k \in G
    BY <1>2, <1>14, <1>15, UpFromZero
  <2> QED BY <1>2, <2>1
<1>17. PICK r : r = f[N]
  OBVIOUS
<1>18. r \in Ranges(N) /\ DecidedAround(v, n, r) /\ r.count <= N - N /\ LowerBound(n) = r.first
  BY <1>2, <1>11, <1>16, <1>17
<1>19. r.first \in 1 .. N + 1 /\ r.count = 0
  BY <1>2, <1>18 DEF Ranges
<1>20. r.first + r.count = r.first
  BY <1>2, <1>19
<1>21. /\ \A i \in 1 .. r.first - 1 : v[i] < n
       /\ \A i \in r.first .. Len(v) : v[i] >= n
  BY <1>18, <1>20 DEF DecidedAround
<1> QED BY <1>2, <1>18, <1>19, <1>21

\* The visited lengths: increasing, none longer than the text, and every
\* registered one among them that can matter.
LEMMA VisitedFacts ==
    ASSUME EInv, NEW n \in Nat, NEW u, u = VisitedLengths(n)
    PROVE  /\ u \in Seq(Nat)
           /\ \A j \in 1 .. Len(u) : u[j] \in 0 .. n
           /\ \A i, j \in 1 .. Len(u) : i < j => u[i] < u[j]
           /\ \A l \in 0 .. n : HasMember(m_LengthVec.data, l) /\ (m_bWildCardPresent \/ l = n)
                => HasMember(u, l)
<1>1. PICK v : v = m_LengthVec.data
  OBVIOUS
<1>2. v \in Seq(Nat) /\ Sorted(v)
  BY <1>1 DEF EInv, Typed, Vectors
<1>3. PICK N \in Nat : N = Len(v)
  BY <1>2
<1>4. \A i \in 1 .. N : v[i] \in Nat
  BY <1>2, <1>3
<1>5. \A i, j \in 1 .. N : i < j => v[i] < v[j]
  BY <1>3, <1>2 DEF Sorted
<1>6. CASE m_bWildCardPresent
  <2> DEFINE S == {i \in 1 .. Len(v) + 1 : i = Len(v) + 1 \/ v[i] > n}
  <2>1. N + 1 \in S /\ S \subseteq Nat
    BY <1>3
  <2>2. PICK d : d = Min(S)
    OBVIOUS
  <2>3. d \in S /\ \A i \in S : d <= i
    <3> HIDE DEF S
    <3>1. S # {}
      BY <2>1
    <3> QED BY <2>1, <2>2, <3>1, MinFacts
  <2>4. d \in 1 .. N + 1 /\ (d = N + 1 \/ v[d] > n)
    BY <1>3, <2>3
  <2>5. u = SubSeq(v, 1, d - 1)
    BY <1>1, <1>6, <2>2, Zenon DEF VisitedLengths
  <2>6. /\ u \in Seq(Nat) /\ Len(u) = d - 1
        /\ \A i \in 1 .. d - 1 : u[i] = v[i]
    <3>1. 1 \in 1 .. Len(v) + 1 /\ d - 1 \in 1 - 1 .. Len(v) /\ ((d - 1) - 1) + 1 = d - 1
      BY <1>3, <2>4
    <3>2. /\ u \in Seq(Nat) /\ Len(u) = ((d - 1) - 1) + 1
          /\ \A i \in 1 .. ((d - 1) - 1) + 1 : u[i] = v[(1 + i) - 1]
      BY <1>2, <2>5, <3>1, PartFacts
    <3>3. \A i \in 1 .. d - 1 : (1 + i) - 1 = i
      BY <2>4
    <3> QED BY <3>1, <3>2, <3>3
  <2>7. ASSUME NEW j \in 1 .. d - 1 PROVE u[j] \in 0 .. n
    <3>1. j \in 1 .. N /\ j # N + 1 /\ ~(d <= j) /\ j \in 1 .. Len(v) + 1
      BY <1>3, <2>4
    <3>2. ~(v[j] > n)
      BY <1>3, <2>3, <3>1
    <3> QED BY <1>4, <2>6, <3>1, <3>2
  <2>8. ASSUME NEW i \in 1 .. d - 1, NEW j \in 1 .. d - 1, i < j PROVE u[i] < u[j]
    <3>1. i \in 1 .. N /\ j \in 1 .. N
      BY <2>4
    <3>2. v[i] < v[j] /\ v[i] \in Nat /\ v[j] \in Nat
      BY <1>4, <1>5, <2>8, <3>1
    <3>3. PICK a \in Nat, b \in Nat : a = v[i] /\ b = v[j]
      BY <3>2
    <3> QED BY <2>6, <3>2, <3>3
  <2>9. ASSUME NEW l \in 0 .. n, HasMember(v, l) PROVE HasMember(u, l)
    <3>1. PICK i \in 1 .. N : v[i] = l
      BY <1>3, <2>9 DEF HasMember
    <3>2. i < d
      <4>1. SUFFICES ASSUME ~(i < d) PROVE FALSE
        OBVIOUS
      <4>2. d \in 1 .. N /\ v[d] > n /\ (d < i \/ d = i)
        BY <2>4, <4>1
      <4>3. v[d] \in Nat /\ v[i] \in Nat /\ (d < i => v[d] < v[i])
        BY <1>4, <1>5, <4>2
      <4> QED BY <3>1, <4>2, <4>3
    <3>3. i \in 1 .. d - 1
      BY <2>4, <3>2
    <3> QED BY <2>6, <3>1, <3>3 DEF HasMember
  <2> QED BY <1>1, <2>6, <2>7, <2>8, <2>9
<1>7. CASE ~m_bWildCardPresent
  <2>1. PICK lb : lb = LowerBound(n)
    OBVIOUS
  <2>2. /\ lb \in 1 .. N + 1
        /\ \A i \in 1 .. lb - 1 : v[i] < n
        /\ \A i \in lb .. N : v[i] >= n
    BY <1>1, <1>3, <2>1, LowerBoundFacts
  <2>3. u = IF v = << >> \/ n > v[Len(v)] \/ lb > Len(v) THEN << >>
            ELSE IF v[lb] # n THEN << >> ELSE << n >>
    BY <1>1, <1>7, <2>1, Zenon DEF VisitedLengths
  <2>4. u = << >> \/ u = << n >>
    BY <2>3
  <2>5. /\ u \in Seq(Nat) /\ \A j \in 1 .. Len(u) : u[j] \in 0 .. n
        /\ \A i, j \in 1 .. Len(u) : i < j => u[i] < u[j]
    <3>1. CASE u = << >>
      BY <3>1
    <3>2. CASE u = << n >>
      BY <3>2
    <3> QED BY <2>4, <3>1, <3>2
  <2>6. ASSUME HasMember(v, n) PROVE HasMember(u, n)
    <3>1. PICK i \in 1 .. N : v[i] = n
      BY <1>3, <2>6 DEF HasMember
    <3>2. v # << >> /\ N \in 1 .. N
      BY <1>2, <1>3, <3>1
    <3>3. ~(n > v[N])
      <4>1. i < N \/ i = N
        BY <1>3, <3>1
      <4>2. v[N] \in Nat /\ (i < N => v[i] < v[N])
        BY <1>4, <1>5, <3>1, <3>2
      <4> QED BY <3>1, <4>1, <4>2
    <3>4. ~(i \in 1 .. lb - 1)
      BY <2>2, <3>1
    <3>5. lb \in 1 .. N /\ (lb < i \/ lb = i)
      BY <1>3, <2>2, <3>1, <3>4
    <3>6. v[lb] \in Nat /\ v[lb] >= n /\ (lb < i => v[lb] < v[i])
      BY <1>4, <1>5, <2>2, <3>5
    <3>7. v[lb] = n
      BY <3>1, <3>5, <3>6
    <3>8. u = << n >>
      BY <1>3, <2>3, <3>2, <3>3, <3>5, <3>7
    <3> QED BY <3>8 DEF HasMember
  <2> QED BY <1>1, <1>7, <2>5, <2>6
<1> QED BY <1>6, <1>7

-----------------------------------------------------------------------------
(* The whole search.                                                       *)

AllMatches(text) == {k \in 1 .. Len(registered) : MatchesText(k, text)}

\* The registrations found for the lengths u[1] .. u[i].
MatchesUpTo(u, i, text) ==
    {k \in 1 .. Len(registered) :
       \E j \in 1 .. i : k \in HashedMatches(u[j], text)}

\* What the main loop of Search collects, length by length.
CollectedBy(f, u, text) ==
    /\ f[0] = << >>
    /\ \A i \in 1 .. Len(u) : f[i] = f[i - 1] \o BucketHits(u[i], text)

\* The main loop, turn by turn.
LEMMA MainLoop ==
    ASSUME EInv, NEW text \in Strings, NEW u, u = VisitedLengths(Len(text)),
           ~Rejected(Len(text))
    PROVE  \E f : SearchInternal(text) = f[Len(u)] \o SlowHits(text) /\ CollectedBy(f, u, text)
<1>1. PICK m \in Nat : m = Len(text)
  BY DEF Strings
<1>2. u \in Seq(Nat) /\ \A j \in 1 .. Len(u) : u[j] \in 0 .. m
  BY <1>1, VisitedFacts
<1>3. PICK N \in Nat : N = Len(u)
  BY <1>2
<1> DEFINE More(i, r) == r \o BucketHits(u[i], text)
           Nil == << >>
<1>4. ASSUME NEW i \in 1 .. N, NEW r \in Seq(EntrySet) PROVE More(i, r) \in Seq(EntrySet)
  <2>1. u[i] \in 0 .. Len(text)
    BY <1>1, <1>2, <1>3
  <2>2. Answers(BucketHits(u[i], text), HashedMatches(u[i], text))
    BY <2>1, BucketHitsAnswer
  <2>3. PICK b : b = BucketHits(u[i], text)
    OBVIOUS
  <2>4. b \in Seq(EntrySet)
    BY <2>2, <2>3 DEF Answers
  <2>5. r \o b \in Seq(EntrySet)
    BY <2>4, JoinFacts
  <2> QED BY <2>3, <2>5
<1>5. Nil \in Seq(EntrySet)
  OBVIOUS
<1> HIDE DEF More, Nil
<1>6. PICK R : R = Seq(EntrySet)
  OBVIOUS
<1>7. PICK step : step = [i \in 1 .. N |-> [r \in R |-> More(i, r)]]
  OBVIOUS
<1>8. \A i \in 1 .. N : \A r \in R : step[i][r] = More(i, r)
  BY <1>7
<1>9. PICK g : Values(g, N, step, R, Nil)
  <2>1. Turns(N, step, R)
    BY <1>3, <1>4, <1>6, <1>8 DEF Turns
  <2>2. Nil \in R
    BY <1>5, <1>6
  <2> QED BY <2>1, <2>2, Upward
<1>10. ASSUME NEW i \in 0 .. N PROVE g[i] = IF i = 0 THEN Nil ELSE More(i, g[i - 1])
  <2>1. CASE i = 0
    BY <1>9, <2>1 DEF Values
  <2>2. CASE i # 0
    <3>1. i \in 1 .. N /\ i - 1 \in 0 .. N
      BY <1>3, <2>2
    <3>2. g[i - 1] \in R /\ g[i] = step[i][g[i - 1]]
      BY <1>9, <3>1 DEF Values
    <3> QED BY <1>8, <2>2, <3>1, <3>2
  <2> QED BY <2>1, <2>2
<1>11. g = [i \in 0 .. N |-> IF i = 0 THEN Nil ELSE More(i, g[i - 1])]
  <2>1. g = [i \in 0 .. N |-> g[i]]
    BY <1>9 DEF Values
  <2> QED BY <1>10, <2>1
<1>12. g = [i \in 0 .. Len(VisitedLengths(Len(text))) |-> IF i = 0 THEN << >>
              ELSE g[i - 1] \o BucketHits(VisitedLengths(Len(text))[i], text)]
  BY <1>3, <1>11, Zenon DEF Nil, More
<1>13. PICK f : /\ SearchInternal(text) = f[Len(VisitedLengths(Len(text)))] \o SlowHits(text)
                /\ f = [i \in 0 .. Len(VisitedLengths(Len(text))) |-> IF i = 0 THEN << >>
                          ELSE f[i - 1] \o BucketHits(VisitedLengths(Len(text))[i], text)]
  BY <1>12 DEF SearchInternal
<1>14. f = [i \in 0 .. N |-> IF i = 0 THEN Nil ELSE More(i, f[i - 1])]
  BY <1>3, <1>13, Zenon DEF Nil, More
<1>15. f[0] = Nil /\ \A i \in 1 .. N : f[i] = More(i, f[i - 1])
  BY <1>3, <1>14
<1>16. CollectedBy(f, u, text)
  BY <1>3, <1>15, Zenon DEF Nil, More, CollectedBy
<1> QED BY <1>13, <1>16

\* The main loop finds the matching registrations of all lengths visited.
LEMMA MainLoopAnswers ==
    ASSUME EInv, NEW text \in Strings, NEW u, u = VisitedLengths(Len(text)),
           NEW f, CollectedBy(f, u, text)
    PROVE  Answers(f[Len(u)], MatchesUpTo(u, Len(u), text))
<1>1. PICK m \in Nat : m = Len(text)
  BY DEF Strings
<1>2. /\ u \in Seq(Nat) /\ \A j \in 1 .. Len(u) : u[j] \in 0 .. m
      /\ \A i, j \in 1 .. Len(u) : i < j => u[i] < u[j]
  <2>1. u = VisitedLengths(m)
    BY <1>1
  <2>2. u \in Seq(Nat) /\ \A j \in 1 .. Len(u) : u[j] \in 0 .. m
    BY <2>1, VisitedFacts
  <2>3. \A i, j \in 1 .. Len(u) : i < j => u[i] < u[j]
    BY <2>1, VisitedFacts
  <2> QED BY <2>2, <2>3
<1>3. PICK N \in Nat : N = Len(u)
  BY <1>2
<1>4. f[0] = << >> /\ \A i \in 1 .. N : f[i] = f[i - 1] \o BucketHits(u[i], text)
  BY <1>3 DEF CollectedBy
<1> DEFINE G == {i \in 0 .. N : Answers(f[i], MatchesUpTo(u, i, text))}
<1>5. 0 \in G
  <2>1. MatchesUpTo(u, 0, text) = {}
    BY DEF MatchesUpTo
  <2>2. Answers(f[0], MatchesUpTo(u, 0, text))
    BY <1>4, <2>1, NoAnswer
  <2> QED BY <1>3, <2>2
<1>6. ASSUME NEW i \in 0 .. N - 1, i \in G PROVE i + 1 \in G
  <2>1. PICK k \in 1 .. N : k = i + 1 /\ k - 1 = i
    <3>1. i + 1 \in 1 .. N /\ (i + 1) - 1 = i
      BY <1>3
    <3> QED BY <3>1
  <2>2. PICK s, t : s = f[i] /\ t = BucketHits(u[k], text)
    OBVIOUS
  <2>3. Answers(s, MatchesUpTo(u, i, text))
    BY <1>6, <2>2
  <2>4. u[k] \in 0 .. Len(text)
    BY <1>1, <1>2, <1>3
  <2>5. Answers(t, HashedMatches(u[k], text))
    BY <2>2, <2>4, BucketHitsAnswer
  <2>6. \A x \in MatchesUpTo(u, i, text), y \in HashedMatches(u[k], text) : Precedes(registered, x, y)
    <3>1. ASSUME NEW x \in MatchesUpTo(u, i, text), NEW y \in HashedMatches(u[k], text)
          PROVE  Precedes(registered, x, y)
      <4>1. PICK j \in 1 .. i : x \in HashedMatches(u[j], text)
        BY DEF MatchesUpTo
      <4>2. /\ u[j] = PrefixLengthOf(registered, x) /\ u[k] = PrefixLengthOf(registered, y)
            /\ ~IsSlow(registered[x].pattern) /\ ~IsSlow(registered[y].pattern)
        BY <4>1 DEF HashedMatches, PrefixLengthOf
      <4>3. j \in 1 .. Len(u) /\ k \in 1 .. Len(u) /\ j < k
        BY <1>3, <2>1
      <4>4. u[j] < u[k]
        BY <1>2, <4>3
      <4> QED BY <4>2, <4>4 DEF Precedes
    <3> QED BY <3>1
  <2>7. Answers(s \o t, MatchesUpTo(u, i, text) \cup HashedMatches(u[k], text))
    BY <2>3, <2>5, <2>6, AnswersJoin
  <2>8. MatchesUpTo(u, k, text) = MatchesUpTo(u, i, text) \cup HashedMatches(u[k], text)
    <3>1. 1 .. k = 1 .. i \cup {k}
      BY <2>1
    <3>2. HashedMatches(u[k], text) \subseteq 1 .. Len(registered)
      BY DEF HashedMatches
    <3> QED BY <3>1, <3>2 DEF MatchesUpTo
  <2>9. f[k] = s \o t
    BY <1>4, <2>1, <2>2
  <2>10. Answers(f[k], MatchesUpTo(u, k, text))
    BY <2>7, <2>8, <2>9
  <2> QED BY <1>3, <2>1, <2>10
<1>7. N \in G
  <2> HIDE DEF G
  <2>1. \A i \in 0 .. N : i \in G
    BY <1>3, <1>5, <1>6, UpFromZero
  <2> QED BY <1>3, <2>1
<1> QED BY <1>3, <1>7

\* Nothing that matches is rejected, and every length that matters is visited.
LEMMA MatchReached ==
    ASSUME EInv, NEW text \in Strings, NEW k \in AllMatches(text)
    PROVE  /\ ~Rejected(Len(text))
           /\ ~IsSlow(registered[k].pattern) =>
                HasMember(VisitedLengths(Len(text)), Len(Prefix(registered[k].pattern)))
<1>1. k \in 1 .. Len(registered) /\ MatchesText(k, text)
  BY DEF AllMatches
<1>2. PICK pat, l : pat = registered[k].pattern /\ l = Len(Prefix(pat))
  OBVIOUS
<1>3. PICK m \in Nat : m = Len(text)
  BY DEF Strings
<1>4. PICK d : d = SuffixMinLength(Wildcards(m_bCaseInsensitive, pat))
  OBVIOUS
<1>5. /\ l \in 0 .. m /\ l + d <= m /\ d \in Nat
      /\ WildPart(pat) = << >> => l = m
  BY <1>1, <1>2, <1>3, <1>4, MatchSays
<1>6. /\ IsSlow(pat) => HasId(m_SlowPathList.data, k)
      /\ ~IsSlow(pat) => HasMember(m_LengthVec.data, l)
      /\ WildPart(pat) # << >> => m_bWildCardPresent
      /\ m_nGlobalMinMatchLength <= l + d
  BY <1>1, <1>2, <1>4 DEF EInv, AllReachable, Reachable
<1>7. /\ m_nPatternCount = Len(registered) /\ m_nGlobalMinMatchLength \in Nat
      /\ registered \in Seq(Registrations)
      /\ m_LengthVec.data \in Seq(Nat) /\ Sorted(m_LengthVec.data)
  BY DEF EInv, Recorded, TypeOK, Typed, Vectors
<1>8. m_nPatternCount # 0
  BY <1>1, <1>7
<1>9. ~(m < m_nGlobalMinMatchLength)
  BY <1>3, <1>5, <1>6, <1>7
<1>10. ASSUME m_SlowPathList.data = << >>
       PROVE  m_LengthVec.data # << >> /\ ~(m < m_LengthVec.data[1])
  <2>1. ~HasId(m_SlowPathList.data, k)
    BY <1>10 DEF HasId
  <2>2. PICK v : v = m_LengthVec.data
    OBVIOUS
  <2>3. v \in Seq(Nat) /\ HasMember(v, l)
    BY <1>6, <1>7, <2>1, <2>2
  <2>4. PICK i \in 1 .. Len(v) : v[i] = l
    BY <2>3 DEF HasMember
  <2>5. 1 \in 1 .. Len(v) /\ (1 < i \/ i = 1) /\ v[1] \in Nat /\ v # << >>
    BY <2>3, <2>4
  <2>6. 1 < i => v[1] < v[i]
    BY <1>7, <2>2, <2>4, <2>5 DEF Sorted
  <2> QED BY <1>3, <1>5, <2>2, <2>4, <2>5, <2>6
<1>11. ~Rejected(m)
  BY <1>8, <1>9, <1>10 DEF Rejected
<1>12. ASSUME ~IsSlow(pat) PROVE HasMember(VisitedLengths(m), l)
  <2>1. HasMember(m_LengthVec.data, l) /\ (m_bWildCardPresent \/ l = m)
    BY <1>5, <1>6, <1>12
  <2> QED BY <1>3, <1>5, <2>1, VisitedFacts
<1> QED BY <1>2, <1>3, <1>11, <1>12

\* Search finds the registrations that match, and no other, each once.
LEMMA SearchAnswers ==
    ASSUME EInv, NEW text \in Strings
    PROVE  Answers(SearchInternal(text), AllMatches(text))
<1>1. CASE Rejected(Len(text))
  <2>1. AllMatches(text) = {}
    BY <1>1, MatchReached
  <2>2. SearchInternal(text) = << >>
    BY <1>1, Zenon DEF SearchInternal
  <2> QED BY <2>1, <2>2, NoAnswer
<1>2. CASE ~Rejected(Len(text))
  <2>1. PICK u : u = VisitedLengths(Len(text))
    OBVIOUS
  <2>2. PICK f : SearchInternal(text) = f[Len(u)] \o SlowHits(text) /\ CollectedBy(f, u, text)
    BY <1>2, <2>1, MainLoop
  <2>3. PICK s, t : s = f[Len(u)] /\ t = SlowHits(text)
    OBVIOUS
  <2>4. Answers(s, MatchesUpTo(u, Len(u), text))
    BY <2>1, <2>2, <2>3, MainLoopAnswers
  <2>5. Answers(t, SlowMatches(text))
    BY <2>3, SlowHitsAnswer
  <2>6. \A k \in MatchesUpTo(u, Len(u), text), l \in SlowMatches(text) : Precedes(registered, k, l)
    BY DEF MatchesUpTo, HashedMatches, SlowMatches, Precedes
  <2>7. Answers(s \o t, MatchesUpTo(u, Len(u), text) \cup SlowMatches(text))
    BY <2>4, <2>5, <2>6, AnswersJoin
  <2>8. MatchesUpTo(u, Len(u), text) \cup SlowMatches(text) = AllMatches(text)
    <3>1. ASSUME NEW k \in AllMatches(text), ~IsSlow(registered[k].pattern)
          PROVE  k \in MatchesUpTo(u, Len(u), text)
      <4>1. HasMember(u, Len(Prefix(registered[k].pattern)))
        BY <2>1, <3>1, MatchReached
      <4>2. PICK j \in 1 .. Len(u) : u[j] = Len(Prefix(registered[k].pattern))
        BY <4>1 DEF HasMember
      <4>3. k \in HashedMatches(u[j], text)
        BY <3>1, <4>2 DEF HashedMatches, AllMatches
      <4> QED BY <3>1, <4>3 DEF MatchesUpTo, AllMatches
    <3>2. MatchesUpTo(u, Len(u), text) \subseteq AllMatches(text)
      BY DEF MatchesUpTo, HashedMatches, AllMatches
    <3>3. SlowMatches(text) \subseteq AllMatches(text)
      BY DEF SlowMatches, AllMatches
    <3>4. \A k \in AllMatches(text) : IsSlow(registered[k].pattern) => k \in SlowMatches(text)
      BY DEF SlowMatches, AllMatches
    <3> QED BY <3>1, <3>2, <3>3, <3>4
  <2> QED BY <2>2, <2>3, <2>7, <2>8
<1> QED BY <1>1, <1>2

-----------------------------------------------------------------------------
(* What a search returns.                                                  *)

\* The contexts of the registrations a text matches.
ExpectedOf(reg, mode, text) ==
    {r.context : r \in {x \in ToSet(reg) : Glob(x.pattern, text, x.scope, mode)}}

\* The sequence has the elements of the set, each once.
Enumerates(s, S) == s \in Seq(Nat) /\ ToSet(s) = S /\ Len(s) = Cardinality(S)

\* The contexts expected are those of the registrations that match.
LEMMA ExpectedIs ==
    ASSUME EInv, NEW text \in Strings, NEW S, S = ExpectedOf(registered, m_bCaseInsensitive, text)
    PROVE  /\ \A k \in AllMatches(text) : registered[k].context \in S
           /\ \A c \in S : \E k \in AllMatches(text) : registered[k].context = c
<1>1. registered \in Seq(Registrations)
  BY DEF EInv, Typed
<1>2. ToSet(registered) = {registered[k] : k \in 1 .. Len(registered)}
  BY <1>1 DEF ToSet
<1>3. ASSUME NEW k \in AllMatches(text) PROVE registered[k].context \in S
  BY <1>2 DEF AllMatches, MatchesText, ExpectedOf
<1>4. ASSUME NEW c \in S PROVE \E k \in AllMatches(text) : registered[k].context = c
  <2>1. PICK r \in ToSet(registered) : r.context = c /\ Glob(r.pattern, text, r.scope, m_bCaseInsensitive)
    BY DEF ExpectedOf
  <2>2. PICK k \in 1 .. Len(registered) : r = registered[k]
    BY <1>2, <2>1
  <2>3. k \in AllMatches(text)
    BY <2>1, <2>2 DEF AllMatches, MatchesText
  <2> QED BY <2>1, <2>2, <2>3
<1> QED BY <1>3, <1>4

\* The contexts found are those expected, each once.
LEMMA HitsExact ==
    ASSUME EInv, NEW text \in Strings
    PROVE  Enumerates(Contexts(SearchInternal(text)),
                      ExpectedOf(registered, m_bCaseInsensitive, text))
<1>1. PICK s : s = SearchInternal(text)
  OBVIOUS
<1>2. Answers(s, AllMatches(text))
  BY <1>1, SearchAnswers
<1>3. /\ s \in Seq(EntrySet)
      /\ \A j \in 1 .. Len(s) : KnownHere(s[j]) /\ s[j].Id \in AllMatches(text)
      /\ \A k \in AllMatches(text) : \E j \in 1 .. Len(s) : s[j].Id = k
      /\ \A i, j \in 1 .. Len(s) : i < j => Precedes(registered, s[i].Id, s[j].Id)
  BY <1>2 DEF Answers
<1>4. PICK n \in Nat : n = Len(s)
  BY <1>3
<1>5. PICK S : S = ExpectedOf(registered, m_bCaseInsensitive, text)
  OBVIOUS
<1>6. /\ \A k \in AllMatches(text) : registered[k].context \in S
      /\ \A c \in S : \E k \in AllMatches(text) : registered[k].context = c
  BY <1>5, ExpectedIs
<1>7. PICK t : t = Contexts(s)
  OBVIOUS
<1>8. t = [i \in 1 .. n |-> m_ContextArena[s[i].ContextIndex]]
  <2>1. DOMAIN s = 1 .. n
    BY <1>3, <1>4
  <2> QED BY <1>7, <2>1 DEF Contexts
<1>9. ASSUME NEW i \in 1 .. n
      PROVE  t[i] = registered[s[i].Id].context /\ s[i].Id \in AllMatches(text)
  <2>1. KnownHere(s[i]) /\ s[i].Id \in AllMatches(text)
    BY <1>3, <1>4
  <2>2. m_ContextArena[s[i].ContextIndex] = registered[s[i].Id].context
    BY <2>1 DEF KnownHere, Known, Describes
  <2> QED BY <1>8, <2>1, <2>2
<1>10. /\ registered \in Seq(Registrations)
       /\ \A k, l \in 1 .. Len(registered) :
            k < l => registered[k].context < registered[l].context
  BY DEF EInv, Typed, Recorded
<1>11. \A k \in 1 .. Len(registered) : registered[k].context \in Nat
  <2>1. \A k \in 1 .. Len(registered) : registered[k] \in Registrations
    BY <1>10
  <2> QED BY <2>1 DEF Registrations
<1>12. \A k \in AllMatches(text) : k \in 1 .. Len(registered)
  BY DEF AllMatches
<1>13. \A i \in 1 .. n : t[i] \in Nat /\ t[i] \in S
  BY <1>6, <1>9, <1>11, <1>12
<1>14. t \in Seq(Nat) /\ Len(t) = n /\ DOMAIN t = 1 .. n
  <2>1. t = [i \in 1 .. n |-> t[i]]
    BY <1>8
  <2> QED BY <1>4, <1>13, <2>1
<1>15. \A c \in S : \E i \in 1 .. n : t[i] = c
  <2>1. ASSUME NEW c \in S PROVE \E i \in 1 .. n : t[i] = c
    <3>1. PICK k \in AllMatches(text) : registered[k].context = c
      BY <1>6
    <3>2. PICK i \in 1 .. n : s[i].Id = k
      BY <1>3, <1>4
    <3> QED BY <1>9, <3>1, <3>2
  <2> QED BY <2>1
<1>16. ASSUME NEW i \in 1 .. n, NEW j \in 1 .. n, i < j PROVE t[i] # t[j]
  <2>1. PICK k, l : k = s[i].Id /\ l = s[j].Id
    OBVIOUS
  <2>2. k \in 1 .. Len(registered) /\ l \in 1 .. Len(registered) /\ k # l
    <3>1. k \in 1 .. Len(registered) /\ l \in 1 .. Len(registered) /\ Precedes(registered, k, l)
      BY <1>3, <1>4, <1>9, <1>12, <1>16, <2>1
    <3> QED BY <1>10, <3>1, PrecedesStrict
  <2>3. PICK a \in Nat, b \in Nat : a = registered[k].context /\ b = registered[l].context
    BY <1>11, <2>2
  <2>4. k < l \/ l < k
    BY <1>10, <2>2
  <2>5. a < b \/ b < a
    BY <1>10, <2>2, <2>3, <2>4
  <2>6. a # b
    BY <2>5
  <2> QED BY <1>9, <2>1, <2>3, <2>6
<1>17. ToSet(t) = S
  BY <1>13, <1>14, <1>15 DEF ToSet
<1>18. Cardinality(S) = n
  <2>1. t \in [1 .. n -> S]
    BY <1>8, <1>13
  <2>2. \A i, j \in 1 .. n : t[i] = t[j] => i = j
    BY <1>4, <1>16
  <2>3. IsInjective(t)
    BY <1>14, <2>2 DEF IsInjective
  <2>4. t \in Bijection(1 .. n, S)
    BY <1>15, <2>1, <2>3 DEF Bijection, Injection, Surjection
  <2>5. ExistsBijection(1 .. n, S)
    BY <2>4 DEF ExistsBijection
  <2> QED BY <1>4, <2>5, FS_CountingElements
<1> QED BY <1>1, <1>5, <1>7, <1>14, <1>17, <1>18 DEF Enumerates

\* What the three invariants say of the result o of a call.
Exactly(o, S)  == ToSet(o.found) = S /\ Len(o.found) = Cardinality(S)
Partly(o, S)   == ToSet(o.found) \subseteq S /\ Len(o.found) < Cardinality(S)
OneIfAny(o, S) == ToSet(o.found) \subseteq S /\ (o.found = << >> <=> S = {})

AnswerOK(o, reg, mode) ==
    /\ o.op = "all" /\ o.status = "STATUS_SUCCESS"
         => Exactly(o, ExpectedOf(reg, mode, o.text))
    /\ o.op = "all" /\ o.status = "STATUS_INSUFFICIENT_RESOURCES"
         => Partly(o, ExpectedOf(reg, mode, o.text))
    /\ o.op = "first" /\ o.status = "STATUS_SUCCESS"
         => OneIfAny(o, ExpectedOf(reg, mode, o.text))

StartOf(t, S, n) == ToSet(t) \subseteq S /\ Len(t) = n /\ t \in Seq(Nat)

\* A part of an exact answer is sound.
LEMMA FirstPart ==
    ASSUME NEW s, NEW S, Enumerates(s, S), NEW n \in 0 .. Len(s), NEW t, t = SubSeq(s, 1, n)
    PROVE  StartOf(t, S, n) /\ (Len(s) = 0 <=> S = {})
<1>1. s \in Seq(Nat) /\ ToSet(s) = S /\ Len(s) = Cardinality(S)
  BY DEF Enumerates
<1>2. PICK m \in Nat : m = Len(s)
  BY <1>1
<1>3. 1 \in 1 .. Len(s) + 1 /\ n \in 1 - 1 .. Len(s) /\ (n - 1) + 1 = n
  BY <1>2
<1>4. /\ t \in Seq(Nat) /\ Len(t) = (n - 1) + 1
      /\ \A i \in 1 .. (n - 1) + 1 : t[i] = s[(1 + i) - 1]
  BY <1>1, <1>3, PartFacts
<1>5. \A i \in 1 .. n : i \in 1 .. m /\ t[i] = s[i]
  <2>1. ASSUME NEW i \in 1 .. n PROVE i \in 1 .. m /\ (1 + i) - 1 = i
    BY <1>2
  <2> QED BY <1>3, <1>4, <2>1
<1>6. S = {s[i] : i \in 1 .. m}
  BY <1>1, <1>2 DEF ToSet
<1>7. ToSet(t) = {t[i] : i \in 1 .. n}
  <2>1. DOMAIN t = 1 .. n
    BY <1>3, <1>4
  <2> QED BY <2>1 DEF ToSet
<1>8. ToSet(t) \subseteq S
  BY <1>5, <1>6, <1>7
<1>9. m = 0 <=> S = {}
  <2>1. m # 0 => 1 \in 1 .. m
    BY <1>2
  <2>2. m = 0 => 1 .. m = {}
    BY <1>2
  <2> QED BY <1>6, <2>1, <2>2
<1> QED BY <1>1, <1>2, <1>3, <1>4, <1>8, <1>9 DEF StartOf

\* Both searches hand back what their properties say.
LEMMA AnswersAreExact ==
    ASSUME EInv, NEW text \in Texts
    PROVE  /\ SearchFirst(text) => AnswerOK(out', registered, m_bCaseInsensitive)
           /\ SearchAll(text) => AnswerOK(out', registered, m_bCaseInsensitive)
<1>1. text \in Strings
  BY StringsAssumption DEF Strings
<1>2. PICK S : S = ExpectedOf(registered, m_bCaseInsensitive, text)
  OBVIOUS
<1>3. PICK hits : hits = Contexts(SearchInternal(text))
  OBVIOUS
<1>4. Enumerates(hits, S)
  BY <1>1, <1>2, <1>3, HitsExact
<1>5. hits \in Seq(Nat) /\ ToSet(hits) = S /\ Len(hits) = Cardinality(S) /\ Len(hits) \in Nat
  BY <1>4 DEF Enumerates
<1>6. ASSUME SearchFirst(text) PROVE AnswerOK(out', registered, m_bCaseInsensitive)
  <2>1. PICK t : t = SubSeq(hits, 1, Min({1, Len(hits)}))
    OBVIOUS
  <2>2. out' = [op |-> "first", text |-> text, status |-> "STATUS_SUCCESS", found |-> t]
    BY <1>3, <1>6, <2>1 DEF SearchFirst, SearchReturns
  <2>3. PICK m : m = Min({1, Len(hits)})
    OBVIOUS
  <2>4. m \in {1, Len(hits)} /\ m <= 1 /\ m <= Len(hits)
    <3>1. {1, Len(hits)} \subseteq Nat /\ {1, Len(hits)} # {}
      BY <1>5
    <3>2. m \in {1, Len(hits)} /\ \A x \in {1, Len(hits)} : m <= x
      BY <2>3, <3>1, MinFacts
    <3> QED BY <3>2
  <2>5. m \in 0 .. Len(hits) /\ (m = 0 <=> Len(hits) = 0)
    BY <1>5, <2>4
  <2>6. /\ ToSet(t) \subseteq S /\ Len(t) = m /\ t \in Seq(Nat)
        /\ Len(hits) = 0 <=> S = {}
    <3>1. t = SubSeq(hits, 1, m)
      BY <2>1, <2>3
    <3>2. StartOf(t, S, m) /\ (Len(hits) = 0 <=> S = {})
      BY <1>4, <2>5, <3>1, FirstPart
    <3> QED BY <3>2 DEF StartOf
  <2>7. t = << >> <=> S = {}
    BY <2>5, <2>6
  <2>8. PICK o : o = out'
    OBVIOUS
  <2>9. o.op = "first" /\ o.text = text /\ o.found = t
    BY <2>2, <2>8
  <2>10. OneIfAny(o, S)
    BY <2>6, <2>7, <2>9 DEF OneIfAny
  <2>11. AnswerOK(o, registered, m_bCaseInsensitive)
    BY <1>2, <2>9, <2>10 DEF AnswerOK
  <2> QED BY <2>8, <2>11
<1>7. ASSUME SearchAll(text) PROVE AnswerOK(out', registered, m_bCaseInsensitive)
  <2>1. CollectAll(text, hits, {n \in GrowthSizes : n < Len(hits)})
    BY <1>3, <1>7 DEF SearchAll
  <2>2. PICK o : o = out'
    OBVIOUS
  <2>3. CASE SearchReturns("all", text, "STATUS_SUCCESS", hits)
    <3>1. o = [op |-> "all", text |-> text, status |-> "STATUS_SUCCESS", found |-> hits]
      BY <2>2, <2>3 DEF SearchReturns
    <3>2. o.op = "all" /\ o.text = text /\ o.status = "STATUS_SUCCESS" /\ o.found = hits
      BY <3>1
    <3>3. Exactly(o, S)
      BY <1>5, <3>2 DEF Exactly
    <3>4. AnswerOK(o, registered, m_bCaseInsensitive)
      BY <1>2, <3>2, <3>3 DEF AnswerOK
    <3> QED BY <2>2, <3>4
  <2>4. ASSUME NEW n \in {k \in GrowthSizes : k < Len(hits)},
               SearchReturns("all", text, "STATUS_INSUFFICIENT_RESOURCES", SubSeq(hits, 1, n))
        PROVE  AnswerOK(out', registered, m_bCaseInsensitive)
    <3>1. PICK t : t = SubSeq(hits, 1, n)
      OBVIOUS
    <3>2. o = [op |-> "all", text |-> text, status |-> "STATUS_INSUFFICIENT_RESOURCES", found |-> t]
      BY <2>2, <2>4, <3>1 DEF SearchReturns
    <3>3. o.op = "all" /\ o.text = text /\ o.status = "STATUS_INSUFFICIENT_RESOURCES" /\ o.found = t
      BY <3>2
    <3>4. n \in 0 .. Len(hits) /\ n < Len(hits)
      <4>1. n \in Nat
        BY SizeAssumption DEF GrowthSizes, ComputeNextCapacity
      <4> QED BY <1>5, <2>4, <4>1
    <3>5. ToSet(t) \subseteq S /\ Len(t) = n
      BY <1>4, <3>1, <3>4, FirstPart DEF StartOf
    <3>6. Partly(o, S)
      BY <1>5, <3>3, <3>4, <3>5 DEF Partly
    <3>7. AnswerOK(o, registered, m_bCaseInsensitive)
      BY <1>2, <3>3, <3>6 DEF AnswerOK
    <3> QED BY <2>2, <3>7
  <2> QED BY <2>1, <2>3, <2>4 DEF CollectAll
<1> QED BY <1>6, <1>7

\* Only a search leaves a result with contexts.
LEMMA OtherCalls ==
    ASSUME Next
    PROVE  \/ \E text \in Texts : SearchFirst(text) \/ SearchAll(text)
           \/ \A reg, mode : AnswerOK(out', reg, mode)
<1>1. PICK o : o = out'
  OBVIOUS
<1>2. ASSUME o.op \in {"add", "clear", "none"} \/ o.status = "STATUS_INVALID_PARAMETER"
      PROVE  \A reg, mode : AnswerOK(out', reg, mode)
  BY <1>1, <1>2 DEF AnswerOK
<1>3. ASSUME NEW status, AddReturns(status) PROVE o.op = "add"
  BY <1>1, <1>3 DEF AddReturns
<1>4. CASE AddPattern
  <2>1. ASSUME NEW pat, NEW scope,
               \/ AddFailsEarly(pat) \/ AddFailsLate(pat)
               \/ AddSlow(pat, scope) \/ AddHashed(pat, scope)
        PROVE  o.op = "add"
    <3>1. \E status : AddReturns(status)
      BY <2>1 DEF AddFailsEarly, AddFailsLate, AddSlow, AddHashed, Added
    <3> QED BY <1>3, <3>1
  <2>2. AddInvalid => o.op = "add"
    BY <1>1 DEF AddInvalid
  <2>3. AddOverLimit => o.op = "add"
    BY <1>3 DEF AddOverLimit
  <2>4. o.op = "add"
    BY <1>4, <2>1, <2>2, <2>3 DEF AddPattern
  <2> QED BY <1>2, <2>4
<1>5. CASE Clear
  <2>1. o.op = "clear"
    BY <1>1, <1>5 DEF Clear
  <2> QED BY <1>2, <2>1
<1>6. CASE SearchInvalid
  <2>1. o.status = "STATUS_INVALID_PARAMETER"
    BY <1>1, <1>6 DEF SearchInvalid, SearchReturns
  <2> QED BY <1>2, <2>1
<1>7. CASE Return
  <2>1. o.op = "none"
    BY <1>1, <1>7 DEF Return, NoResult
  <2> QED BY <1>2, <2>1
<1> QED BY <1>4, <1>5, <1>6, <1>7 DEF Next, Search

OutExact == AnswerOK(out, registered, m_bCaseInsensitive)

\* No search has returned yet.
LEMMA OutExactStarts == Init => OutExact
  BY DEF Init, NoResult, OutExact, AnswerOK

\* A result stays right until it is given up.
LEMMA OutExactStep == EInv /\ OutExact /\ [Next]_vars => OutExact'
<1> SUFFICES ASSUME EInv, OutExact, [Next]_vars PROVE OutExact'
  OBVIOUS
<1>1. CASE UNCHANGED vars
  BY <1>1 DEF vars, OutExact
<1>2. ASSUME NEW text \in Texts, SearchFirst(text) \/ SearchAll(text) PROVE OutExact'
  <2>1. AnswerOK(out', registered, m_bCaseInsensitive)
    BY <1>2, AnswersAreExact
  <2>2. UNCHANGED << registered, m_bCaseInsensitive >>
    BY <1>2 DEF SearchFirst, SearchAll, CollectAll, SearchReturns
  <2> QED BY <2>1, <2>2 DEF OutExact
<1>3. CASE Next
  BY <1>2, <1>3, OtherCalls DEF OutExact
<1> QED BY <1>1, <1>3

\* What the three properties of Search ask for.
LEMMA OutExactMeans == OutExact => SearchExact /\ PartialSearchSound /\ FirstExact
<1> SUFFICES ASSUME OutExact PROVE SearchExact /\ PartialSearchSound /\ FirstExact
  OBVIOUS
<1>1. Expected(out.text) = ExpectedOf(registered, m_bCaseInsensitive, out.text)
  BY DEF Expected, ExpectedOf
<1>2. AnswerOK(out, registered, m_bCaseInsensitive)
  BY DEF OutExact
<1> QED BY <1>1, <1>2 DEF AnswerOK, Exactly, Partly, OneIfAny,
                           SearchExact, PartialSearchSound, FirstExact, Found

\* Every result a search hands back is right, in every state.
LEMMA OutExactHolds == Spec => []OutExact
<1>1. Init => OutExact
  BY OutExactStarts
<1>2. EInv /\ OutExact /\ [Next]_vars => OutExact'
  BY OutExactStep
<1> QED BY <1>1, <1>2, EngineInvariant, PTL DEF Spec

\* A full search returns the context of every registered pattern that the text
\* matches, of no other one, and each once (SearchExact).
THEOREM SearchExactHolds == Spec => []SearchExact
  BY OutExactHolds, OutExactMeans, PTL

\* A search that runs out of memory returns a proper part of that answer
\* (PartialSearchSound).
THEOREM PartialSearchSoundHolds == Spec => []PartialSearchSound
  BY OutExactHolds, OutExactMeans, PTL

\* A first-match search returns a context of that answer, and none only if it
\* is empty (FirstExact).
THEOREM FirstExactHolds == Spec => []FirstExact
  BY OutExactHolds, OutExactMeans, PTL

-----------------------------------------------------------------------------
(* Failed calls.                                                           *)

\* s holds, of the entries E, the one of every registration in K, in order.
Ordered(s, K, E, reg) ==
    /\ s \in Seq(EntrySet)
    /\ \A j \in 1 .. Len(s) : s[j] \in E /\ s[j].Id \in K
    /\ \A k \in K : \E j \in 1 .. Len(s) : s[j].Id = k
    /\ \A i, j \in 1 .. Len(s) : i < j => Precedes(reg, s[i].Id, s[j].Id)

OneEach(E) == \A d, e \in E : d.Id = e.Id => d = e

\* Two such answers agree from the start on.
LEMMA OrderedPart ==
    ASSUME NEW reg \in Seq(Registrations), NEW K \in SUBSET (1 .. Len(reg)), NEW E, OneEach(E),
           NEW s, Ordered(s, K, E, reg), NEW t, Ordered(t, K, E, reg)
    PROVE  Extends(s, t)
<1>1. PICK m \in Nat, n \in Nat : m = Len(s) /\ n = Len(t)
  BY DEF Ordered
<1>2. /\ \A j \in 1 .. m : s[j] \in E /\ s[j].Id \in K
      /\ \A k \in K : \E j \in 1 .. m : s[j].Id = k
      /\ \A i, j \in 1 .. m : i < j => Precedes(reg, s[i].Id, s[j].Id)
  BY <1>1 DEF Ordered
<1>3. /\ \A j \in 1 .. n : t[j] \in E /\ t[j].Id \in K
      /\ \A k \in K : \E j \in 1 .. n : t[j].Id = k
      /\ \A i, j \in 1 .. n : i < j => Precedes(reg, t[i].Id, t[j].Id)
  BY <1>1 DEF Ordered
<1>4. \A k, l \in K : Precedes(reg, k, l) => k # l /\ ~Precedes(reg, l, k)
  BY PrecedesStrict
<1> DEFINE G == {i \in 0 .. m : i <= n /\ \A k \in 1 .. i : s[k] = t[k]}
<1>5. 0 \in G
  OBVIOUS
<1>6. ASSUME NEW i \in 0 .. m - 1, i \in G PROVE i + 1 \in G
  <2>1. PICK h \in 1 .. m : h = i + 1
    OBVIOUS
  <2>2. h - 1 <= n /\ \A k \in 1 .. h - 1 : s[k] = t[k]
    BY <1>6, <2>1
  <2>3. PICK j \in 1 .. n : t[j].Id = s[h].Id
    BY <1>2, <1>3
  <2>4. j >= h
    <3>1. CASE j < h
      <4>1. j \in 1 .. m /\ j \in 1 .. h - 1
        BY <3>1
      <4>2. s[j] = t[j] /\ Precedes(reg, s[j].Id, s[h].Id)
        BY <1>2, <2>2, <3>1, <4>1
      <4>3. s[j].Id \in K /\ s[h].Id \in K /\ s[j].Id = s[h].Id
        BY <1>2, <2>3, <4>1, <4>2
      <4> QED BY <1>4, <4>2, <4>3
    <3> QED BY <3>1
  <2>5. h \in 1 .. n
    BY <2>4
  <2>6. PICK l \in 1 .. m : s[l].Id = t[h].Id
    BY <1>2, <1>3, <2>5
  <2>7. l >= h
    <3>1. CASE l < h
      <4>1. l \in 1 .. n /\ l \in 1 .. h - 1
        BY <3>1, <2>5
      <4>2. s[l] = t[l] /\ Precedes(reg, t[l].Id, t[h].Id)
        BY <1>3, <2>2, <2>5, <3>1, <4>1
      <4>3. t[l].Id \in K /\ t[h].Id \in K /\ t[l].Id = t[h].Id
        BY <1>3, <2>5, <2>6, <4>1, <4>2
      <4> QED BY <1>4, <4>2, <4>3
    <3> QED BY <3>1
  <2>8. s[h].Id = t[h].Id
    <3>1. CASE j > h /\ l > h
      <4>1. Precedes(reg, t[h].Id, s[h].Id)
        BY <1>3, <2>3, <2>5, <3>1
      <4>2. Precedes(reg, s[h].Id, t[h].Id)
        BY <1>2, <2>6, <3>1
      <4> QED BY <1>2, <1>3, <1>4, <2>5, <4>1, <4>2
    <3>2. CASE j = h
      BY <2>3, <3>2
    <3>3. CASE l = h
      BY <2>6, <3>3
    <3> QED BY <2>4, <2>7, <3>1, <3>2, <3>3
  <2>9. s[h] = t[h]
    BY <1>2, <1>3, <2>5, <2>8 DEF OneEach
  <2>10. \A k \in 1 .. h : s[k] = t[k]
    <3>1. \A k \in 1 .. h : k = h \/ k \in 1 .. h - 1
      OBVIOUS
    <3> QED BY <2>2, <2>9, <3>1
  <2>11. h \in G
    BY <2>5, <2>10
  <2> QED BY <2>1, <2>11
<1> HIDE DEF G
<1>7. \A i \in 0 .. m : i \in G
  BY <1>5, <1>6, UpFromZero
<1>8. m \in G
  BY <1>7
<1>9. m <= n /\ \A k \in 1 .. m : t[k] = s[k]
  BY <1>8 DEF G
<1> QED BY <1>1, <1>9 DEF Extends

\* So an answer is determined by what matches, the entries and their order.
LEMMA OrderedSame ==
    ASSUME NEW reg \in Seq(Registrations), NEW K \in SUBSET (1 .. Len(reg)), NEW E, OneEach(E),
           NEW s, Ordered(s, K, E, reg), NEW t, Ordered(t, K, E, reg)
    PROVE  s = t
<1>1. Extends(s, t) /\ Extends(t, s)
  BY OrderedPart
<1>2. s \in Seq(EntrySet) /\ t \in Seq(EntrySet)
  BY DEF Ordered
<1>3. PICK m \in Nat, n \in Nat : m = Len(s) /\ n = Len(t)
  BY <1>2
<1>4. m = n /\ \A i \in 1 .. m : t[i] = s[i]
  BY <1>1, <1>3 DEF Extends
<1>5. s = [i \in 1 .. m |-> s[i]] /\ t = [i \in 1 .. n |-> t[i]]
  BY <1>2, <1>3
<1> QED BY <1>4, <1>5

\* No registration has two entries.
LEMMA EntriesOnce == EInv => OneEach(Entries)
<1> SUFFICES ASSUME EInv, NEW d \in Entries, NEW e \in Entries, d.Id = e.Id PROVE d = e
  BY DEF OneEach
<1>1. ASSUME NEW data, ListedHere(data), NEW x \in ToSet(data), NEW y \in ToSet(data), x.Id = y.Id
      PROVE  x = y
  <2>1. /\ data \in Seq(EntrySet)
        /\ \A i, j \in 1 .. Len(data) : i < j => data[i].Id < data[j].Id
    BY <1>1 DEF ListedHere, Listed
  <2>2. PICK n \in Nat : n = Len(data) /\ DOMAIN data = 1 .. n
    BY <2>1
  <2>3. PICK i \in 1 .. n, j \in 1 .. n : x = data[i] /\ y = data[j]
    BY <1>1, <2>2 DEF ToSet
  <2>4. data[i].Id \in Nat /\ data[j].Id \in Nat
    <3>1. x \in EntrySet /\ y \in EntrySet
      BY <2>1, <2>2, <2>3
    <3> QED BY <2>3, <3>1 DEF EntrySet
  <2>5. i = j
    BY <1>1, <2>1, <2>2, <2>3, <2>4
  <2> QED BY <2>3, <2>5
<1>2. ASSUME NEW x \in ToSet(m_SlowPathList.data)
      PROVE  IsSlow(registered[x.Id].pattern)
  <2>1. PICK data : data = m_SlowPathList.data /\ ListedHere(data) /\ AllSlow(data, registered)
    BY DEF EInv, SlowIndexed
  <2>2. DOMAIN data = 1 .. Len(data)
    BY <2>1 DEF ListedHere, Listed
  <2> QED BY <1>2, <2>1, <2>2 DEF ToSet, AllSlow
<1>3. ASSUME NEW h \in DOMAIN m_HashMap.buckets, NEW x \in ToSet(m_HashMap.buckets[h].data)
      PROVE  /\ ~IsSlow(registered[x.Id].pattern)
             /\ Hash(Fold(m_bCaseInsensitive, Prefix(registered[x.Id].pattern))) = h
  <2>1. PICK data : /\ data = m_HashMap.buckets[h].data /\ ListedHere(data)
                    /\ AllHashed(data, registered, m_bCaseInsensitive, h)
    BY DEF EInv, HashIndexed
  <2>2. DOMAIN data = 1 .. Len(data)
    BY <2>1 DEF ListedHere, Listed
  <2> QED BY <1>3, <2>1, <2>2 DEF ToSet, AllHashed
<1>4. CASE d \in ToSet(m_SlowPathList.data) /\ e \in ToSet(m_SlowPathList.data)
  <2>1. ListedHere(m_SlowPathList.data)
    BY DEF EInv, SlowIndexed
  <2> QED BY <1>1, <1>4, <2>1
<1>5. CASE d \in BucketEntries /\ e \in BucketEntries
  <2>1. PICK h \in DOMAIN m_HashMap.buckets : d \in ToSet(m_HashMap.buckets[h].data)
    BY <1>5 DEF BucketEntries
  <2>2. PICK k \in DOMAIN m_HashMap.buckets : e \in ToSet(m_HashMap.buckets[k].data)
    BY <1>5 DEF BucketEntries
  <2>3. h = k
    BY <1>3, <2>1, <2>2
  <2>4. ListedHere(m_HashMap.buckets[h].data)
    BY DEF EInv, HashIndexed
  <2> QED BY <1>1, <2>1, <2>2, <2>3, <2>4
<1>6. ASSUME NEW x \in BucketEntries PROVE ~IsSlow(registered[x.Id].pattern)
  <2>1. PICK h \in DOMAIN m_HashMap.buckets : x \in ToSet(m_HashMap.buckets[h].data)
    BY <1>6 DEF BucketEntries
  <2> QED BY <1>3, <2>1
<1> QED BY <1>2, <1>4, <1>5, <1>6 DEF Entries

MatchesOf(reg, mode, text) ==
    {k \in 1 .. Len(reg) : Glob(reg[k].pattern, text, reg[k].scope, mode)}

SearchesOrdered ==
    \A text \in Strings :
      Ordered(SearchInternal(text), MatchesOf(registered, m_bCaseInsensitive, text),
              Entries, registered)

\* Every search is such an answer.
LEMMA SearchIsOrdered == EInv => SearchesOrdered
<1> SUFFICES ASSUME EInv, NEW text \in Strings
             PROVE  Ordered(SearchInternal(text), MatchesOf(registered, m_bCaseInsensitive, text),
                            Entries, registered)
  BY DEF SearchesOrdered
<1>1. PICK s, K : s = SearchInternal(text) /\ K = MatchesOf(registered, m_bCaseInsensitive, text)
  OBVIOUS
<1>2. K = AllMatches(text)
  BY <1>1 DEF AllMatches, MatchesOf, MatchesText
<1>3. Answers(s, K)
  BY <1>1, <1>2, SearchAnswers
<1>4. Ordered(s, K, Entries, registered)
  BY <1>3 DEF Answers, Ordered
<1> QED BY <1>1, <1>4

FailedAdd == out'.op = "add" /\ out'.status # "STATUS_SUCCESS"

\* What a failed AddPattern leaves behind holds no entry.
LEMMA FailedAddKeeps ==
    ASSUME EInv, Next, FailedAdd
    PROVE  /\ registered' = registered /\ m_bCaseInsensitive' = m_bCaseInsensitive
           /\ m_StringArena' = m_StringArena /\ Entries' = Entries
<1>1. AddPattern
  <2>1. CASE Clear
    BY <2>1 DEF Clear, FailedAdd
  <2>2. CASE Search
    <3>1. ASSUME NEW op \in {"first", "all"}, NEW text, NEW status, NEW found,
                 SearchReturns(op, text, status, found)
          PROVE  FALSE
      <4>1. out'.op = op
        BY <3>1 DEF SearchReturns
      <4> QED BY <4>1 DEF FailedAdd
    <3>2. CASE SearchInvalid
      BY <3>1, <3>2 DEF SearchInvalid
    <3>3. ASSUME NEW text \in Texts, SearchFirst(text) PROVE FALSE
      BY <3>1, <3>3 DEF SearchFirst
    <3>4. ASSUME NEW text \in Texts, SearchAll(text) PROVE FALSE
      BY <3>1, <3>4 DEF SearchAll, CollectAll
    <3> QED BY <2>2, <3>2, <3>3, <3>4 DEF Search
  <2>3. CASE Return
    BY <2>3 DEF Return, NoResult, FailedAdd
  <2> QED BY <2>1, <2>2, <2>3 DEF Next
<1>2. CASE AddInvalid \/ AddOverLimit
  BY <1>2 DEF AddInvalid, AddOverLimit, AddReturns, index, Entries, BucketEntries
<1>3. ASSUME NEW pat \in Patterns, AddFailsEarly(pat)
      PROVE  /\ registered' = registered /\ m_bCaseInsensitive' = m_bCaseInsensitive
             /\ m_StringArena' = m_StringArena /\ Entries' = Entries
  <2>1. m_StringArena' = m_StringArena
    BY <1>3, WrittenFacts DEF EInv, AddFailsEarly
  <2> QED BY <1>3, <2>1 DEF AddFailsEarly, AddReturns, Entries, BucketEntries
<1>4. ASSUME NEW pat \in Patterns, AddFailsLate(pat)
      PROVE  /\ registered' = registered /\ m_bCaseInsensitive' = m_bCaseInsensitive
             /\ m_StringArena' = m_StringArena /\ Entries' = Entries
  <2>1. /\ m_StringArena' = m_StringArena /\ registered' = registered
        /\ m_bCaseInsensitive' = m_bCaseInsensitive /\ m_SlowPathList' = m_SlowPathList
    BY <1>4, WrittenFacts DEF EInv, AddFailsLate, AddReturns
  <2>2. m_HashMap' = m_HashMap \/ m_HashMap' = GetOrInsert(HashOf(pat))
    BY <1>4 DEF AddFailsLate
  <2>3. CASE m_HashMap' = m_HashMap
    BY <2>1, <2>3 DEF Entries, BucketEntries
  <2>4. CASE m_HashMap' = GetOrInsert(HashOf(pat))
    <3>1. PICK A, B : A = m_HashMap.buckets /\ B = GetOrInsert(HashOf(pat)).buckets
      OBVIOUS
    <3>2. /\ DOMAIN A \subseteq DOMAIN B
          /\ \A k \in DOMAIN B : /\ k \in DOMAIN A => B[k] = A[k]
                                 /\ k \notin DOMAIN A => B[k].data = << >>
      <4>1. Typed
        BY DEF EInv
      <4>2. PICK h : h = HashOf(pat)
        OBVIOUS
      <4>3. /\ DOMAIN GetOrInsert(h).buckets = DOMAIN m_HashMap.buckets \cup {h}
            /\ \A k \in DOMAIN GetOrInsert(h).buckets :
                 /\ HasKey(k) => GetOrInsert(h).buckets[k] = m_HashMap.buckets[k]
                 /\ ~HasKey(k) => GetOrInsert(h).buckets[k].data = << >>
        BY <4>1, GetOrInsertFacts
      <4>4. \A k : HasKey(k) <=> k \in DOMAIN A
        BY <3>1 DEF HasKey
      <4>5. B = GetOrInsert(h).buckets
        BY <3>1, <4>2
      <4> QED BY <3>1, <4>3, <4>4, <4>5
    <3>3. ToSet(<< >>) = {}
      BY DEF ToSet
    <3>4. UNION {ToSet(B[k].data) : k \in DOMAIN B} = UNION {ToSet(A[k].data) : k \in DOMAIN A}
      <4>1. ASSUME NEW x, NEW k \in DOMAIN B, x \in ToSet(B[k].data)
            PROVE  k \in DOMAIN A /\ x \in ToSet(A[k].data)
        BY <3>2, <3>3, <4>1
      <4>2. ASSUME NEW x, NEW k \in DOMAIN A, x \in ToSet(A[k].data)
            PROVE  k \in DOMAIN B /\ x \in ToSet(B[k].data)
        BY <3>2, <4>2
      <4> QED BY <4>1, <4>2
    <3>5. BucketEntries' = BucketEntries
      BY <2>4, <3>1, <3>4 DEF BucketEntries
    <3> QED BY <2>1, <3>5 DEF Entries
  <2> QED BY <2>1, <2>2, <2>3, <2>4
<1>5. ASSUME NEW pat \in Patterns, NEW scope \in Scopes, AddSlow(pat, scope) \/ AddHashed(pat, scope)
      PROVE  FALSE
  BY <1>5 DEF AddSlow, AddHashed, Added, AddReturns, FailedAdd
<1> QED BY <1>1, <1>2, <1>3, <1>4, <1>5 DEF AddPattern

\* A failed AddPattern rolls the strings back and changes the answer to no
\* search, although its context, a length or an empty bucket may stay behind
\* (FailedAddInvisible).
THEOREM FailedAddInvisibleHolds == Spec => FailedAddInvisible
<1>1. EInv' => SearchesOrdered'
  BY SearchIsOrdered, PTL
<1>2. EInv /\ [Next]_vars =>
        [FailedAdd => /\ m_StringArena' = m_StringArena
                      /\ \A t \in Texts : SearchInternal(t)' = SearchInternal(t)]_vars
  <2> SUFFICES ASSUME EInv, Next, FailedAdd
               PROVE  /\ m_StringArena' = m_StringArena
                      /\ \A t \in Texts : SearchInternal(t)' = SearchInternal(t)
    BY DEF vars
  <2>1. SearchesOrdered /\ SearchesOrdered'
    BY <1>1, SearchIsOrdered, EngineStep
  <2>2. /\ registered' = registered /\ m_bCaseInsensitive' = m_bCaseInsensitive
        /\ m_StringArena' = m_StringArena /\ Entries' = Entries
    BY FailedAddKeeps
  <2>3. OneEach(Entries) /\ registered \in Seq(Registrations)
    BY EntriesOnce DEF EInv, Typed
  <2>4. ASSUME NEW text \in Texts PROVE SearchInternal(text)' = SearchInternal(text)
    <3>1. text \in Strings
      BY StringsAssumption DEF Strings
    <3>2. PICK K, E, reg : /\ K = MatchesOf(registered, m_bCaseInsensitive, text)
                           /\ E = Entries /\ reg = registered
      OBVIOUS
    <3>3. PICK s, t : s = SearchInternal(text) /\ t = SearchInternal(text)'
      OBVIOUS
    <3>4. Ordered(s, K, E, reg)
      BY <2>1, <3>1, <3>2, <3>3 DEF SearchesOrdered
    <3>5. Ordered(t, K, E, reg)
      BY <2>1, <2>2, <3>1, <3>2, <3>3 DEF SearchesOrdered
    <3>6. reg \in Seq(Registrations) /\ K \in SUBSET (1 .. Len(reg)) /\ OneEach(E)
      BY <2>3, <3>2 DEF MatchesOf
    <3>7. s = t
      BY <3>4, <3>5, <3>6, OrderedSame
    <3> QED BY <3>3, <3>7
  <2> QED BY <2>2, <2>4
<1> QED BY <1>2, EngineInvariant, PTL DEF Spec, FailedAddInvisible, FailedAdd
===============================================================================

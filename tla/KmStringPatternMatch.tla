------------------------- MODULE KmStringPatternMatch -------------------------
(***************************************************************************)
(* The engine: AddPattern, Clear and the two Search functions over its     *)
(* index (length vector, hash map of buckets, hash-existence filter, slow  *)
(* path list), its string arena and its context arena.                     *)
(*                                                                         *)
(* A call is one action; `out` holds its result until the caller takes it  *)
(* (Return).  Every allocation of AddPattern may fail where the container  *)
(* has to ask the pool for memory, and the action then leaves behind what  *)
(* the code leaves behind.                                                 *)
(*                                                                         *)
(* The string arena is used through its promise (ArenaAbs): a stack of     *)
(* buffers, a bookmark being its height.  The matching of the wildcard     *)
(* suffix is the function that WildCardMatch is shown to compute.          *)
(***************************************************************************)
EXTENDS PatternParser, SequencesExt

CONSTANTS
    Patterns, Texts,   \* raw patterns registered, texts searched
    Scopes,            \* the values of WildScope the callers pass
    CaseModes,         \* the values of bCaseInsensitive it is built with
    Hash(_),           \* CalculateHash of a literal prefix
    FilterBits,        \* bits of m_HashFilter (1024)
    BlockCapacity,     \* contexts per KDeque block (512)
    MaxBlocks,         \* blocks per KDeque (256)
    SvoCapacity,       \* elements a KVector holds without the pool (2)
    FirstTable,        \* slots of the first hash table (16)
    MaxCalls           \* bound of the model: AddPattern and Clear calls

ASSUME StringsAssumption ==
    Patterns \subseteq Seq(STRING) /\ Texts \subseteq Seq(STRING)
ASSUME ModesAssumption == CaseModes \subseteq BOOLEAN /\ Scopes \subseteq WILD_CARD_SCOPE
ASSUME SizeAssumption ==
    /\ {SvoCapacity, FirstTable, MaxCalls} \subseteq Nat
    /\ {FilterBits, BlockCapacity, MaxBlocks} \subseteq Nat \ {0}
ASSUME HashAssumption ==
    \A pat \in Patterns, mode \in CaseModes : Hash(Fold(mode, Prefix(pat))) \in Nat

MAXUINT32    == 1000   \* larger than any length of the model
kMaxPatterns == MaxBlocks * BlockCapacity

VARIABLES
    m_bCaseInsensitive, m_nPatternCount, m_nGlobalMinMatchLength,
    m_bWildCardPresent, m_HashFilter,
    m_LengthVec, m_SlowPathList,       \* [data, capacity]
    m_HashMap,                         \* [buckets, capacity]
    m_StringArena, m_ContextArena,
    out,                               \* result of the call that just ended
    registered,                        \* history: patterns added since Clear
    calls                              \* history: AddPattern and Clear calls

index == << m_nPatternCount, m_nGlobalMinMatchLength, m_bWildCardPresent,
            m_HashFilter, m_LengthVec, m_SlowPathList, m_HashMap,
            m_StringArena, m_ContextArena >>
vars  == << m_bCaseInsensitive, index, out, registered, calls >>

NoResult == [op |-> "none"]
Ready    == out = NoResult

EmptyVector == [data |-> << >>, capacity |-> SvoCapacity]
NoTable     == [buckets |-> << >>, capacity |-> 0]

Init ==
    /\ m_bCaseInsensitive \in CaseModes
    /\ m_nPatternCount = 0 /\ m_nGlobalMinMatchLength = MAXUINT32
    /\ m_bWildCardPresent = FALSE /\ m_HashFilter = {}
    /\ m_LengthVec = EmptyVector /\ m_SlowPathList = EmptyVector
    /\ m_HashMap = NoTable
    /\ m_StringArena = << >> /\ m_ContextArena = << >>
    /\ out = NoResult /\ registered = << >> /\ calls = 0

-----------------------------------------------------------------------------
(* The containers, as far as AddPattern depends on them.                   *)

ComputeNextCapacity(c) ==
    IF c < 4 THEN 8 ELSE IF c < 1024 THEN c * 2 ELSE c + c \div 2

IsFull(v) == Len(v.data) = v.capacity

Grown(v) == IF IsFull(v) THEN ComputeNextCapacity(v.capacity) ELSE v.capacity

PushBack(v, e) == [data |-> Append(v.data, e), capacity |-> Grown(v)]

\* Position of the first length not below n, as the linear scan finds it.
LengthPos(n) ==
    Min({i \in 1 .. Len(m_LengthVec.data) + 1 :
           i = Len(m_LengthVec.data) + 1 \/ m_LengthVec.data[i] >= n})

HasLength(n) == LengthPos(n) <= Len(m_LengthVec.data)
                /\ m_LengthVec.data[LengthPos(n)] = n

WithLengthAppended(n) ==    \* mutant
    IF HasLength(n) THEN m_LengthVec ELSE PushBack(m_LengthVec, n)

WithLength(n) ==
    IF HasLength(n) THEN m_LengthVec
    ELSE [data |-> InsertAt(m_LengthVec.data, LengthPos(n), n),
          capacity |-> Grown(m_LengthVec)]

HasKey(h) == h \in DOMAIN m_HashMap.buckets

\* A table of c slots takes 70% of them, rounded up, before it is rebuilt.
MaxLoad(c) == (c * 7 + 9) \div 10

TableFull == Cardinality(DOMAIN m_HashMap.buckets) >= MaxLoad(m_HashMap.capacity)

GetOrInsert(h) ==
    IF HasKey(h) THEN m_HashMap
    ELSE [buckets |-> [k \in DOMAIN m_HashMap.buckets \cup {h} |->
                         IF HasKey(k) THEN m_HashMap.buckets[k] ELSE EmptyVector],
          capacity |-> IF ~TableFull THEN m_HashMap.capacity
                       ELSE IF m_HashMap.capacity = 0 THEN FirstTable
                       ELSE 2 * m_HashMap.capacity]

WithEntry(h, e) ==
    [GetOrInsert(h) EXCEPT !.buckets[h] = PushBack(@, e)]

ContextsFull == Len(m_ContextArena) >= kMaxPatterns
NewBlock     == Len(m_ContextArena) % BlockCapacity = 0

-----------------------------------------------------------------------------
(* AddPattern.                                                             *)

Folded(x) == Fold(m_bCaseInsensitive, x)

Stable(pat)  == Folded(Prefix(pat) \o WildPart(pat))
WildOf(pat)  == Folded(WildPart(pat))
TailOf(pat)  == TailAnchor(WildOf(pat))

\* The arena after both buffers of the pattern have been written.
Written(pat) ==
    m_StringArena \o (IF pat = << >> THEN << >> ELSE << Stable(pat) >>)
                  \o (IF TailOf(pat) = << >> THEN << >> ELSE << TailOf(pat) >>)

RevertNothing(arena, height) == arena    \* mutant
RevertBookmark(arena, height) == SubSeq(arena, 1, height)

\* PatternEntry: a buffer is named by its position in the arena, 0 is null.
Entry(pat, scope) ==
    [buffer       |-> IF pat = << >> THEN 0 ELSE Len(m_StringArena) + 1,
     prefixLength |-> Len(Prefix(pat)),
     suffixLength |-> LastWildcardEnd(WildOf(pat)),
     tailBuffer   |-> IF TailOf(pat) = << >> THEN 0 ELSE Len(m_StringArena) + 2,
     tailLength   |-> Len(TailOf(pat)),
     Id           |-> m_nPatternCount + 1,
     ContextIndex |-> Len(m_ContextArena) + 1,
     MinWildcardMatchLength |-> SuffixMinLength(WildOf(pat)),
     Scope        |-> scope,
     FirstLiteral |-> IF Prefix(pat) = << >> THEN FirstLiteralChar(WildOf(pat))
                      ELSE << >>]

IsSlow(pat) == Prefix(pat) = << >> /\ WildPart(pat) # << >>
HashOf(pat) == Hash(Folded(Prefix(pat)))
FilterBit(h) == h % FilterBits

Lower(n) == IF n < m_nGlobalMinMatchLength THEN n ELSE m_nGlobalMinMatchLength

\* The caller's payload, different for every call.
Payload == calls + 1

AddReturns(status) ==
    /\ out' = [op |-> "add", status |-> status]
    /\ calls' = calls + 1
    /\ UNCHANGED m_bCaseInsensitive

CanAdd == Ready /\ calls < MaxCalls

\* A null buffer with a length, or a length whose byte size overflows.
AddInvalid ==
    /\ Ready
    /\ out' = [op |-> "add", status |-> "STATUS_INVALID_PARAMETER"]
    /\ UNCHANGED << m_bCaseInsensitive, index, registered, calls >>

\* The pattern limit, tested before anything is touched.
AddOverLimit ==
    /\ CanAdd /\ m_nPatternCount >= kMaxPatterns
    /\ AddReturns("STATUS_QUOTA_EXCEEDED")
    /\ UNCHANGED << index, registered >>

AddAccepted == CanAdd /\ m_nPatternCount < kMaxPatterns

\* A failure before the context is stored, rolled back completely: a string
\* buffer cannot be had, or the context arena has no slot left.
AddFailsEarly(pat) ==
    /\ \/ pat # << >> /\ AddReturns("STATUS_INSUFFICIENT_RESOURCES")
       \/ ContextsFull /\ AddReturns("STATUS_QUOTA_EXCEEDED")
       \/ ~ContextsFull /\ NewBlock /\ AddReturns("STATUS_INSUFFICIENT_RESOURCES")
    /\ m_StringArena' = RevertBookmark(Written(pat), Len(m_StringArena))
    /\ UNCHANGED << m_nPatternCount, m_nGlobalMinMatchLength,
                    m_bWildCardPresent, m_HashFilter, m_LengthVec,
                    m_SlowPathList, m_HashMap, m_ContextArena, registered >>

\* A failure after the context is stored: the context stays behind as an
\* orphan, with the new length and the empty bucket inserted before it.
AddFailsLate(pat) ==
    /\ ~ContextsFull
    /\ m_ContextArena' = Append(m_ContextArena, Payload)
    /\ \/ /\ IsSlow(pat) /\ IsFull(m_SlowPathList)
          /\ UNCHANGED << m_LengthVec, m_HashMap >>
       \/ /\ ~IsSlow(pat) /\ ~HasLength(Len(Prefix(pat))) /\ IsFull(m_LengthVec)
          /\ UNCHANGED << m_LengthVec, m_HashMap >>
       \/ /\ ~IsSlow(pat) /\ ~HasKey(HashOf(pat)) /\ TableFull
          /\ m_LengthVec' = WithLength(Len(Prefix(pat)))
          /\ UNCHANGED m_HashMap
       \/ /\ ~IsSlow(pat) /\ IsFull(GetOrInsert(HashOf(pat)).buckets[HashOf(pat)])
          /\ m_LengthVec' = WithLength(Len(Prefix(pat)))
          /\ m_HashMap' = GetOrInsert(HashOf(pat))
    /\ m_StringArena' = RevertBookmark(Written(pat), Len(m_StringArena))
    /\ AddReturns("STATUS_INSUFFICIENT_RESOURCES")
    /\ UNCHANGED << m_nPatternCount, m_nGlobalMinMatchLength,
                    m_bWildCardPresent, m_HashFilter, m_SlowPathList, registered >>

\* What both kinds of successful insertion do.
Added(pat, scope) ==
    /\ ~ContextsFull
    /\ m_StringArena' = Written(pat)
    /\ m_ContextArena' = Append(m_ContextArena, Payload)
    /\ m_nPatternCount' = m_nPatternCount + 1
    /\ m_nGlobalMinMatchLength' =
         Lower(Len(Prefix(pat)) + SuffixMinLength(WildOf(pat)))
    /\ m_bWildCardPresent' = (m_bWildCardPresent \/ WildPart(pat) # << >>)
    /\ registered' = Append(registered,
         [pattern |-> pat, scope |-> scope, context |-> Payload])
    /\ AddReturns("STATUS_SUCCESS")

\* A pattern that starts with a wildcard goes to the slow path list.
AddSlow(pat, scope) ==
    /\ IsSlow(pat) /\ Added(pat, scope)
    /\ m_SlowPathList' = PushBack(m_SlowPathList, Entry(pat, scope))
    /\ UNCHANGED << m_HashFilter, m_LengthVec, m_HashMap >>

AddHashed(pat, scope) ==
    /\ ~IsSlow(pat) /\ Added(pat, scope)
    /\ m_LengthVec' = WithLength(Len(Prefix(pat)))
    /\ m_HashMap' = WithEntry(HashOf(pat), Entry(pat, scope))
    /\ m_HashFilter' = m_HashFilter \cup {FilterBit(HashOf(pat))}
    /\ UNCHANGED m_SlowPathList

AddPattern ==
    \/ AddInvalid \/ AddOverLimit
    \/ /\ AddAccepted
       /\ \E pat \in Patterns, scope \in Scopes :
            \/ AddFailsEarly(pat) \/ AddFailsLate(pat)
            \/ AddSlow(pat, scope) \/ AddHashed(pat, scope)

\* Clear: the vectors and the table keep the memory they have.
Clear ==
    /\ CanAdd
    /\ m_HashMap' = [m_HashMap EXCEPT !.buckets = << >>]
    /\ m_SlowPathList' = [m_SlowPathList EXCEPT !.data = << >>]
    /\ m_LengthVec' = [m_LengthVec EXCEPT !.data = << >>]
    /\ m_StringArena' = << >> /\ m_ContextArena' = << >>
    /\ m_nPatternCount' = 0 /\ m_nGlobalMinMatchLength' = MAXUINT32
    /\ m_bWildCardPresent' = FALSE /\ m_HashFilter' = {}
    /\ registered' = << >>
    /\ out' = [op |-> "clear"] /\ calls' = calls + 1
    /\ UNCHANGED m_bCaseInsensitive

-----------------------------------------------------------------------------
(* Search.                                                                 *)

PrefixOf(e) == IF e.buffer = 0 THEN << >>
               ELSE SubSeq(m_StringArena[e.buffer], 1, e.prefixLength)
SuffixOf(e) == IF e.buffer = 0 THEN << >>
               ELSE SubSeq(m_StringArena[e.buffer], e.prefixLength + 1,
                           e.prefixLength + e.suffixLength)
TailTextOf(e) == IF e.tailBuffer = 0 THEN << >> ELSE m_StringArena[e.tailBuffer]

\* The last n characters of a text, and the text without them.
LastChars(text, n) == SubSeq(text, Len(text) - n + 1, Len(text))
DropLast(text, n)  == SubSeq(text, 1, Len(text) - n)
DropFirst(text, n) == SubSeq(text, n + 1, Len(text))

EvaluateTailMatch(e, text) ==
    Folded(LastChars(text, e.tailLength)) = TailTextOf(e)

EvaluatePrefixMatch(e, text) ==
    Folded(SubSeq(text, 1, e.prefixLength)) = PrefixOf(e)

EvaluatePatternSuffix(e, text) ==
    GlobTokens(Tokens(SuffixOf(e)), Folded(DropLast(text, e.tailLength)), e.Scope)

BucketHitTrustsHash(e, n, text) ==    \* mutant: the prefix is not compared
    /\ e.prefixLength = n
    /\ Len(text) >= n + e.MinWildcardMatchLength
    /\ n < Len(text) => e.suffixLength # 0 /\ EvaluateTailMatch(e, text)
    /\ n = Len(text) \/ EvaluatePatternSuffix(e, DropFirst(text, n))

\* An entry of a bucket, visited for the prefix length n.
BucketHit(e, n, text) ==
    /\ e.prefixLength = n
    /\ Len(text) >= n + e.MinWildcardMatchLength
    /\ n < Len(text) => e.suffixLength # 0 /\ EvaluateTailMatch(e, text)
    /\ EvaluatePrefixMatch(e, text)
    /\ n = Len(text) \/ EvaluatePatternSuffix(e, DropFirst(text, n))

\* An entry of the slow path list, with the probe for its first literal.
SlowHit(e, text) ==
    /\ Len(text) >= e.MinWildcardMatchLength
    /\ EvaluateTailMatch(e, text)
    /\ e.FirstLiteral # << >> =>
         Contains(Folded(DropLast(text, e.tailLength)), e.FirstLiteral[1])
    /\ EvaluatePatternSuffix(e, text)

\* One turn of std::lower_bound, written out in the code: the range of `count`
\* lengths from `first` on is halved.
HalveRange(v, n, range) ==
    LET step == range.count \div 2
        mid  == range.first + step
    IN  IF range.count = 0 THEN range
        ELSE IF v[mid] < n
        THEN [first |-> mid + 1, count |-> range.count - (step + 1)]
        ELSE [first |-> range.first, count |-> step]

\* Every turn takes a length at least, so there are at most Len(v) of them.
LowerBound(n) ==
    LET v == m_LengthVec.data
        after[k \in 0 .. Len(v)] ==
          IF k = 0 THEN [first |-> 1, count |-> Len(v)]
          ELSE HalveRange(v, n, after[k - 1])
    IN  after[Len(v)].first

\* The lengths the main loop visits: all up to the text's, or without any
\* wildcard registered the text's own length only.
VisitedLengths(n) ==
    LET v == m_LengthVec.data
        lb == LowerBound(n)
        end == Min({i \in 1 .. Len(v) + 1 : i = Len(v) + 1 \/ v[i] > n})
    IN  IF m_bWildCardPresent THEN SubSeq(v, 1, end - 1)
        ELSE IF v = << >> \/ n > v[Len(v)] \/ lb > Len(v) THEN << >>
        ELSE IF v[lb] # n THEN << >> ELSE << n >>

\* What a loop over a list hands on: the entries whose test succeeds.
Filtered(list, hit) ==
    LET upTo[i \in 0 .. Len(list)] ==
          IF i = 0 THEN << >>
          ELSE IF hit[i] THEN Append(upTo[i - 1], list[i])
          ELSE upTo[i - 1]
    IN  upTo[Len(list)]

\* The entries found for one prefix length, behind the filter and the map.
BucketHits(n, text) ==
    LET h == Hash(Folded(SubSeq(text, 1, n)))
        bucket == m_HashMap.buckets[h].data
    IN  IF FilterBit(h) \in m_HashFilter /\ HasKey(h)
        THEN Filtered(bucket, [i \in 1 .. Len(bucket) |-> BucketHit(bucket[i], n, text)])
        ELSE << >>

SlowHits(text) ==
    LET list == m_SlowPathList.data
    IN  Filtered(list, [i \in 1 .. Len(list) |-> SlowHit(list[i], text)])

\* Texts too short for every registered pattern are rejected at once.
RejectedAtMinimum(n) == n <= m_nGlobalMinMatchLength    \* mutant

Rejected(n) ==
    \/ m_nPatternCount = 0 \/ n < m_nGlobalMinMatchLength
    \/ /\ m_SlowPathList.data = << >>
       /\ m_LengthVec.data = << >> \/ n < m_LengthVec.data[1]

\* The entries handed to the collector, in order.
SearchInternal(text) ==
    LET visited == VisitedLengths(Len(text))
        found[i \in 0 .. Len(visited)] ==
          IF i = 0 THEN << >>
          ELSE found[i - 1] \o BucketHits(visited[i], text)
    IN  IF Rejected(Len(text)) THEN << >>
        ELSE found[Len(visited)] \o SlowHits(text)

Contexts(entries) ==
    [i \in DOMAIN entries |-> m_ContextArena[entries[i].ContextIndex]]

SearchReturns(op, text, status, found) ==
    /\ out' = [op |-> op, text |-> text, status |-> status, found |-> found]
    /\ UNCHANGED << m_bCaseInsensitive, index, registered, calls >>

\* Search for one context: the collector stops at the first.
SearchFirst(text) ==
    /\ Ready
    /\ LET hits == Contexts(SearchInternal(text))
       IN  SearchReturns("first", text, "STATUS_SUCCESS",
                         SubSeq(hits, 1, Min({1, Len(hits)})))

\* Search for all contexts.  The caller's vector may fail to grow: the
\* search then stops with the contexts collected so far.
GrowthSizes == {SvoCapacity, ComputeNextCapacity(SvoCapacity)}

CollectAll(text, hits, failures) ==
    \/ SearchReturns("all", text, "STATUS_SUCCESS", hits)
    \/ \E n \in failures :
         SearchReturns("all", text, "STATUS_INSUFFICIENT_RESOURCES",
                       SubSeq(hits, 1, n))

SearchAllGrowsEarly(text) ==    \* mutant
    Ready /\ LET hits == Contexts(SearchInternal(text))
             IN  CollectAll(text, hits, {n \in GrowthSizes : n <= Len(hits)})

SearchAll(text) ==
    Ready /\ LET hits == Contexts(SearchInternal(text))
             IN  CollectAll(text, hits, {n \in GrowthSizes : n < Len(hits)})

\* A null text with a length: false, or STATUS_INVALID_PARAMETER.
SearchInvalid ==
    /\ Ready
    /\ \E op \in {"first", "all"} :
         SearchReturns(op, << >>, "STATUS_INVALID_PARAMETER", << >>)

Search == SearchInvalid \/ \E text \in Texts : SearchFirst(text) \/ SearchAll(text)

Return ==
    /\ ~Ready /\ out' = NoResult
    /\ UNCHANGED << m_bCaseInsensitive, index, registered, calls >>

Next == AddPattern \/ Clear \/ Search \/ Return

Spec == Init /\ [][Next]_vars

-----------------------------------------------------------------------------
Found(op) == out.op = op /\ out.status = "STATUS_SUCCESS"

\* The registered patterns a text matches, by the reference definition.
Expected(text) ==
    {r.context : r \in {x \in ToSet(registered) :
        Glob(x.pattern, text, x.scope, m_bCaseInsensitive)}}

\* Every entry of the index, with the place it was found in.
BucketEntries == UNION {ToSet(m_HashMap.buckets[h].data) :
                          h \in DOMAIN m_HashMap.buckets}
Entries == BucketEntries \cup ToSet(m_SlowPathList.data)

TypeOK ==
    /\ m_nPatternCount \in 0 .. kMaxPatterns
    /\ m_nGlobalMinMatchLength \in Nat /\ m_bWildCardPresent \in BOOLEAN
    /\ m_HashFilter \in SUBSET (0 .. FilterBits - 1)
    /\ Len(m_LengthVec.data) <= m_LengthVec.capacity
    /\ Len(m_SlowPathList.data) <= m_SlowPathList.capacity
    /\ Len(m_ContextArena) <= kMaxPatterns
    /\ calls \in 0 .. MaxCalls

\* A full search returns the context of every registered pattern the text
\* matches, of no other one, and each once: through the filter, the map, the
\* lengths and the slow path, whatever failed or was cleared before.
SearchExact ==
    Found("all") => /\ ToSet(out.found) = Expected(out.text)
                    /\ Len(out.found) = Cardinality(Expected(out.text))

\* A search that runs out of memory reports a part of the answer, never a
\* context that does not belong to it.
PartialSearchSound ==
    out.op = "all" /\ out.status = "STATUS_INSUFFICIENT_RESOURCES" =>
      /\ ToSet(out.found) \subseteq Expected(out.text)
      /\ Len(out.found) < Cardinality(Expected(out.text))

\* A first-match search finds a context exactly when some pattern matches.
FirstExact ==
    Found("first") => /\ ToSet(out.found) \subseteq Expected(out.text)
                      /\ out.found = << >> <=> Expected(out.text) = {}

\* A failed AddPattern cannot be noticed by any search, although it leaves
\* its context, a length or an empty bucket behind.
FailedAddInvisible ==
    [][ out'.op = "add" /\ out'.status # "STATUS_SUCCESS" =>
          /\ m_StringArena' = m_StringArena
          /\ \A t \in Texts : SearchInternal(t)' = SearchInternal(t) ]_vars

\* What Search relies on to find an entry again: it is in the bucket of its
\* own hash, its filter bit is set, its length is in the vector, which is
\* sorted without duplicates, and no cached minimum excludes it.  Nothing has
\* outgrown its capacity or the pattern limit.
IndexComplete ==
    /\ TypeOK
    /\ \A i, j \in 1 .. Len(m_LengthVec.data) :
         i < j => m_LengthVec.data[i] < m_LengthVec.data[j]
    /\ \A h \in DOMAIN m_HashMap.buckets :
         \A e \in ToSet(m_HashMap.buckets[h].data) :
           /\ Hash(PrefixOf(e)) = h /\ FilterBit(h) \in m_HashFilter
           /\ e.prefixLength \in ToSet(m_LengthVec.data)
           /\ e.suffixLength # 0 => m_bWildCardPresent
    /\ m_SlowPathList.data # << >> => m_bWildCardPresent
    /\ \A e \in Entries : m_nGlobalMinMatchLength <=
                            e.prefixLength + e.MinWildcardMatchLength

\* Every wildcard suffix the engine hands to WildCardMatch has the form that
\* the matcher's correctness depends on: it starts and ends with an unescaped
\* wildcard, and minWildLen is exactly what it needs.
MatcherContract ==
    \A e \in Entries : e.suffixLength # 0 =>
      LET toks == Tokens(SuffixOf(e))
      IN  /\ toks[1].wild /\ toks[Len(toks)].wild
          /\ e.MinWildcardMatchLength - e.tailLength = MinLength(SuffixOf(e))

\* Readme, AddPattern: the quota status means that the pattern limit is
\* reached.
QuotaMeansLimit ==
    out.op = "add" /\ out.status = "STATUS_QUOTA_EXCEEDED" =>
        m_nPatternCount = kMaxPatterns

\* Readme, Clear: the engine is reset to empty and pooled allocations are
\* released.
ClearReleasesPool ==
    out.op = "clear" =>
      /\ m_SlowPathList.capacity = SvoCapacity
      /\ m_LengthVec.capacity = SvoCapacity
      /\ m_HashMap.capacity = 0

===============================================================================

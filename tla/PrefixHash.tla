------------------------------ MODULE PrefixHash ------------------------------
(***************************************************************************)
(* The length loop of SearchInternal: for every registered prefix length,  *)
(* in ascending order, it hashes that many characters of the text.  Whole  *)
(* words are mixed into chunkHash once and kept for the longer lengths;    *)
(* the characters after the last whole word go into a hash of their own.   *)
(* AddPattern computes the hash of the folded prefix with CalculateHash.   *)
(*                                                                         *)
(* Mix64 is a function nothing is known of, so a hash is the sequence of   *)
(* the words that were mixed: equal here means equal for every Mix64.      *)
(***************************************************************************)
EXTENDS CharWords, SequencesExt

CONSTANTS
    Chars,       \* the characters of the texts
    MaxText,     \* bound on the length of a text
    MaxLength,   \* bound on the registered lengths
    MaxLengths   \* bound on their number

VARIABLES
    m_LengthVec, m_bWildCardPresent,   \* the index
    txt, IsCaseInsensitive,            \* the search
    it,                                \* position in m_LengthVec
    chunkHash, currentChunk,
    looked                             \* the hashes looked up, by length

args == << m_LengthVec, m_bWildCardPresent, txt, IsCaseInsensitive >>
vars == << args, it, chunkHash, currentChunk, looked >>

cchText == Len(txt)
Mix64(hash, w) == Append(hash, w)

\* The characters of x from offset k on in one word, zero above them.
TailWord(x, k) ==
    FoldLeft(LAMBDA w, j : WOr(w, WShiftLanes(CharToUint64(At(x, k + j - 1)), j - 1)),
             Zero, [j \in 1 .. Len(x) - k |-> j])

CalculateHash(x) ==
    LET chunks == Len(x) \div kCharsPerBlock
        blocks == [c \in 1 .. chunks |-> Load(x, (c - 1) * kCharsPerBlock)]
        rest   == chunks * kCharsPerBlock
    IN  IF Len(x) > rest THEN Mix64(blocks, TailWord(x, rest)) ELSE blocks

-----------------------------------------------------------------------------
\* Without wildcards only the length of the text can match; the binary search
\* finds it, and SearchInternal returns before the loop when it is not there.
Start ==
    IF m_bWildCardPresent THEN 1
    ELSE Min({k \in DOMAIN m_LengthVec : m_LengthVec[k] >= cchText} \cup {Len(m_LengthVec) + 1})

Init ==
    /\ \E k \in 0 .. MaxLengths : \E L \in kSubset(k, 1 .. MaxLength) :
          m_LengthVec = SetToSortSeq(L, <)
    /\ m_bWildCardPresent \in BOOLEAN
    /\ \E n \in 0 .. MaxText : txt \in [1 .. n -> Chars]
    /\ IsCaseInsensitive \in BOOLEAN
    /\ \/ m_bWildCardPresent \/ cchText \in Range(m_LengthVec)
       \/ m_LengthVec = << >> /\ cchText = 0
    /\ it = Start
    /\ chunkHash = << >> /\ currentChunk = 0 /\ looked = << >>

cchLength    == m_LengthVec[it]
targetChunks == cchLength \div kCharsPerBlock

InLoop == it <= Len(m_LengthVec) /\ cchLength <= cchText
Looks  == InLoop /\ (m_bWildCardPresent \/ cchLength = cchText)

\* The word at the current chunk, folded when the search ignores case.
ChunkWord ==
    LET w == Load(txt, currentChunk * kCharsPerBlock)
        chars == SubSeq(txt, currentChunk * kCharsPerBlock + 1,
                        (currentChunk + 1) * kCharsPerBlock)
    IN  IF ~IsCaseInsensitive THEN w
        ELSE IF IsAsciiSWAR(w) THEN ToUpperSWAR(w)
        ELSE TailWord(Fold(TRUE, chars), 0)

AdvanceChunk ==
    /\ Looks /\ currentChunk < targetChunks
    /\ chunkHash' = Mix64(chunkHash, ChunkWord)
    /\ currentChunk' = currentChunk + 1
    /\ UNCHANGED << args, it, looked >>

\* The hash of the length it stands at; chunkHash is left as it is.
HashAt(rest) ==
    IF cchLength > rest
    THEN Mix64(chunkHash, TailWord(Fold(IsCaseInsensitive, SubSeq(txt, 1, cchLength)), rest))
    ELSE chunkHash

LookUpMixing ==                                           \* mutant
    /\ Looks /\ currentChunk >= targetChunks
    /\ chunkHash' = HashAt(targetChunks * kCharsPerBlock)
    /\ looked' = [n \in DOMAIN looked \cup {cchLength} |->
                    IF n = cchLength THEN chunkHash' ELSE looked[n]]
    /\ it' = IF m_bWildCardPresent THEN it + 1 ELSE Len(m_LengthVec) + 1
    /\ UNCHANGED << args, currentChunk >>
LookUp ==
    /\ Looks /\ currentChunk >= targetChunks
    /\ looked' = [n \in DOMAIN looked \cup {cchLength} |->
                    IF n = cchLength THEN HashAt(targetChunks * kCharsPerBlock)
                    ELSE looked[n]]
    /\ it' = IF m_bWildCardPresent THEN it + 1 ELSE Len(m_LengthVec) + 1
    /\ UNCHANGED << args, chunkHash, currentChunk >>

Done == ~Looks /\ UNCHANGED vars

Next == AdvanceChunk \/ LookUp \/ Done

Spec == Init /\ [][Next]_vars

-----------------------------------------------------------------------------
(***************************************************************************)
(* The lookups are exact.  Each is made with the hash AddPattern stored    *)
(* for the folded prefix of that length, also after words were taken over  *)
(* from shorter lengths; and when the loop ends, every registered length   *)
(* that can match the text was looked up, and no other.  So no registered  *)
(* pattern is missed because the two computations differ or the loop       *)
(* starts late or breaks early (SearchInternal, CalculateHash).            *)
(***************************************************************************)
LookupsExact ==
    /\ \A n \in DOMAIN looked :
          looked[n] = CalculateHash(Fold(IsCaseInsensitive, SubSeq(txt, 1, n)))
    /\ ~Looks => DOMAIN looked = {n \in Range(m_LengthVec) :
                                    n <= cchText /\ (m_bWildCardPresent \/ n = cchText)}

=============================================================================

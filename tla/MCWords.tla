-------------------------------- MODULE MCWords --------------------------------
(***************************************************************************)
(* One call of one of the routines that work on 64-bit words, with the     *)
(* code's 4 lanes of 16 bits (WCHAR), and with 4 or 2 of its 8 lanes of 8  *)
(* bits (CHAR, and the control bytes of the hash map).  A variable the     *)
(* routine does not have stays at Unused.                                  *)
(***************************************************************************)
EXTENDS Integers, Sequences

VARIABLES
    routine,
    txt, IsCaseInsensitive, result,                        \* several routines
    target, LimitWildScope, SearchEnd, s,                  \* WordScan
    lit, base, i,                                          \* WordCompare
    m_LengthVec, m_bWildCardPresent, it,                   \* PrefixHash
    chunkHash, currentChunk, looked,
    ctrlBlock, h2, match, visited, pc,                     \* GroupMatch
    State, kPrime                                          \* Mixing

scanVars    == << target, LimitWildScope, SearchEnd, s >>
compareVars == << lit, base, i >>
hashVars    == << m_LengthVec, m_bWildCardPresent, it, chunkHash, currentChunk, looked >>
groupVars   == << ctrlBlock, h2, match, visited, pc >>
mixVars     == << State, kPrime >>
callVars    == << txt, IsCaseInsensitive >>
allVars     == << routine, callVars, result, scanVars, compareVars, hashVars, groupVars, mixVars >>

\* A letter and the character after 'z', the separator and the character that
\* differs from it in the lowest bit, and characters outside ASCII.
ScanWide == INSTANCE WordScan WITH
    CharBits <- 16, kCharsPerBlock <- 4, MaxText <- 5, MaxNeeded <- 2,
    Chars <- {97, 123, 92, 228}, Targets <- {65, 92, 196}
ScanNarrow == INSTANCE WordScan WITH
    CharBits <- 8, kCharsPerBlock <- 4, MaxText <- 5, MaxNeeded <- 2,
    Chars <- {97, 92, 93, -63}, Targets <- {65, 97, 92, -63}
Compare == INSTANCE WordCompare WITH
    CharBits <- 16, kCharsPerBlock <- 4, MaxText <- 6, Chars <- {97, 228}
HashWide == INSTANCE PrefixHash WITH
    CharBits <- 16, kCharsPerBlock <- 4, MaxText <- 8, MaxLength <- 8,
    MaxLengths <- 2, Chars <- {97, 228}
HashNarrow == INSTANCE PrefixHash WITH
    CharBits <- 8, kCharsPerBlock <- 2, MaxText <- 5, MaxLength <- 6,
    MaxLengths <- 2, Chars <- {97, -63}
Group == INSTANCE GroupMatch WITH
    CharBits <- 8, kCharsPerBlock <- 4, Tags <- {0, 1, 63, 126, 127}
Mix == INSTANCE Mixing WITH HalfBits <- 3

Unused    == "unused"
NoText    == txt = Unused /\ IsCaseInsensitive = Unused
NoScan    == target = Unused /\ LimitWildScope = Unused /\ SearchEnd = Unused /\ s = Unused
NoCompare == lit = Unused /\ base = Unused /\ i = Unused
NoHash    == /\ m_LengthVec = Unused /\ m_bWildCardPresent = Unused /\ it = Unused
             /\ chunkHash = Unused /\ currentChunk = Unused /\ looked = Unused
NoGroup   == ctrlBlock = Unused /\ h2 = Unused /\ match = Unused /\ visited = Unused /\ pc = Unused
NoMix     == State = Unused /\ kPrime = Unused

MCInit ==
    \/ /\ NoCompare /\ NoHash /\ NoGroup /\ NoMix
       /\ \/ routine = "scan wide" /\ ScanWide!Init
          \/ routine = "scan narrow" /\ ScanNarrow!Init
    \/ routine = "compare" /\ Compare!Init /\ NoScan /\ NoHash /\ NoGroup /\ NoMix
    \/ /\ NoScan /\ NoCompare /\ NoGroup /\ NoMix /\ result = Unused
       /\ \/ routine = "hash wide" /\ HashWide!Init
          \/ routine = "hash narrow" /\ HashNarrow!Init
    \/ /\ routine = "group" /\ Group!Init
       /\ NoText /\ NoScan /\ NoCompare /\ NoHash /\ NoMix /\ result = Unused
    \/ /\ routine = "mix" /\ Mix!Init
       /\ NoText /\ NoScan /\ NoCompare /\ NoHash /\ NoGroup

MCNext ==
    /\ UNCHANGED routine
    /\ \/ /\ UNCHANGED << compareVars, hashVars, groupVars, mixVars >>
          /\ \/ routine = "scan wide" /\ ScanWide!Next
             \/ routine = "scan narrow" /\ ScanNarrow!Next
       \/ /\ routine = "compare" /\ Compare!Next
          /\ UNCHANGED << scanVars, hashVars, groupVars, mixVars >>
       \/ /\ UNCHANGED << scanVars, compareVars, groupVars, mixVars, result >>
          /\ \/ routine = "hash wide" /\ HashWide!Next
             \/ routine = "hash narrow" /\ HashNarrow!Next
       \/ /\ routine = "group" /\ Group!Next
          /\ UNCHANGED << callVars, result, scanVars, compareVars, hashVars, mixVars >>
       \/ /\ routine = "mix" /\ Mix!Next
          /\ UNCHANGED << callVars, scanVars, compareVars, hashVars, groupVars >>

MCSpec == MCInit /\ [][MCNext]_allVars

-----------------------------------------------------------------------------
\* fastForward by words finds what a scan by characters finds, for WCHAR and
\* for signed CHAR.
ScanExact ==
    /\ routine = "scan wide" => ScanWide!ScanExact
    /\ routine = "scan narrow" => ScanNarrow!ScanExact

\* EvaluatePrefixMatch and EvaluateTailMatch answer what a comparison by
\* characters answers.
CompareExact == routine = "compare" => Compare!CompareExact

\* SearchInternal looks up the hash AddPattern stored, at every length.
LookupsExact ==
    /\ routine = "hash wide" => HashWide!LookupsExact
    /\ routine = "hash narrow" => HashNarrow!LookupsExact

\* A probe of the hash map compares exactly the slots of a group that carry
\* the tag, never an empty one.
VisitsExact == routine = "group" => Group!VisitsExact

\* Mix64 gives the same hashes in 32-bit and in 64-bit builds.
BuildsAgree == routine = "mix" => Mix!BuildsAgree
===============================================================================

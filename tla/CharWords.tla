------------------------------- MODULE CharWords -------------------------------
(***************************************************************************)
(* The 64-bit words that KmStringPatternMatch.h loads from strings, and    *)
(* its arithmetic on all characters of a word at once.                     *)
(*                                                                         *)
(* A word is the sequence of its lanes' values; the first is the least     *)
(* significant one and holds the first character.  Addition and            *)
(* subtraction carry from lane to lane, as in the machine's word, so that  *)
(* the model has the code's numbers although TLC's integers are narrow.    *)
(***************************************************************************)
EXTENDS Integers, Sequences, FiniteSetsExt, Bitwise

CONSTANTS
    CharBits,        \* 8 * sizeof(TChar): 8 for CHAR, 16 for WCHAR
    kCharsPerBlock   \* lanes of a word: 8 of CHAR, 4 of WCHAR

Lanes    == 1 .. kCharsPerBlock
LaneSize == 2 ^ CharBits

\* f as a sequence, which TLC evaluates once.
Lanewise(f) == SubSeq(f, 1, kCharsPerBlock)

\* A constant such as 0x0101010101010101: the same value in every lane.
Splat(v)  == Lanewise([i \in Lanes |-> v])
Zero      == Splat(0)
kLowBits  == Splat(1)
kHighBits == Splat(LaneSize \div 2)

WAnd(w, v) == Lanewise([i \in Lanes |-> w[i] & v[i]])
WOr(w, v)  == Lanewise([i \in Lanes |-> w[i] | v[i]])
WXor(w, v) == Lanewise([i \in Lanes |-> w[i] ^^ v[i]])
WNot(w)    == Lanewise([i \in Lanes |-> LaneSize - 1 - w[i]])

WAdd(w, v) ==
    LET carry[i \in Lanes] ==
          IF i = 1 THEN 0 ELSE (w[i - 1] + v[i - 1] + carry[i - 1]) \div LaneSize
    IN  Lanewise([i \in Lanes |-> (w[i] + v[i] + carry[i]) % LaneSize])

WSub(w, v) ==
    LET borrow[i \in Lanes] ==
          IF i = 1 \/ w[i - 1] >= v[i - 1] + borrow[i - 1] THEN 0 ELSE 1
    IN  Lanewise([i \in Lanes |-> (LaneSize + w[i] - v[i] - borrow[i]) % LaneSize])

\* w >> n for n below CharBits: bits move into the lane below.
WShiftRight(w, n) ==
    Lanewise([i \in Lanes |->
        w[i] \div 2 ^ n
        + IF i = kCharsPerBlock THEN 0
          ELSE (w[i + 1] % 2 ^ n) * 2 ^ (CharBits - n)])

\* w << (n * CharBits).
WShiftLanes(w, n) == Lanewise([i \in Lanes |-> IF i <= n THEN 0 ELSE w[i - n]])

\* The lane of the lowest bit that is set (_BitScanForward64, divided).
LowestLane(w) == Min({i \in Lanes : w[i] # 0}) - 1

-----------------------------------------------------------------------------
(***************************************************************************)
(* Characters.  A CHAR is signed: the codes from 128 on are negative.      *)
(***************************************************************************)
Code(c)   == c % LaneSize                                 \* the unsigned cast
TChar(v)  == IF CharBits = 8 /\ v >= 128 THEN v - LaneSize ELSE v
kSep      == 92
At(s, i)  == s[i + 1]

IsPathSeparator(c) == c = kSep

CharToUint64(c) == Lanewise([i \in Lanes |-> IF i = 1 THEN Code(c) ELSE 0])

\* The kernel's upper case of the characters that are not ASCII.
RtlUpcaseUnicodeChar(c) == CASE c = 228 -> 196 [] c = 255 -> 376 [] OTHER -> c

ToUpperFast(c) ==
    IF CharBits = 8 \/ c <= 127
    THEN TChar(Code(c) - IF Code(c) \in 97 .. 122 THEN 32 ELSE 0)
    ELSE RtlUpcaseUnicodeChar(c)

Fold(ci, s) == IF ci THEN [i \in DOMAIN s |-> ToUpperFast(s[i])] ELSE s

\* memcpy of a word from offset i on.
Load(s, i) == Lanewise([k \in Lanes |-> Code(s[i + k])])

-----------------------------------------------------------------------------
IsAsciiSWAR(w) == WAnd(w, Splat(LaneSize - 128)) = Zero

\* 'a' and 'z' are 97 and 122; with the lane's high bit added to the
\* difference, the high bit of the result tells the order.
ToUpperSWAR(w) ==
    LET NotUnderA == WAdd(w, Splat(LaneSize \div 2 - 97))
        NotOverZ  == WSub(Splat(LaneSize \div 2 + 122), w)
        IsLower   == WAnd(WAnd(NotUnderA, NotOverZ), kHighBits)
    IN  WSub(w, WAnd(WShiftRight(IsLower, CharBits - 6), Splat(32)))

\* The high bit of each lane of w that is equal to the lane of mask; above
\* such a lane the borrow may set further bits.
EqualLanesRaw(w, mask) ==                                 \* mutant
    LET diff == WXor(w, mask) IN WAnd(WSub(diff, kLowBits), kHighBits)
EqualLanes(w, mask) ==
    LET diff == WXor(w, mask)
    IN  WAnd(WAnd(WSub(diff, kLowBits), WNot(diff)), kHighBits)

=============================================================================

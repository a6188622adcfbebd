-------------------------------- MODULE Mixing --------------------------------
(***************************************************************************)
(* Mix64 multiplies its argument by a constant and folds the two halves of *)
(* the double-width product.  64-bit builds use the processor's wide       *)
(* multiplication; 32-bit builds put the product together from the four    *)
(* products of the halves (KmStringPatternMatch.h).                        *)
(***************************************************************************)
EXTENDS Integers, Bitwise

CONSTANT HalfBits   \* 32 in the code; a word has twice as many bits

VARIABLES State, kPrime, result   \* the call; result -1 until it returns

vars == << State, kPrime, result >>

Half == 2 ^ HalfBits
Word == Half * Half

Lo(x) == x % Half                  \* static_cast<UINT32>(x)
Hi(x) == x \div Half               \* x >> 32

\* The prime is a parameter, as narrow words have no room for the code's.
Init == State \in 0 .. Word - 1 /\ kPrime \in 0 .. Word - 1 /\ result = -1

Low(x)  == x % Word
High(x) == x \div Word

Mix64Wide == Low(State * kPrime) ^^ High(State * kPrime)

\* The middle column: its carry goes into the upper half.
CrossTruncated(LL, HL, LH) == Lo(Hi(LL) + Lo(HL) + Lo(LH))   \* mutant
Cross(LL, HL, LH) == Hi(LL) + Lo(HL) + Lo(LH)

Mix64Narrow ==
    LET LL == Lo(State) * Lo(kPrime)
        HL == Hi(State) * Lo(kPrime)
        LH == Lo(State) * Hi(kPrime)
        HH == Hi(State) * Hi(kPrime)
        cross == Cross(LL, HL, LH)
        upper == Low(Hi(HL) + Hi(LH) + Hi(cross) + HH)
        lower == Low(cross * Half) | Lo(LL)
    IN  lower ^^ upper

Return(v) == result = -1 /\ result' = v /\ UNCHANGED << State, kPrime >>

Wide     == Return(Mix64Wide)
Narrow   == Return(Mix64Narrow)
Returned == result # -1 /\ UNCHANGED vars

Next == Wide \/ Narrow \/ Returned

Spec == Init /\ [][Next]_vars

-----------------------------------------------------------------------------
(***************************************************************************)
(* Every build folds the exact double-width product: no carry between the  *)
(* columns of the 32-bit fallback is lost or counted twice, so hashes do   *)
(* not depend on the build (Mix64).                                        *)
(***************************************************************************)
BuildsAgree ==
    result # -1 =>
        LET product == State * kPrime
        IN  \A b \in 0 .. 2 * HalfBits - 1 :
               (result \div 2 ^ b) % 2 =
                   ((product \div 2 ^ b) + (product \div (Word * 2 ^ b))) % 2

=============================================================================

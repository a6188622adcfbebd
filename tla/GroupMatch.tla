------------------------------ MODULE GroupMatch ------------------------------
(***************************************************************************)
(* One group of a probe in FindValueInternal: the control bytes are loaded *)
(* as a word, SwarMatch marks the bytes equal to h2, and the loop visits   *)
(* the marked slots from the lowest on and compares their keys.  A slot    *)
(* that is empty holds no key to compare with.                             *)
(***************************************************************************)
EXTENDS CharWords

CONSTANTS
    Tags    \* control bytes of occupied slots, 7 bits

kEmptyCtrl == 255

VARIABLES
    ctrlBlock, h2,
    match,         \* the marks that are left
    visited,       \* the slots whose keys were compared, in order
    pc             \* "load", "visit", or the way the group was left

vars == << ctrlBlock, h2, match, visited, pc >>

Init ==
    /\ ctrlBlock \in [Lanes -> Tags \cup {kEmptyCtrl}]
    /\ h2 \in Tags
    /\ match = Zero /\ visited = << >> /\ pc = "load"

SwarMatchBorrow(Block, MatchByte) ==                      \* mutant
    EqualLanes(Block, Splat(MatchByte))
SwarMatch(Block, MatchByte) ==
    LET xorBlock == WXor(Block, Splat(MatchByte))
        sum      == WAdd(WAnd(WNot(xorBlock), Splat(127)), kLowBits)
    IN  WAnd(WAnd(sum, WNot(xorBlock)), kHighBits)

LoadGroup ==
    /\ pc = "load"
    /\ match' = SwarMatch(ctrlBlock, h2) /\ pc' = "visit"
    /\ UNCHANGED << ctrlBlock, h2, visited >>

\* match & (match - 1) drops the lowest mark.
DropLowest(w) == WAnd(w, WSub(w, [Zero EXCEPT ![1] = 1]))

Visit(equal) ==
    /\ pc = "visit" /\ match # Zero
    /\ visited' = Append(visited, LowestLane(match))
    /\ IF equal THEN pc' = "found" /\ UNCHANGED match
       ELSE match' = DropLowest(match) /\ UNCHANGED pc
    /\ UNCHANGED << ctrlBlock, h2 >>

Leave ==
    /\ pc = "visit" /\ match = Zero
    /\ pc' = IF WAnd(ctrlBlock, kHighBits) # Zero THEN "absent" ELSE "next group"
    /\ UNCHANGED << ctrlBlock, h2, match, visited >>

Done == pc \in {"found", "absent", "next group"} /\ UNCHANGED vars

Next == LoadGroup \/ (\E equal \in BOOLEAN : Visit(equal)) \/ Leave \/ Done

Spec == Init /\ [][Next]_vars

-----------------------------------------------------------------------------
Equals == {k \in 0 .. kCharsPerBlock - 1 : ctrlBlock[k + 1] = h2}

(***************************************************************************)
(* The slots compared are slots with the tag h2, in ascending order and    *)
(* without a gap, so an empty slot's storage is never read as a key; and   *)
(* the group is left without a hit only after all of them, to the next     *)
(* group only if no slot is empty (SwarMatch: no borrow between bytes).    *)
(***************************************************************************)
VisitsExact ==
    /\ \A n \in DOMAIN visited :
          visited[n] \in Equals /\ Cardinality({k \in Equals : k < visited[n]}) = n - 1
    /\ pc \in {"absent", "next group"} => Len(visited) = Cardinality(Equals)
    /\ pc = "next group" => \A k \in Lanes : ctrlBlock[k] # kEmptyCtrl
    /\ pc = "absent" => \E k \in Lanes : ctrlBlock[k] = kEmptyCtrl

=============================================================================

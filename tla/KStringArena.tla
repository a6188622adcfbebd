----------------------------- MODULE KStringArena -----------------------------
(***************************************************************************)
(* KStringArena: character buffers carved out of a singly linked chain of  *)
(* pool slabs, with one open bookmark to roll a transaction back to.       *)
(*                                                                         *)
(* The loops that free slabs take one action per turn, so that the order   *)
(* "read Next, free, move on" is visible.  Sizes are in characters.        *)
(***************************************************************************)
EXTENDS Integers, Sequences

CONSTANTS
    Addr,       \* addresses ExAllocatePool2 can return
    NULL,
    CharAlign,  \* 8 / sizeof(TChar)
    SlabChars,  \* characters in a slab of 4096 bytes
    MaxLength,  \* longest Length that passes the overflow test
    Lengths     \* lengths the callers ask for

ASSUME NullAssumption   == NULL \notin Addr
ASSUME AlignAssumption  == CharAlign \in {4, 8}
ASSUME SizeAssumption   == /\ SlabChars \in Nat /\ MaxLength \in Nat
                           /\ Lengths \subseteq Nat

VARIABLES
    m_Head, m_Tail,
    slabs,      \* the slab header at every address
    pool,       \* the addresses the arena owns
    mark,       \* the caller's open bookmark, NoMark if there is none
    pc,         \* "idle", or the operation whose loop is freeing slabs
    pCurrent,   \* the loop's cursor
    chain,      \* history: the slabs in the order they were linked
    live,       \* history: the buffers in use
    saved       \* history: chain and live at the open bookmark

vars == << m_Head, m_Tail, slabs, pool, mark, pc, pCurrent, chain, live, saved >>

AddrOrNull == Addr \cup {NULL}
Slab    == [Next : AddrOrNull, Capacity : Nat, Used : Nat]
Freed   == [Next |-> NULL, Capacity |-> 0, Used |-> 0]
Buffers == [slab : Addr, off : Nat, len : Nat]
NoMark  == [TailSlab |-> NULL, UsedChars |-> 0, open |-> FALSE]

AlignNot(n) == n    \* mutant
AlignUp(n) == ((n + (CharAlign - 1)) \div CharAlign) * CharAlign

Init ==
    /\ m_Head = NULL /\ m_Tail = NULL
    /\ slabs = [a \in Addr |-> Freed] /\ pool = {}
    /\ mark = NoMark /\ pc = "idle" /\ pCurrent = NULL
    /\ chain = << >> /\ live = {}
    /\ saved = [chain |-> << >>, live |-> {}]

-----------------------------------------------------------------------------
\* Length 0 and lengths whose byte size would overflow return nullptr.
Acceptable(n) == n # 0 /\ n <= MaxLength

TailHasRoom(n) ==
    m_Tail # NULL /\ slabs[m_Tail].Capacity - slabs[m_Tail].Used >= AlignUp(n)

\* The pool is short of memory, or Length is refused: nothing changes.
AllocateFails(n) ==
    /\ pc = "idle"
    /\ ~Acceptable(n) \/ ~TailHasRoom(n)
    /\ UNCHANGED vars

AllocateWithoutUse(n) ==    \* mutant: the fill is not advanced
    /\ pc = "idle" /\ Acceptable(n) /\ TailHasRoom(n)
    /\ live' = live \cup
         {[slab |-> m_Tail, off |-> slabs[m_Tail].Used, len |-> n]}
    /\ UNCHANGED << m_Head, m_Tail, slabs, pool, mark, pc, pCurrent, chain, saved >>

AllocateInTail(n) ==
    /\ pc = "idle" /\ Acceptable(n) /\ TailHasRoom(n)
    /\ slabs' = [slabs EXCEPT ![m_Tail].Used = @ + AlignUp(n)]
    /\ live' = live \cup
         {[slab |-> m_Tail, off |-> slabs[m_Tail].Used, len |-> n]}
    /\ UNCHANGED << m_Head, m_Tail, pool, mark, pc, pCurrent, chain, saved >>

\* The capacity of a new slab: a page, or what a longer request needs.
NewCapacity(n) == IF AlignUp(n) < SlabChars THEN SlabChars ELSE AlignUp(n)

NewSlab(n) == [Next |-> NULL, Capacity |-> NewCapacity(n), Used |-> AlignUp(n)]

AllocateInNewSlab(n) ==
    /\ pc = "idle" /\ Acceptable(n) /\ ~TailHasRoom(n)
    /\ \E a \in Addr \ pool :
         /\ pool' = pool \cup {a}
         /\ slabs' = IF m_Tail # NULL
                     THEN [slabs EXCEPT ![m_Tail].Next = a, ![a] = NewSlab(n)]
                     ELSE [slabs EXCEPT ![a] = NewSlab(n)]
         /\ m_Head' = IF m_Tail # NULL THEN m_Head ELSE a
         /\ m_Tail' = a
         /\ chain' = Append(chain, a)
         /\ live' = live \cup {[slab |-> a, off |-> 0, len |-> n]}
    /\ UNCHANGED << mark, pc, pCurrent, saved >>

Allocate == \E n \in Lengths :
    AllocateFails(n) \/ AllocateInTail(n) \/ AllocateInNewSlab(n)

GetBookmark ==
    /\ pc = "idle" /\ ~mark.open
    /\ mark' = [TailSlab  |-> m_Tail,
                UsedChars |-> IF m_Tail # NULL THEN slabs[m_Tail].Used ELSE 0,
                open      |-> TRUE]
    /\ saved' = [chain |-> chain, live |-> live]
    /\ UNCHANGED << m_Head, m_Tail, slabs, pool, pc, pCurrent, chain, live >>

\* The transaction succeeded: its caller forgets the bookmark.
Commit ==
    /\ pc = "idle" /\ mark.open
    /\ mark' = NoMark
    /\ UNCHANGED << m_Head, m_Tail, slabs, pool, pc, pCurrent, chain, live, saved >>

RevertForgetsFill ==    \* mutant
    /\ pc = "idle" /\ mark.open /\ m_Tail = mark.TailSlab
    /\ mark' = NoMark /\ live' = saved.live
    /\ UNCHANGED << m_Head, m_Tail, slabs, pool, pc, pCurrent, chain, saved >>

\* RevertBookmark when no slab was added since the bookmark.
RevertInTail ==
    /\ pc = "idle" /\ mark.open /\ m_Tail = mark.TailSlab
    /\ slabs' = IF m_Tail # NULL
                THEN [slabs EXCEPT ![m_Tail].Used = mark.UsedChars]
                ELSE slabs
    /\ mark' = NoMark /\ live' = saved.live
    /\ UNCHANGED << m_Head, m_Tail, pool, pc, pCurrent, chain, saved >>

\* RevertBookmark otherwise: free the slabs linked after the bookmark's.
RevertBegins ==
    /\ pc = "idle" /\ mark.open /\ m_Tail # mark.TailSlab
    /\ pc' = "revert"
    /\ pCurrent' = IF mark.TailSlab # NULL THEN slabs[mark.TailSlab].Next
                   ELSE m_Head
    /\ live' = saved.live
    /\ UNCHANGED << m_Head, m_Tail, slabs, pool, mark, chain, saved >>

\* One turn of a freeing loop: pNext is read before the slab is freed.
FreeAndGoTo(next) ==
    /\ pc \in {"revert", "clear"} /\ pCurrent # NULL
    /\ pool' = pool \ {pCurrent}
    /\ slabs' = [slabs EXCEPT ![pCurrent] = Freed]
    /\ pCurrent' = next
    /\ UNCHANGED << m_Head, m_Tail, mark, pc, chain, live, saved >>

FreeThenReadNext == FreeAndGoTo(Freed.Next)    \* mutant
FreeAndStay      == FreeAndGoTo(pCurrent)      \* mutant

FreeSlab == FreeAndGoTo(slabs[pCurrent].Next)

\* The end of the loop of RevertBookmark, with the Next the tail is given.
CutTailAt(next) ==
    /\ pc = "revert" /\ pCurrent = NULL
    /\ pc' = "idle"
    /\ m_Tail' = mark.TailSlab
    /\ IF mark.TailSlab # NULL
       THEN /\ slabs' = [slabs EXCEPT ![mark.TailSlab].Next = next,
                                      ![mark.TailSlab].Used = mark.UsedChars]
            /\ m_Head' = m_Head
       ELSE m_Head' = NULL /\ slabs' = slabs
    /\ mark' = NoMark /\ chain' = saved.chain
    /\ UNCHANGED << pool, pCurrent, live, saved >>

RevertLeavesLink == CutTailAt(slabs[mark.TailSlab].Next)    \* mutant

RevertEnds == CutTailAt(NULL)

\* Clear, and the destructor; the engine never clears inside a transaction.
ClearBegins ==
    /\ pc = "idle" /\ ~mark.open
    /\ pc' = "clear" /\ pCurrent' = m_Head
    /\ live' = {} /\ saved' = [chain |-> << >>, live |-> {}]
    /\ UNCHANGED << m_Head, m_Tail, slabs, pool, mark, chain >>

ClearEnds ==
    /\ pc = "clear" /\ pCurrent = NULL
    /\ pc' = "idle" /\ m_Head' = NULL /\ m_Tail' = NULL
    /\ chain' = << >>
    /\ UNCHANGED << slabs, pool, mark, pCurrent, live, saved >>

Next ==
    \/ Allocate \/ GetBookmark \/ Commit
    \/ RevertInTail \/ RevertBegins \/ RevertEnds
    \/ ClearBegins \/ ClearEnds \/ FreeSlab

Spec == Init /\ [][Next]_vars

\* A loop that was entered goes on: the arena runs on its caller's thread.
FairSpec == Spec /\ WF_vars(FreeSlab \/ RevertEnds \/ ClearEnds)

-----------------------------------------------------------------------------
TypeOK ==
    /\ m_Head \in AddrOrNull /\ m_Tail \in AddrOrNull
    /\ slabs \in [Addr -> Slab] /\ pool \in SUBSET Addr
    /\ mark \in [TailSlab : AddrOrNull, UsedChars : Nat, open : BOOLEAN]
    /\ pc \in {"idle", "revert", "clear"} /\ pCurrent \in AddrOrNull
    /\ chain \in Seq(Addr) /\ live \in SUBSET Buffers
    /\ saved \in [chain : Seq(Addr), live : SUBSET Buffers]

LastOrNull(c)  == IF Len(c) = 0 THEN NULL ELSE c[Len(c)]
FirstOrNull(c) == IF Len(c) = 0 THEN NULL ELSE c[1]

\* No leak and no dangling link: every slab the arena owns is reached once
\* from m_Head by Next, m_Tail is the last one, and nothing else is reached.
Chained ==
    /\ \A i, j \in 1 .. Len(chain) : chain[i] = chain[j] => i = j
    /\ \A i \in 1 .. Len(chain) : chain[i] \in pool =>
         slabs[chain[i]].Next = IF i < Len(chain) THEN chain[i + 1] ELSE NULL
    /\ pc = "idle" => /\ pool = {chain[i] : i \in 1 .. Len(chain)}
                      /\ m_Head = FirstOrNull(chain)
                      /\ m_Tail = LastOrNull(chain)

\* The freeing loops never read or free a slab that is already freed, and a
\* bookmark's slab is owned for as long as the bookmark is open.
NoUseAfterFree ==
    /\ pc # "idle" /\ pCurrent # NULL => pCurrent \in pool
    /\ mark.open /\ mark.TailSlab # NULL => mark.TailSlab \in pool

Abs == INSTANCE ArenaAbs WITH saved <- saved.live

\* Every buffer in use lies inside the used part of a slab that is owned,
\* starts on an 8-byte boundary, and overlaps no other buffer in use.
BuffersSafe ==
    /\ \A r \in live :
         /\ r.slab \in pool
         /\ r.off % CharAlign = 0
         /\ r.off + r.len <= slabs[r.slab].Used
         /\ slabs[r.slab].Used <= slabs[r.slab].Capacity
    /\ \A r, q \in live : r # q => ~Abs!Overlap(r, q)

\* A rollback leaves the slabs, and the fill of the last one, exactly as
\* they were at the bookmark.
RevertRestores ==
    [][ RevertInTail \/ RevertEnds =>
          /\ pool' = {saved.chain[i] : i \in 1 .. Len(saved.chain)}
          /\ m_Tail' = LastOrNull(saved.chain)
          /\ m_Tail' # NULL => slabs'[m_Tail'].Used = mark.UsedChars
          /\ m_Tail' # NULL => slabs'[m_Tail'].Next = NULL ]_vars

\* What the engine relies on: the arena implements the abstract one.
ImplementsArena == Abs!ASpec

\* Every rollback and every Clear comes to an end.
LoopsEnd == pc # "idle" ~> pc = "idle"

===============================================================================

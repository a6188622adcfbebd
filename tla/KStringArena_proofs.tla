-------------------------- MODULE KStringArena_proofs --------------------------
(***************************************************************************)
(* Proofs about KStringArena, for every set of pool addresses, slab size   *)
(* and sequence of requests.                                               *)
(***************************************************************************)
EXTENDS KStringArena, TLAPS

Slots(c) == 1 .. Len(c)
Owned(c) == {c[i] : i \in Slots(c)}

\* A slab is filled in aligned units and never past its end.
Fill ==
    \A a \in pool : /\ slabs[a].Used % CharAlign = 0
                    /\ slabs[a].Used <= slabs[a].Capacity

\* What an open bookmark remembers is a prefix of what there is now.
Bookmarked ==
    mark.open =>
      /\ Len(saved.chain) <= Len(chain)
      /\ \A i \in Slots(saved.chain) : saved.chain[i] = chain[i]
      /\ Owned(saved.chain) \subseteq pool
      /\ mark.TailSlab = LastOrNull(saved.chain)
      /\ mark.UsedChars % CharAlign = 0
      /\ mark.TailSlab # NULL => mark.UsedChars <= slabs[mark.TailSlab].Used
      /\ saved.live \subseteq live
      /\ \A r \in saved.live :
           /\ r.slab \in Owned(saved.chain)
           /\ r.slab = mark.TailSlab => r.off + r.len <= mark.UsedChars

\* Where a freeing loop stands: the slabs it keeps, and those from its
\* cursor on, are still owned.
Keep == IF pc = "revert" THEN Len(saved.chain) ELSE 0

Freeing ==
    pc # "idle" =>
      /\ pc = "revert" <=> mark.open
      /\ live = saved.live
      /\ pc = "clear" => live = {}
      /\ m_Head = FirstOrNull(chain)
      /\ \E j \in Keep + 1 .. Len(chain) + 1 :
           /\ pool = {chain[i] : i \in (1 .. Keep) \cup (j .. Len(chain))}
           /\ pCurrent = IF j <= Len(chain) THEN chain[j] ELSE NULL

IInv == TypeOK /\ Chained /\ Fill /\ Bookmarked /\ Freeing /\ BuffersSafe

-----------------------------------------------------------------------------
\* Rounding up to the alignment: Allocate's alignedLength holds the request
\* and keeps the fill of a slab a multiple of the alignment.
LEMMA AlignFacts ==
    ASSUME NEW n \in Nat
    PROVE  /\ AlignUp(n) \in Nat
           /\ AlignUp(n) >= n
           /\ AlignUp(n) % CharAlign = 0
<1>1. CASE CharAlign = 4 BY <1>1 DEF AlignUp
<1>2. CASE CharAlign = 8 BY <1>2 DEF AlignUp
<1> QED BY <1>1, <1>2, AlignAssumption

LEMMA AlignSum ==
    ASSUME NEW x \in Nat, NEW y \in Nat,
           x % CharAlign = 0, y % CharAlign = 0
    PROVE  (x + y) % CharAlign = 0
<1>1. CASE CharAlign = 4 BY <1>1
<1>2. CASE CharAlign = 8 BY <1>2
<1> QED BY <1>1, <1>2, AlignAssumption

LEMMA NewSlabFacts ==
    ASSUME NEW n \in Nat
    PROVE  /\ NewSlab(n) \in Slab
           /\ NewSlab(n).Next = NULL
           /\ NewSlab(n).Used = AlignUp(n)
           /\ NewSlab(n).Used <= NewSlab(n).Capacity
BY AlignFacts, SizeAssumption DEF NewSlab, NewCapacity, Slab, AddrOrNull

LEMMA FreedType == Freed \in Slab
BY DEF Freed, Slab, AddrOrNull

\* Changing the fill of one slab touches nothing else.
LEMMA SetUsed ==
    ASSUME NEW f \in [Addr -> Slab], NEW a \in Addr, NEW u \in Nat,
           NEW g, g = [f EXCEPT ![a].Used = u]
    PROVE  /\ g \in [Addr -> Slab]
           /\ \A b \in Addr : /\ g[b].Next = f[b].Next
                              /\ g[b].Capacity = f[b].Capacity
                              /\ g[b].Used = IF b = a THEN u ELSE f[b].Used
<1>1. [f[a] EXCEPT !.Used = u] \in Slab BY DEF Slab
<1>2. g = [f EXCEPT ![a] = [f[a] EXCEPT !.Used = u]] OBVIOUS
<1>3. g[a] = [f[a] EXCEPT !.Used = u] BY <1>2
<1>4. /\ g[a].Used = u
      /\ g[a].Next = f[a].Next
      /\ g[a].Capacity = f[a].Capacity
  BY <1>3 DEF Slab
<1>5. \A b \in Addr : b # a => g[b] = f[b] BY <1>2
<1> QED BY <1>1, <1>2, <1>4, <1>5

\* The arena's variables keep their types, whatever the pool returns.
LEMMA TypeStep == TypeOK /\ [Next]_vars => TypeOK'
<1> SUFFICES ASSUME TypeOK, [Next]_vars PROVE TypeOK'
  OBVIOUS
<1> USE DEF TypeOK
<1>1. ASSUME NEW n \in Lengths, AllocateFails(n) PROVE TypeOK'
  BY <1>1 DEF AllocateFails, vars
<1>2. ASSUME NEW n \in Lengths, AllocateInTail(n) PROVE TypeOK'
  <2>1. n \in Nat /\ AlignUp(n) \in Nat BY SizeAssumption, AlignFacts
  <2>2. m_Tail \in Addr BY <1>2 DEF AllocateInTail, TailHasRoom, AddrOrNull
  <2>3. slabs' \in [Addr -> Slab]
    <3>1. slabs[m_Tail].Used + AlignUp(n) \in Nat BY <2>1, <2>2 DEF Slab
    <3> QED BY <1>2, <2>2, <3>1, SetUsed DEF AllocateInTail
  <2>4. live' \in SUBSET Buffers
    BY <1>2, <2>1, <2>2 DEF AllocateInTail, Slab, Buffers
  <2> QED BY <1>2, <2>3, <2>4 DEF AllocateInTail
<1>3. ASSUME NEW n \in Lengths, AllocateInNewSlab(n) PROVE TypeOK'
  <2>1. n \in Nat /\ NewSlab(n) \in Slab BY SizeAssumption, NewSlabFacts
  <2>2. PICK a \in Addr \ pool : AllocateInNewSlab(n)!2!(a)
    BY <1>3 DEF AllocateInNewSlab
  <2>3. slabs' \in [Addr -> Slab]
    BY <2>1, <2>2 DEF Slab, AddrOrNull
  <2>4. live' \in SUBSET Buffers BY <2>1, <2>2 DEF Buffers
  <2>5. m_Head' \in AddrOrNull /\ m_Tail' \in AddrOrNull
        /\ pool' \in SUBSET Addr /\ chain' \in Seq(Addr)
    BY <2>2 DEF AddrOrNull
  <2> QED BY <1>3, <2>3, <2>4, <2>5 DEF AllocateInNewSlab
<1>4. CASE GetBookmark
  BY <1>4 DEF GetBookmark, AddrOrNull, Slab
<1>5. CASE Commit
  BY <1>5 DEF Commit, NoMark, AddrOrNull
<1>6. CASE RevertInTail
  BY <1>6 DEF RevertInTail, NoMark, AddrOrNull, Slab
<1>7. CASE RevertBegins
  BY <1>7 DEF RevertBegins, AddrOrNull, Slab
<1>8. CASE RevertEnds
  BY <1>8 DEF RevertEnds, CutTailAt, NoMark, AddrOrNull, Slab
<1>9. CASE ClearBegins
  BY <1>9 DEF ClearBegins
<1>10. CASE ClearEnds
  BY <1>10 DEF ClearEnds, AddrOrNull
<1>11. CASE FreeSlab
  BY <1>11, FreedType DEF FreeSlab, FreeAndGoTo, AddrOrNull, Slab
<1>12. CASE UNCHANGED vars
  BY <1>12 DEF vars
<1> QED
  BY <1>1, <1>2, <1>3, <1>4, <1>5, <1>6, <1>7, <1>8, <1>9, <1>10, <1>11, <1>12
     DEF Next, Allocate

\* Type correctness of the arena.
THEOREM TypeCorrect == Spec => []TypeOK
<1>1. Init => TypeOK
  BY FreedType DEF Init, TypeOK, AddrOrNull, Slab, NoMark
<1> QED BY <1>1, TypeStep, PTL DEF Spec

-----------------------------------------------------------------------------
\* When no loop runs, the last slab is owned and linked to nothing.
LEMMA TailFacts ==
    ASSUME IInv, pc = "idle", m_Tail # NULL
    PROVE  /\ m_Tail \in Addr /\ m_Tail \in pool
           /\ Len(chain) \in Nat /\ Len(chain) > 0
           /\ m_Tail = chain[Len(chain)]
           /\ slabs[m_Tail].Next = NULL
BY DEF IInv, TypeOK, Chained, LastOrNull, AddrOrNull

LEMMA AllocateInTailStep ==
    ASSUME IInv, NEW n \in Lengths, AllocateInTail(n), TypeOK'
    PROVE  IInv'
<1> DEFINE new == [slab |-> m_Tail, off |-> slabs[m_Tail].Used, len |-> n]
<1>1. n \in Nat /\ AlignUp(n) \in Nat /\ AlignUp(n) >= n
      /\ AlignUp(n) % CharAlign = 0
  BY SizeAssumption, AlignFacts
<1>2. pc = "idle" /\ m_Tail # NULL
      /\ slabs[m_Tail].Capacity - slabs[m_Tail].Used >= AlignUp(n)
  BY DEF AllocateInTail, TailHasRoom
<1>3. m_Tail \in Addr /\ m_Tail \in pool BY <1>2, TailFacts
<1>4. slabs[m_Tail].Used \in Nat /\ slabs[m_Tail].Capacity \in Nat
      /\ pool \subseteq Addr /\ slabs \in [Addr -> Slab]
  BY <1>3 DEF IInv, TypeOK, Slab
<1>5. \A b \in Addr :
        /\ slabs'[b].Next = slabs[b].Next
        /\ slabs'[b].Capacity = slabs[b].Capacity
        /\ slabs'[b].Used = IF b = m_Tail THEN slabs[m_Tail].Used + AlignUp(n)
                            ELSE slabs[b].Used
  <2>1. slabs[m_Tail].Used + AlignUp(n) \in Nat BY <1>1, <1>4
  <2>2. slabs' = [slabs EXCEPT ![m_Tail].Used = slabs[m_Tail].Used + AlignUp(n)]
    BY DEF AllocateInTail
  <2> QED BY <1>3, <1>4, <2>1, <2>2, SetUsed
<1>6. UNCHANGED << m_Head, m_Tail, pool, mark, pc, pCurrent, chain, saved >>
      /\ live' = live \cup {new}
  BY DEF AllocateInTail
<1>7. Chained'
  <2>1. \A i \in 1 .. Len(chain) : chain[i] \in Addr BY DEF IInv, TypeOK
  <2> QED BY <1>5, <1>6, <2>1 DEF IInv, Chained, FirstOrNull, LastOrNull
<1>8. Fill'
  <2>1. (slabs[m_Tail].Used + AlignUp(n)) % CharAlign = 0
    BY <1>1, <1>3, <1>4, AlignSum DEF IInv, Fill
  <2> QED BY <1>1, <1>2, <1>3, <1>4, <1>5, <1>6, <2>1 DEF IInv, Fill
<1>9. Bookmarked'
  <2>1. \A a \in Addr : slabs[a].Used \in Nat BY <1>4 DEF Slab
  <2>2. mark.TailSlab \in AddrOrNull /\ mark.UsedChars \in Nat
    BY DEF IInv, TypeOK
  <2>3. \A a \in Addr : slabs[a].Used <= slabs'[a].Used
    BY <1>1, <1>5, <2>1
  <2>4. mark.open /\ mark.TailSlab # NULL =>
          mark.UsedChars <= slabs'[mark.TailSlab].Used
    <3> SUFFICES ASSUME mark.open, mark.TailSlab # NULL
                 PROVE  mark.UsedChars <= slabs'[mark.TailSlab].Used
      OBVIOUS
    <3>1. mark.TailSlab \in Addr BY <2>2 DEF AddrOrNull
    <3>2. mark.UsedChars <= slabs[mark.TailSlab].Used
      BY DEF IInv, Bookmarked
    <3>3. slabs[mark.TailSlab].Used <= slabs'[mark.TailSlab].Used
          /\ slabs[mark.TailSlab].Used \in Nat
          /\ slabs'[mark.TailSlab].Used \in Nat
      BY <1>1, <1>5, <2>1, <2>3, <3>1
    <3> QED BY <2>2, <3>2, <3>3
  <2>5. saved.live \subseteq live' \/ ~mark.open
    BY <1>6 DEF IInv, Bookmarked
  <2> QED BY <1>6, <2>4, <2>5 DEF IInv, Bookmarked
<1>10. Freeing' BY <1>2, <1>6 DEF Freeing
<1>11. BuffersSafe'
  <2>1. ASSUME NEW r \in live
        PROVE  r.slab \in Addr /\ r.off \in Nat /\ r.len \in Nat
    BY DEF IInv, TypeOK, Buffers
  <2>2. \A a \in Addr : slabs[a].Used \in Nat BY <1>4 DEF Slab
  <2>3. \A r \in live' :
          /\ r.slab \in pool'
          /\ r.off % CharAlign = 0
          /\ r.off + r.len <= slabs'[r.slab].Used
    <3>1. ASSUME NEW r \in live
          PROVE  /\ r.slab \in pool'
                 /\ r.off % CharAlign = 0
                 /\ r.off + r.len <= slabs'[r.slab].Used
      BY <3>1, <1>1, <1>5, <1>6, <2>1, <2>2 DEF IInv, BuffersSafe
    <3>2. /\ new.slab \in pool'
          /\ new.off % CharAlign = 0
          /\ new.off + new.len <= slabs'[new.slab].Used
      BY <1>1, <1>3, <1>4, <1>5, <1>6 DEF IInv, Fill
    <3> QED BY <1>6, <3>1, <3>2
  <2>4. \A r \in live' : slabs'[r.slab].Used <= slabs'[r.slab].Capacity
    BY <1>8, <2>3 DEF Fill
  <2>5. \A r \in live : ~Abs!Overlap(r, new) /\ ~Abs!Overlap(new, r)
    BY <1>1, <1>4, <2>1 DEF IInv, BuffersSafe, Abs!Overlap
  <2>6. \A r, q \in live' : r # q => ~Abs!Overlap(r, q)
    BY <1>6, <2>5 DEF IInv, BuffersSafe
  <2> QED BY <2>3, <2>4, <2>6 DEF BuffersSafe
<1> QED BY <1>7, <1>8, <1>9, <1>10, <1>11 DEF IInv

LEMMA AllocateInNewSlabStep ==
    ASSUME IInv, NEW n \in Lengths, AllocateInNewSlab(n), TypeOK'
    PROVE  IInv'
<1>1. n \in Nat /\ AlignUp(n) \in Nat /\ AlignUp(n) >= n
      /\ AlignUp(n) % CharAlign = 0
  BY SizeAssumption, AlignFacts
<1>2. /\ NewSlab(n).Next = NULL
      /\ NewSlab(n).Used = AlignUp(n)
      /\ NewSlab(n).Used <= NewSlab(n).Capacity
  BY <1>1, NewSlabFacts
<1>3. PICK a \in Addr \ pool : AllocateInNewSlab(n)!2!(a)
  BY DEF AllocateInNewSlab
<1>4. pc = "idle" /\ UNCHANGED << mark, pc, pCurrent, saved >>
  BY DEF AllocateInNewSlab
<1>5. /\ slabs \in [Addr -> Slab] /\ pool \subseteq Addr
      /\ chain \in Seq(Addr) /\ Len(chain) \in Nat
      /\ \A i \in 1 .. Len(chain) : chain[i] \in Addr
      /\ pool = {chain[i] : i \in 1 .. Len(chain)}
      /\ m_Tail = LastOrNull(chain) /\ m_Head = FirstOrNull(chain)
      /\ a # NULL
  BY <1>4, NullAssumption DEF IInv, TypeOK, Chained
<1>6. /\ chain' \in Seq(Addr) /\ Len(chain') = Len(chain) + 1
      /\ chain'[Len(chain) + 1] = a
      /\ \A i \in 1 .. Len(chain) : chain'[i] = chain[i]
  BY <1>3, <1>5
<1>7. /\ \A b \in Addr : b # a =>
           /\ slabs'[b].Used = slabs[b].Used
           /\ slabs'[b].Capacity = slabs[b].Capacity
           /\ slabs'[b].Next = IF b = m_Tail THEN a ELSE slabs[b].Next
      /\ slabs'[a] = NewSlab(n)
  <2>1. CASE m_Tail # NULL
    <3>1. m_Tail \in Addr /\ m_Tail # a
      BY <1>4, <2>1, TailFacts, <1>3
    <3>2. slabs' = [slabs EXCEPT ![m_Tail].Next = a, ![a] = NewSlab(n)]
      BY <1>3, <2>1
    <3>3. slabs' = [[slabs EXCEPT ![m_Tail] = [slabs[m_Tail] EXCEPT !.Next = a]]
                      EXCEPT ![a] = NewSlab(n)]
      BY <3>2
    <3>4. slabs'[m_Tail] = [slabs[m_Tail] EXCEPT !.Next = a]
      BY <1>3, <1>5, <3>1, <3>3
    <3>5. /\ slabs'[m_Tail].Next = a
          /\ slabs'[m_Tail].Used = slabs[m_Tail].Used
          /\ slabs'[m_Tail].Capacity = slabs[m_Tail].Capacity
      BY <1>5, <3>1, <3>4 DEF Slab
    <3>6. \A b \in Addr : b # a /\ b # m_Tail => slabs'[b] = slabs[b]
      BY <1>5, <3>1, <3>3
    <3>7. slabs'[a] = NewSlab(n) BY <1>3, <1>5, <3>3
    <3> QED BY <3>5, <3>6, <3>7
  <2>2. CASE m_Tail = NULL
    BY <1>3, <1>5, <2>2, NullAssumption
  <2> QED BY <2>1, <2>2
<1>8. pool' = pool \cup {a} /\ m_Tail' = a
      /\ m_Head' = (IF m_Tail # NULL THEN m_Head ELSE a)
      /\ live' = live \cup {[slab |-> a, off |-> 0, len |-> n]}
  BY <1>3
<1>9. Chained'
  <2>1. \A i \in 1 .. Len(chain) : chain[i] # a BY <1>3, <1>5
  <2>2. \A i, j \in 1 .. Len(chain') : chain'[i] = chain'[j] => i = j
    BY <1>5, <1>6, <2>1 DEF IInv, Chained
  <2>3. pool' = {chain'[i] : i \in 1 .. Len(chain')}
    BY <1>5, <1>6, <1>8
  <2>4. m_Head' = FirstOrNull(chain') /\ m_Tail' = LastOrNull(chain')
    BY <1>5, <1>6, <1>8, NullAssumption DEF FirstOrNull, LastOrNull
  <2>5. \A i \in 1 .. Len(chain') : chain'[i] \in pool' =>
          slabs'[chain'[i]].Next =
            IF i < Len(chain') THEN chain'[i + 1] ELSE NULL
    <3>1. ASSUME NEW i \in 1 .. Len(chain), i < Len(chain)
          PROVE  slabs'[chain'[i]].Next = chain'[i + 1]
      <4>1. chain[i] # m_Tail
        BY <1>5, <3>1 DEF IInv, Chained, LastOrNull
      <4>2. slabs[chain[i]].Next = chain[i + 1]
        BY <1>5, <3>1 DEF IInv, Chained
      <4> QED BY <1>5, <1>6, <1>7, <2>1, <3>1, <4>1, <4>2
    <3>2. Len(chain) > 0 =>
            slabs'[chain'[Len(chain)]].Next = chain'[Len(chain) + 1]
      BY <1>5, <1>6, <1>7, <2>1 DEF LastOrNull
    <3>3. slabs'[chain'[Len(chain) + 1]].Next = NULL BY <1>2, <1>6, <1>7
    <3> QED BY <1>5, <1>6, <3>1, <3>2, <3>3
  <2> QED BY <1>4, <2>2, <2>3, <2>4, <2>5 DEF Chained
<1>10. Fill'
  <2>1. ASSUME NEW b \in pool'
        PROVE  slabs'[b].Used % CharAlign = 0 /\ slabs'[b].Used <= slabs'[b].Capacity
    <3>1. CASE b = a
      BY <1>1, <1>2, <1>7, <3>1
    <3>2. CASE b # a
      <4>1. b \in pool /\ slabs'[b].Used = slabs[b].Used /\ slabs'[b].Capacity = slabs[b].Capacity
        BY <1>3, <1>5, <1>7, <1>8, <2>1, <3>2
      <4> QED BY <4>1 DEF IInv, Fill
    <3> QED BY <3>1, <3>2
  <2> QED BY <2>1 DEF Fill
<1>11. Bookmarked'
  <2>1. mark.TailSlab \in AddrOrNull /\ saved.chain \in Seq(Addr)
        /\ saved.live \subseteq Buffers
    BY DEF IInv, TypeOK
  <2>2. ASSUME mark.open
        PROVE  /\ Len(saved.chain) <= Len(chain')
               /\ \A i \in 1 .. Len(saved.chain) : saved.chain[i] = chain'[i]
    BY <1>5, <1>6, <2>1, <2>2 DEF IInv, Bookmarked, Slots
  <2>3. ASSUME mark.open, mark.TailSlab # NULL
        PROVE  slabs'[mark.TailSlab].Used = slabs[mark.TailSlab].Used
    <3>1. mark.TailSlab \in pool
      BY <2>1, <2>3 DEF IInv, Bookmarked, LastOrNull, Owned, Slots
    <3> QED BY <1>3, <1>5, <1>7, <3>1
  <2> QED BY <1>4, <1>8, <2>2, <2>3
             DEF IInv, Bookmarked, Slots, Owned
<1>12. Freeing' BY <1>4 DEF Freeing
<1>13. BuffersSafe'
  <2> DEFINE new == [slab |-> a, off |-> 0, len |-> n]
  <2>1. \A r \in live : r.slab \in pool /\ r.slab # a
    BY <1>3 DEF IInv, BuffersSafe
  <2>2. \A r \in live :
          /\ r.slab \in pool'
          /\ r.off % CharAlign = 0
          /\ r.off + r.len <= slabs'[r.slab].Used
    BY <1>5, <1>7, <1>8, <2>1 DEF IInv, BuffersSafe
  <2>3. new.slab \in pool' /\ new.off % CharAlign = 0
        /\ new.off + new.len <= slabs'[new.slab].Used
    BY <1>1, <1>2, <1>7, <1>8, AlignAssumption
  <2>4. \A r \in live' : slabs'[r.slab].Used <= slabs'[r.slab].Capacity
    BY <1>8, <1>10, <2>2, <2>3 DEF Fill
  <2>5. \A r, q \in live' : r # q => ~Abs!Overlap(r, q)
    BY <1>8, <2>1 DEF IInv, BuffersSafe, Abs!Overlap
  <2> QED BY <1>8, <2>2, <2>3, <2>4, <2>5 DEF BuffersSafe
<1> QED BY <1>9, <1>10, <1>11, <1>12, <1>13 DEF IInv

LEMMA BookmarkStep ==
    ASSUME IInv, GetBookmark, TypeOK'
    PROVE  IInv'
<1>1. /\ pc = "idle" /\ saved'.chain = chain /\ saved'.live = live
      /\ mark'.TailSlab = m_Tail
      /\ mark'.UsedChars = IF m_Tail # NULL THEN slabs[m_Tail].Used ELSE 0
      /\ UNCHANGED << m_Head, m_Tail, slabs, pool, pc, pCurrent, chain, live >>
  BY DEF GetBookmark
<1>2. Chained' BY <1>1 DEF IInv, Chained, FirstOrNull, LastOrNull
<1>3. Fill' BY <1>1 DEF IInv, Fill
<1>4. BuffersSafe' BY <1>1 DEF IInv, BuffersSafe
<1>5. Freeing' BY <1>1 DEF Freeing
<1>6. Bookmarked'
  <2>1. mark'.UsedChars % CharAlign = 0
    <3>1. CASE m_Tail # NULL BY <1>1, <3>1, TailFacts DEF IInv, Fill
    <3>2. CASE m_Tail = NULL BY <1>1, <3>2, AlignAssumption
    <3> QED BY <3>1, <3>2
  <2>2. m_Tail # NULL => slabs[m_Tail].Used \in Nat
    BY <1>1, TailFacts DEF IInv, TypeOK, Slab
  <2>3. \A r \in live : /\ r.slab \in Owned(chain)
                        /\ r.slab = m_Tail => r.off + r.len <= slabs[m_Tail].Used
                        /\ r.slab # NULL
    BY <1>1, NullAssumption DEF IInv, TypeOK, BuffersSafe, Chained, Owned, Slots
  <2>4. pool = Owned(chain) /\ m_Tail = LastOrNull(chain) /\ Len(chain) \in Nat
    BY <1>1 DEF IInv, TypeOK, Chained, Owned, Slots
  <2> QED BY <1>1, <2>1, <2>2, <2>3, <2>4 DEF Bookmarked, Slots, Owned, LastOrNull
<1> QED BY <1>2, <1>3, <1>4, <1>5, <1>6 DEF IInv

LEMMA CommitStep ==
    ASSUME IInv, Commit, TypeOK'
    PROVE  IInv'
<1>1. /\ pc = "idle" /\ ~mark'.open
      /\ UNCHANGED << m_Head, m_Tail, slabs, pool, pc, pCurrent, chain, live, saved >>
  BY DEF Commit, NoMark
<1>2. Chained' BY <1>1 DEF IInv, Chained, FirstOrNull, LastOrNull
<1>3. Fill' BY <1>1 DEF IInv, Fill
<1>4. BuffersSafe' BY <1>1 DEF IInv, BuffersSafe
<1>5. Freeing' BY <1>1 DEF Freeing
<1>6. Bookmarked' BY <1>1 DEF Bookmarked
<1> QED BY <1>2, <1>3, <1>4, <1>5, <1>6 DEF IInv

\* If the last slab is still the bookmark's, no slab was added since.
LEMMA NothingAdded ==
    ASSUME IInv, pc = "idle", mark.open, m_Tail = mark.TailSlab
    PROVE  Len(saved.chain) = Len(chain) /\ pool = Owned(saved.chain)
<1>1. /\ chain \in Seq(Addr) /\ Len(chain) \in Nat
      /\ saved.chain \in Seq(Addr) /\ Len(saved.chain) \in Nat
      /\ \A i \in 1 .. Len(chain) : chain[i] \in Addr
  BY DEF IInv, TypeOK
<1>2. /\ Len(saved.chain) <= Len(chain)
      /\ \A i \in 1 .. Len(saved.chain) : saved.chain[i] = chain[i]
      /\ LastOrNull(saved.chain) = LastOrNull(chain)
      /\ pool = {chain[i] : i \in 1 .. Len(chain)}
  BY DEF IInv, Bookmarked, Chained, Slots
<1>3. \A i, j \in 1 .. Len(chain) : chain[i] = chain[j] => i = j
  BY DEF IInv, Chained
<1>4. Len(saved.chain) = Len(chain)
  <2>1. CASE Len(chain) = 0 BY <1>1, <1>2, <2>1
  <2>2. CASE Len(chain) # 0
    <3>1. chain[Len(chain)] \in Addr /\ LastOrNull(chain) = chain[Len(chain)]
      BY <1>1, <2>2 DEF LastOrNull
    <3>2. Len(saved.chain) # 0
          /\ LastOrNull(saved.chain) = saved.chain[Len(saved.chain)]
      BY <1>2, <3>1, NullAssumption DEF LastOrNull
    <3>3. chain[Len(saved.chain)] = chain[Len(chain)] BY <1>1, <1>2, <3>1, <3>2
    <3> QED BY <1>1, <1>2, <1>3, <2>2, <3>2, <3>3
  <2> QED BY <2>1, <2>2
<1> QED BY <1>1, <1>2, <1>4 DEF Owned, Slots

LEMMA RevertInTailStep ==
    ASSUME IInv, RevertInTail, TypeOK'
    PROVE  IInv'
<1>1. /\ pc = "idle" /\ mark.open /\ m_Tail = mark.TailSlab
      /\ ~mark'.open /\ live' = saved.live
      /\ UNCHANGED << m_Head, m_Tail, pool, pc, pCurrent, chain, saved >>
  BY DEF RevertInTail, NoMark
<1>2. /\ slabs \in [Addr -> Slab] /\ pool \subseteq Addr
      /\ mark.UsedChars \in Nat
      /\ \A i \in 1 .. Len(chain) : chain[i] \in Addr
      /\ saved.live \subseteq live /\ live \subseteq Buffers
  BY <1>1 DEF IInv, TypeOK, Bookmarked
<1>3. \A b \in Addr :
        /\ slabs'[b].Next = slabs[b].Next
        /\ slabs'[b].Capacity = slabs[b].Capacity
        /\ slabs'[b].Used = IF b = m_Tail THEN mark.UsedChars ELSE slabs[b].Used
  <2>1. CASE m_Tail # NULL
    <3>1. m_Tail \in Addr BY <1>1, <2>1, TailFacts
    <3>2. slabs' = [slabs EXCEPT ![m_Tail].Used = mark.UsedChars]
      BY <2>1 DEF RevertInTail
    <3> QED BY <1>2, <3>1, <3>2, SetUsed
  <2>2. CASE m_Tail = NULL
    BY <2>2, NullAssumption DEF RevertInTail
  <2> QED BY <2>1, <2>2
<1>4. Chained' BY <1>1, <1>2, <1>3 DEF IInv, Chained, FirstOrNull, LastOrNull
<1>5. Fill'
  <2>1. \A b \in Addr : slabs[b].Used \in Nat /\ slabs[b].Capacity \in Nat
    BY <1>2 DEF Slab
  <2>2. m_Tail # NULL => mark.UsedChars <= slabs[m_Tail].Used
    BY <1>1 DEF IInv, Bookmarked
  <2>3. mark.UsedChars % CharAlign = 0 BY <1>1 DEF IInv, Bookmarked
  <2> QED BY <1>1, <1>2, <1>3, <2>1, <2>2, <2>3, NullAssumption DEF IInv, Fill
<1>6. BuffersSafe'
  <2>1. \A r \in saved.live :
          /\ r.slab \in pool /\ r.off % CharAlign = 0
          /\ r.off + r.len <= slabs'[r.slab].Used
    BY <1>1, <1>2, <1>3 DEF IInv, BuffersSafe, Bookmarked
  <2> QED BY <1>1, <1>2, <1>5, <2>1 DEF IInv, BuffersSafe, Fill
<1>7. Freeing' BY <1>1 DEF Freeing
<1>8. Bookmarked' BY <1>1 DEF Bookmarked
<1> QED BY <1>4, <1>5, <1>6, <1>7, <1>8 DEF IInv

LEMMA RevertBeginsStep ==
    ASSUME IInv, RevertBegins, TypeOK'
    PROVE  IInv'
<1>1. /\ pc = "idle" /\ pc' = "revert" /\ mark.open /\ live' = saved.live
      /\ UNCHANGED << m_Head, m_Tail, slabs, pool, mark, chain, saved >>
  BY DEF RevertBegins
<1>2. /\ chain \in Seq(Addr) /\ Len(chain) \in Nat
      /\ saved.chain \in Seq(Addr) /\ Len(saved.chain) \in Nat
      /\ Len(saved.chain) <= Len(chain)
      /\ \A i \in 1 .. Len(saved.chain) : saved.chain[i] = chain[i]
      /\ mark.TailSlab = LastOrNull(saved.chain)
      /\ pool = {chain[i] : i \in 1 .. Len(chain)}
      /\ m_Head = FirstOrNull(chain)
      /\ saved.live \subseteq live
  BY <1>1 DEF IInv, TypeOK, Bookmarked, Chained, Slots
<1>3. \A i \in 1 .. Len(chain) : chain[i] \in Addr /\ chain[i] # NULL
  BY <1>2, NullAssumption
<1>4. pCurrent' = IF Len(saved.chain) + 1 <= Len(chain)
                  THEN chain[Len(saved.chain) + 1] ELSE NULL
  <2>1. CASE Len(saved.chain) = 0
    BY <1>2, <2>1 DEF RevertBegins, LastOrNull, FirstOrNull
  <2>2. CASE Len(saved.chain) > 0
    <3>1. mark.TailSlab = chain[Len(saved.chain)] /\ mark.TailSlab # NULL
          /\ chain[Len(saved.chain)] \in pool
      BY <1>2, <1>3, <2>2 DEF LastOrNull
    <3>2. pCurrent' = slabs[chain[Len(saved.chain)]].Next
      BY <3>1 DEF RevertBegins
    <3> QED BY <1>2, <2>2, <3>1, <3>2 DEF IInv, Chained
  <2> QED BY <1>2, <2>1, <2>2
<1>5. Freeing'
  <2>1. /\ Len(saved.chain) + 1 \in Len(saved.chain) + 1 .. Len(chain) + 1
        /\ pool = {chain[i] : i \in (1 .. Len(saved.chain))
                                    \cup (Len(saved.chain) + 1 .. Len(chain))}
    BY <1>2
  <2> QED BY <1>1, <1>2, <1>4, <2>1 DEF Freeing, Keep, FirstOrNull
<1>6. Chained' BY <1>1 DEF IInv, Chained
<1>7. Fill' BY <1>1 DEF IInv, Fill
<1>8. Bookmarked' BY <1>1, <1>2 DEF IInv, Bookmarked, Owned, Slots, LastOrNull
<1>9. BuffersSafe' BY <1>1, <1>2 DEF IInv, BuffersSafe
<1> QED BY <1>5, <1>6, <1>7, <1>8, <1>9 DEF IInv

LEMMA FreeSlabStep ==
    ASSUME IInv, FreeSlab, TypeOK'
    PROVE  IInv'
<1>1. /\ pc # "idle" /\ pCurrent # NULL
      /\ pool' = pool \ {pCurrent} /\ pCurrent' = slabs[pCurrent].Next
      /\ slabs' = [slabs EXCEPT ![pCurrent] = Freed]
      /\ UNCHANGED << m_Head, m_Tail, mark, pc, chain, live, saved >>
  BY DEF FreeSlab, FreeAndGoTo
<1>2. /\ chain \in Seq(Addr) /\ Len(chain) \in Nat
      /\ saved.chain \in Seq(Addr) /\ Len(saved.chain) \in Nat
      /\ slabs \in [Addr -> Slab] /\ pool \subseteq Addr
      /\ pc \in {"revert", "clear"} /\ Keep \in Nat
      /\ \A i \in 1 .. Len(chain) : chain[i] \in Addr
      /\ \A i, j \in 1 .. Len(chain) : chain[i] = chain[j] => i = j
  BY <1>1 DEF IInv, TypeOK, Chained, Keep
<1>3. /\ pc = "revert" <=> mark.open
      /\ live = saved.live
      /\ pc = "clear" => live = {}
      /\ m_Head = FirstOrNull(chain)
  BY <1>1 DEF IInv, Freeing
<1>4. PICK j \in Keep + 1 .. Len(chain) + 1 :
        /\ pool = {chain[i] : i \in (1 .. Keep) \cup (j .. Len(chain))}
        /\ pCurrent = IF j <= Len(chain) THEN chain[j] ELSE NULL
  BY <1>1 DEF IInv, Freeing
<1>5. j \in 1 .. Len(chain) /\ pCurrent = chain[j] /\ chain[j] \in pool
      /\ chain[j] \in Addr
  BY <1>1, <1>2, <1>4
<1>6. \A b \in pool' : slabs'[b] = slabs[b] BY <1>1, <1>2
<1>7. Keep <= Len(chain)
  BY <1>2, <1>4
<1>8. pool' = {chain[i] : i \in (1 .. Keep) \cup (j + 1 .. Len(chain))}
  BY <1>1, <1>2, <1>4, <1>5, <1>7
<1>9. pCurrent' = IF j + 1 <= Len(chain) THEN chain[j + 1] ELSE NULL
  BY <1>1, <1>2, <1>5 DEF IInv, Chained
<1>10. Freeing'
  <2>1. j + 1 \in Keep + 1 .. Len(chain) + 1 BY <1>2, <1>4, <1>5
  <2>2. Keep' = Keep BY <1>1 DEF Keep
  <2>3. \E k \in Keep' + 1 .. Len(chain') + 1 :
          /\ pool' = {chain'[i] : i \in (1 .. Keep') \cup (k .. Len(chain'))}
          /\ pCurrent' = IF k <= Len(chain') THEN chain'[k] ELSE NULL
    BY <1>1, <1>8, <1>9, <2>1, <2>2
  <2> QED BY <1>1, <1>3, <2>3 DEF Freeing, FirstOrNull
<1>11. Chained' BY <1>1, <1>6 DEF IInv, Chained
<1>12. Fill' BY <1>1, <1>6 DEF IInv, Fill
<1>13. Owned(saved.chain) \subseteq pool' \/ ~mark.open
  <2>1. SUFFICES ASSUME mark.open PROVE Owned(saved.chain) \subseteq pool'
    OBVIOUS
  <2>2. Keep = Len(saved.chain)
        /\ \A i \in 1 .. Len(saved.chain) : saved.chain[i] = chain[i]
    BY <2>1, <1>3 DEF Keep, IInv, Bookmarked, Slots
  <2> QED BY <1>8, <2>2 DEF Owned, Slots
<1>14. Bookmarked'
  <2>1. SUFFICES ASSUME mark.open PROVE Bookmarked'
    BY <1>1 DEF Bookmarked
  <2>2. mark.TailSlab # NULL => mark.TailSlab \in pool'
    BY <1>2, <1>13, <2>1 DEF IInv, Bookmarked, LastOrNull, Owned, Slots
  <2> QED BY <1>1, <1>6, <1>13, <2>1, <2>2
             DEF IInv, Bookmarked, Owned, Slots, LastOrNull
<1>15. BuffersSafe'
  <2>1. \A r \in live : r.slab \in pool'
    BY <1>2, <1>3, <1>13 DEF IInv, Bookmarked
  <2> QED BY <1>1, <1>6, <2>1 DEF IInv, BuffersSafe
<1> QED BY <1>10, <1>11, <1>12, <1>14, <1>15 DEF IInv

\* When the loop of RevertBookmark is done, exactly the slabs that were
\* there at the bookmark are left.
LEMMA RevertLoopDone ==
    ASSUME IInv, pc = "revert", pCurrent = NULL
    PROVE  pool = Owned(saved.chain)
<1>1. PICK j \in Keep + 1 .. Len(chain) + 1 :
        /\ pool = {chain[i] : i \in (1 .. Keep) \cup (j .. Len(chain))}
        /\ pCurrent = IF j <= Len(chain) THEN chain[j] ELSE NULL
  BY DEF IInv, Freeing
<1>2. /\ Len(chain) \in Nat /\ Len(saved.chain) \in Nat
      /\ \A i \in 1 .. Len(chain) : chain[i] # NULL
      /\ \A i \in 1 .. Len(saved.chain) : saved.chain[i] = chain[i]
      /\ Keep = Len(saved.chain)
  BY NullAssumption DEF IInv, TypeOK, Freeing, Bookmarked, Slots, Keep
<1>3. j = Len(chain) + 1 BY <1>1, <1>2
<1>4. (1 .. Keep) \cup (j .. Len(chain)) = 1 .. Len(saved.chain) BY <1>2, <1>3
<1> QED BY <1>1, <1>2, <1>4 DEF Owned, Slots

LEMMA RevertEndsStep ==
    ASSUME IInv, RevertEnds, TypeOK'
    PROVE  IInv'
<1>1. /\ pc = "revert" /\ pCurrent = NULL /\ pc' = "idle"
      /\ m_Tail' = mark.TailSlab /\ ~mark'.open /\ chain' = saved.chain
      /\ UNCHANGED << pool, pCurrent, live, saved >>
  BY DEF RevertEnds, CutTailAt, NoMark
<1>2. /\ mark.open /\ live = saved.live /\ m_Head = FirstOrNull(chain)
      /\ pool = Owned(saved.chain)
  BY <1>1, RevertLoopDone DEF IInv, Freeing
<1>3. /\ chain \in Seq(Addr) /\ Len(chain) \in Nat
      /\ saved.chain \in Seq(Addr) /\ Len(saved.chain) \in Nat
      /\ slabs \in [Addr -> Slab] /\ pool \subseteq Addr
      /\ Len(saved.chain) <= Len(chain)
      /\ \A i \in 1 .. Len(saved.chain) : saved.chain[i] = chain[i]
      /\ mark.TailSlab = LastOrNull(saved.chain)
      /\ mark.UsedChars \in Nat /\ mark.UsedChars % CharAlign = 0
      /\ \A i \in 1 .. Len(saved.chain) : /\ saved.chain[i] \in Addr
                                          /\ saved.chain[i] \in pool
                                          /\ saved.chain[i] # NULL
  BY <1>2, NullAssumption DEF IInv, TypeOK, Bookmarked, Owned, Slots
<1>4. \A b \in Addr :
        /\ slabs'[b].Capacity = slabs[b].Capacity
        /\ slabs'[b].Used = IF b = mark.TailSlab THEN mark.UsedChars
                            ELSE slabs[b].Used
        /\ slabs'[b].Next = IF b = mark.TailSlab THEN NULL ELSE slabs[b].Next
  <2>1. CASE mark.TailSlab # NULL
    <3> DEFINE t == mark.TailSlab
    <3>1. t \in Addr BY <1>3, <2>1 DEF LastOrNull
    <3>2. slabs' = [slabs EXCEPT ![t].Next = NULL, ![t].Used = mark.UsedChars]
      BY <2>1 DEF RevertEnds, CutTailAt
    <3> HIDE DEF t
    <3>3. PICK f : f = [slabs EXCEPT ![t] = [slabs[t] EXCEPT !.Next = NULL]]
      OBVIOUS
    <3>4. slabs' = [f EXCEPT ![t].Used = mark.UsedChars] BY <3>2, <3>3
    <3>5. [slabs[t] EXCEPT !.Next = NULL] \in Slab
      BY <1>3, <3>1 DEF Slab, AddrOrNull
    <3>6. f \in [Addr -> Slab] BY <1>3, <3>1, <3>3, <3>5
    <3>7. f[t] = [slabs[t] EXCEPT !.Next = NULL] BY <1>3, <3>1, <3>3
    <3>8. /\ f[t].Next = NULL /\ f[t].Capacity = slabs[t].Capacity
      BY <1>3, <3>1, <3>7 DEF Slab
    <3>9. \A b \in Addr : b # t => f[b] = slabs[b] BY <1>3, <3>1, <3>3
    <3>10. \A b \in Addr :
             /\ slabs'[b].Next = f[b].Next
             /\ slabs'[b].Capacity = f[b].Capacity
             /\ slabs'[b].Used = IF b = t THEN mark.UsedChars ELSE f[b].Used
      BY <1>3, <3>1, <3>4, <3>6, SetUsed
    <3> QED BY <3>8, <3>9, <3>10 DEF t
  <2>2. CASE mark.TailSlab = NULL
    BY <2>2, NullAssumption DEF RevertEnds, CutTailAt
  <2> QED BY <2>1, <2>2
<1>5. Chained'
  <2>1. \A i, j \in 1 .. Len(saved.chain) :
          saved.chain[i] = saved.chain[j] => i = j
    BY <1>3 DEF IInv, Chained
  <2>2. ASSUME NEW i \in 1 .. Len(saved.chain)
        PROVE  slabs'[saved.chain[i]].Next =
                 IF i < Len(saved.chain) THEN saved.chain[i + 1] ELSE NULL
    <3>1. CASE i < Len(saved.chain)
      <4>1. saved.chain[i] # mark.TailSlab BY <1>3, <2>1, <3>1 DEF LastOrNull
      <4>2. slabs[saved.chain[i]].Next = saved.chain[i + 1]
        <5>1. /\ i \in 1 .. Len(chain) /\ i < Len(chain)
              /\ i + 1 \in 1 .. Len(saved.chain)
          BY <1>3, <3>1
        <5>2. saved.chain[i] = chain[i] /\ saved.chain[i + 1] = chain[i + 1]
              /\ chain[i] \in pool
          BY <1>3, <5>1
        <5>3. slabs[chain[i]].Next = chain[i + 1]
          BY <5>1, <5>2 DEF IInv, Chained
        <5> QED BY <5>2, <5>3
      <4> QED BY <1>3, <1>4, <3>1, <4>1, <4>2
    <3>2. CASE i = Len(saved.chain)
      BY <1>3, <1>4, <3>2 DEF LastOrNull
    <3> QED BY <1>3, <3>1, <3>2
  <2>3. m_Head' = FirstOrNull(saved.chain)
    <3>1. CASE mark.TailSlab # NULL
      BY <1>2, <1>3, <3>1 DEF RevertEnds, CutTailAt, FirstOrNull, LastOrNull
    <3>2. CASE mark.TailSlab = NULL
      BY <1>3, <3>2 DEF RevertEnds, CutTailAt, FirstOrNull, LastOrNull
    <3> QED BY <3>1, <3>2
  <2> QED BY <1>1, <1>2, <1>3, <2>1, <2>2, <2>3
             DEF Chained, Owned, Slots, FirstOrNull, LastOrNull
<1>6. Fill'
  <2>1. \A b \in Addr : slabs[b].Used \in Nat /\ slabs[b].Capacity \in Nat
    BY <1>3 DEF Slab
  <2>2. mark.TailSlab # NULL => mark.UsedChars <= slabs[mark.TailSlab].Used
    BY <1>2 DEF IInv, Bookmarked
  <2> QED BY <1>1, <1>3, <1>4, <2>1, <2>2, NullAssumption DEF IInv, Fill
<1>7. BuffersSafe'
  <2>1. \A r \in live :
          /\ r.slab \in pool /\ r.off % CharAlign = 0
          /\ r.off + r.len <= slabs'[r.slab].Used
    BY <1>2, <1>3, <1>4 DEF IInv, BuffersSafe, Bookmarked
  <2> QED BY <1>1, <1>6, <2>1 DEF IInv, BuffersSafe, Fill
<1>8. Freeing' BY <1>1 DEF Freeing
<1>9. Bookmarked' BY <1>1 DEF Bookmarked
<1> QED BY <1>5, <1>6, <1>7, <1>8, <1>9 DEF IInv

LEMMA ClearBeginsStep ==
    ASSUME IInv, ClearBegins, TypeOK'
    PROVE  IInv'
<1>1. /\ pc = "idle" /\ pc' = "clear" /\ ~mark.open /\ pCurrent' = m_Head
      /\ live' = {} /\ saved'.live = {}
      /\ UNCHANGED << m_Head, m_Tail, slabs, pool, mark, chain >>
  BY DEF ClearBegins
<1>2. /\ chain \in Seq(Addr) /\ Len(chain) \in Nat
      /\ pool = {chain[i] : i \in 1 .. Len(chain)}
      /\ m_Head = FirstOrNull(chain)
  BY <1>1 DEF IInv, TypeOK, Chained
<1>3. Freeing'
  <2>1. /\ 1 \in 0 + 1 .. Len(chain) + 1
        /\ pool = {chain[i] : i \in (1 .. 0) \cup (1 .. Len(chain))}
        /\ m_Head = IF 1 <= Len(chain) THEN chain[1] ELSE NULL
    BY <1>2 DEF FirstOrNull
  <2> QED BY <1>1, <1>2, <2>1 DEF Freeing, Keep, FirstOrNull
<1>4. Chained' BY <1>1 DEF IInv, Chained
<1>5. Fill' BY <1>1 DEF IInv, Fill
<1>6. Bookmarked' BY <1>1 DEF Bookmarked
<1>7. BuffersSafe' BY <1>1 DEF BuffersSafe
<1> QED BY <1>3, <1>4, <1>5, <1>6, <1>7 DEF IInv

LEMMA ClearEndsStep ==
    ASSUME IInv, ClearEnds, TypeOK'
    PROVE  IInv'
<1>1. /\ pc = "clear" /\ pCurrent = NULL /\ pc' = "idle"
      /\ m_Head' = NULL /\ m_Tail' = NULL /\ chain' = << >>
      /\ UNCHANGED << slabs, pool, mark, pCurrent, live, saved >>
  BY DEF ClearEnds
<1>2. ~mark.open /\ live = {} BY <1>1 DEF IInv, Freeing, TypeOK
<1>3. pool = {}
  <2>1. PICK j \in 0 + 1 .. Len(chain) + 1 :
          /\ pool = {chain[i] : i \in (1 .. 0) \cup (j .. Len(chain))}
          /\ pCurrent = IF j <= Len(chain) THEN chain[j] ELSE NULL
    BY <1>1 DEF IInv, Freeing, Keep
  <2>2. Len(chain) \in Nat /\ \A i \in 1 .. Len(chain) : chain[i] # NULL
    BY NullAssumption DEF IInv, TypeOK
  <2>3. j = Len(chain) + 1 BY <1>1, <2>1, <2>2
  <2> QED BY <2>1, <2>2, <2>3
<1>4. Chained' BY <1>1, <1>3 DEF Chained, FirstOrNull, LastOrNull
<1>5. Fill' BY <1>1, <1>3 DEF Fill
<1>6. Bookmarked' BY <1>1, <1>2 DEF Bookmarked
<1>7. BuffersSafe' BY <1>1, <1>2 DEF BuffersSafe
<1>8. Freeing' BY <1>1 DEF Freeing
<1> QED BY <1>4, <1>5, <1>6, <1>7, <1>8 DEF IInv

-----------------------------------------------------------------------------
LEMMA InitIInv == Init => IInv
<1> SUFFICES ASSUME Init PROVE IInv OBVIOUS
<1>1. TypeOK BY FreedType DEF Init, TypeOK, AddrOrNull, Slab, NoMark
<1>2. Chained BY DEF Init, Chained, FirstOrNull, LastOrNull
<1>3. Fill /\ Bookmarked /\ Freeing /\ BuffersSafe
  BY DEF Init, Fill, Bookmarked, Freeing, BuffersSafe, NoMark
<1> QED BY <1>1, <1>2, <1>3 DEF IInv

LEMMA StepIInv == IInv /\ [Next]_vars => IInv'
<1> SUFFICES ASSUME IInv, [Next]_vars PROVE IInv' OBVIOUS
<1>1. TypeOK' BY TypeStep DEF IInv
<1>2. CASE UNCHANGED vars
  <2> USE <1>2 DEF vars
  <2>1. Chained' BY DEF IInv, Chained
  <2>2. Fill' BY DEF IInv, Fill
  <2>3. Bookmarked' BY DEF IInv, Bookmarked
  <2>4. Freeing' BY DEF IInv, Freeing, Keep
  <2>5. BuffersSafe' BY DEF IInv, BuffersSafe
  <2> QED BY <1>1, <2>1, <2>2, <2>3, <2>4, <2>5 DEF IInv
<1>3. CASE Allocate
  <2>1. PICK n \in Lengths :
          AllocateFails(n) \/ AllocateInTail(n) \/ AllocateInNewSlab(n)
    BY <1>3 DEF Allocate
  <2>2. CASE AllocateFails(n) BY <1>2, <2>2 DEF AllocateFails
  <2> QED BY <1>1, <2>1, <2>2, AllocateInTailStep, AllocateInNewSlabStep
<1> QED
  BY <1>1, <1>2, <1>3, BookmarkStep, CommitStep, RevertInTailStep,
     RevertBeginsStep, FreeSlabStep, RevertEndsStep, ClearBeginsStep,
     ClearEndsStep
     DEF Next

\* The inductive invariant holds in every reachable state.
THEOREM Invariance == Spec => []IInv
BY InitIInv, StepIInv, PTL DEF Spec

\* No slab leaks and none is reached twice: the slabs owned are exactly the
\* chain from m_Head to m_Tail whenever no operation is under way.
THEOREM ChainedHolds == Spec => []Chained
<1>1. IInv => Chained BY DEF IInv
<1> QED BY <1>1, Invariance, PTL

\* Buffers handed out stay inside owned slabs, aligned and disjoint.
THEOREM BuffersSafeHolds == Spec => []BuffersSafe
<1>1. IInv => BuffersSafe BY DEF IInv
<1> QED BY <1>1, Invariance, PTL

LEMMA IInvNoUseAfterFree == IInv => NoUseAfterFree
<1> SUFFICES ASSUME IInv PROVE NoUseAfterFree OBVIOUS
<1>1. ASSUME pc # "idle", pCurrent # NULL PROVE pCurrent \in pool
  <2>1. PICK j \in Keep + 1 .. Len(chain) + 1 :
          /\ pool = {chain[i] : i \in (1 .. Keep) \cup (j .. Len(chain))}
          /\ pCurrent = IF j <= Len(chain) THEN chain[j] ELSE NULL
    BY <1>1 DEF IInv, Freeing
  <2>2. Keep \in Nat /\ Len(chain) \in Nat BY DEF IInv, TypeOK, Keep
  <2> QED BY <1>1, <2>1, <2>2
<1>2. ASSUME mark.open, mark.TailSlab # NULL PROVE mark.TailSlab \in pool
  <2>1. Len(saved.chain) \in Nat BY DEF IInv, TypeOK
  <2> QED BY <1>2, <2>1 DEF IInv, Bookmarked, LastOrNull, Owned, Slots
<1> QED BY <1>1, <1>2 DEF NoUseAfterFree

\* The freeing loops touch only slabs that are still owned.
THEOREM NoUseAfterFreeHolds == Spec => []NoUseAfterFree
BY IInvNoUseAfterFree, Invariance, PTL

\* A rollback restores the slab chain and the fill of its last slab.
THEOREM RevertRestoresHolds == Spec => RevertRestores
<1> DEFINE Restored ==
      /\ pool' = {saved.chain[i] : i \in 1 .. Len(saved.chain)}
      /\ m_Tail' = LastOrNull(saved.chain)
      /\ m_Tail' # NULL => slabs'[m_Tail'].Used = mark.UsedChars
      /\ m_Tail' # NULL => slabs'[m_Tail'].Next = NULL
<1>1. ASSUME IInv, RevertInTail PROVE Restored
  <2>1. pc = "idle" /\ mark.open /\ m_Tail = mark.TailSlab
        /\ pool' = pool /\ m_Tail' = m_Tail
    BY <1>1 DEF RevertInTail
  <2>2. pool = Owned(saved.chain) BY <1>1, <2>1, NothingAdded
  <2>3. m_Tail = LastOrNull(saved.chain) BY <1>1, <2>1 DEF IInv, Bookmarked
  <2>4. ASSUME m_Tail # NULL
        PROVE  slabs'[m_Tail].Used = mark.UsedChars /\ slabs'[m_Tail].Next = NULL
    <3>1. m_Tail \in Addr /\ slabs[m_Tail].Next = NULL
      BY <1>1, <2>1, <2>4, TailFacts
    <3>2. slabs' = [slabs EXCEPT ![m_Tail].Used = mark.UsedChars]
      BY <1>1, <2>4 DEF RevertInTail
    <3>3. slabs \in [Addr -> Slab] /\ mark.UsedChars \in Nat
      BY <1>1 DEF IInv, TypeOK
    <3> QED BY <3>1, <3>2, <3>3, SetUsed
  <2> QED BY <2>1, <2>2, <2>3, <2>4 DEF Owned, Slots
<1>2. ASSUME IInv, RevertEnds PROVE Restored
  <2>1. pc = "revert" /\ pCurrent = NULL /\ pool' = pool
        /\ m_Tail' = mark.TailSlab
    BY <1>2 DEF RevertEnds, CutTailAt
  <2>2. pool = Owned(saved.chain) BY <1>2, <2>1, RevertLoopDone
  <2>3. mark.TailSlab = LastOrNull(saved.chain)
    BY <1>2, <2>1 DEF IInv, Bookmarked, Freeing
  <2>4. ASSUME mark.TailSlab # NULL
        PROVE  /\ slabs'[mark.TailSlab].Used = mark.UsedChars
               /\ slabs'[mark.TailSlab].Next = NULL
    <3> DEFINE t == mark.TailSlab
    <3>1. t \in Addr /\ slabs \in [Addr -> Slab] /\ mark.UsedChars \in Nat
      BY <1>2, <2>4 DEF IInv, TypeOK, AddrOrNull
    <3>2. slabs' = [slabs EXCEPT ![t].Next = NULL, ![t].Used = mark.UsedChars]
      BY <1>2, <2>4 DEF RevertEnds, CutTailAt
    <3> HIDE DEF t
    <3>3. PICK f : f = [slabs EXCEPT ![t] = [slabs[t] EXCEPT !.Next = NULL]]
      OBVIOUS
    <3>4. slabs' = [f EXCEPT ![t].Used = mark.UsedChars] BY <3>2, <3>3
    <3>5. [slabs[t] EXCEPT !.Next = NULL] \in Slab
          /\ [slabs[t] EXCEPT !.Next = NULL].Next = NULL
      BY <3>1 DEF Slab, AddrOrNull
    <3>6. f \in [Addr -> Slab] /\ f[t].Next = NULL BY <3>1, <3>3, <3>5
    <3> QED BY <3>1, <3>4, <3>6, SetUsed DEF t
  <2> QED BY <2>1, <2>2, <2>3, <2>4 DEF Owned, Slots
<1>3. IInv /\ [Next]_vars =>
        [RevertInTail \/ RevertEnds =>
          /\ pool' = {saved.chain[i] : i \in 1 .. Len(saved.chain)}
          /\ m_Tail' = LastOrNull(saved.chain)
          /\ m_Tail' # NULL => slabs'[m_Tail'].Used = mark.UsedChars
          /\ m_Tail' # NULL => slabs'[m_Tail'].Next = NULL]_vars
  BY <1>1, <1>2
<1> QED BY <1>3, Invariance, PTL DEF Spec, RevertRestores

\* The arena implements what the engine relies on: fresh buffers that never
\* overlap, and rollbacks that take back exactly what the transaction took.
THEOREM Implementation == Spec => ImplementsArena
<1>1. Init => Abs!AInit BY DEF Init, Abs!AInit
<1>2. IInv /\ IInv' /\ [Next]_vars => [Abs!ANext]_(Abs!avars)
  <2> SUFFICES ASSUME IInv, IInv', [Next]_vars
               PROVE  [Abs!ANext]_(Abs!avars)
    OBVIOUS
  <2> USE DEF Abs!ANext, Abs!avars
  <2>1. ASSUME NEW r, live' = live \cup {r}, saved' = saved
        PROVE  [Abs!ANext]_(Abs!avars)
    <3>1. CASE r \in live BY <2>1, <3>1
    <3>2. CASE r \notin live
      <4>1. r \in live' /\ r \in Buffers BY <2>1 DEF IInv, TypeOK
      <4>2. \A q \in live : ~Abs!Overlap(r, q)
        BY <2>1, <3>2 DEF IInv, BuffersSafe
      <4> QED BY <2>1, <4>1, <4>2 DEF Abs!AAllocate
    <3> QED BY <3>1, <3>2
  <2>2. CASE Allocate
    BY <2>1, <2>2 DEF Allocate, AllocateFails, AllocateInTail,
                      AllocateInNewSlab, vars
  <2>3. CASE GetBookmark BY <2>3 DEF GetBookmark, Abs!ABookmark
  <2>4. CASE RevertInTail \/ RevertBegins
    BY <2>4 DEF RevertInTail, RevertBegins, Abs!ARevert
  <2>5. CASE ClearBegins BY <2>5 DEF ClearBegins, Abs!AClear
  <2>6. CASE Commit \/ RevertEnds \/ ClearEnds \/ FreeSlab \/ UNCHANGED vars
    BY <2>6 DEF Commit, RevertEnds, CutTailAt, ClearEnds, FreeSlab, FreeAndGoTo, vars
  <2> QED BY <2>2, <2>3, <2>4, <2>5, <2>6 DEF Next
<1> QED BY <1>1, <1>2, Invariance, PTL DEF Spec, ImplementsArena, Abs!ASpec

================================================================================

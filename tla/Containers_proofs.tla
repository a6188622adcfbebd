--------------------------- MODULE Containers_proofs ---------------------------
(***************************************************************************)
(* Proofs about the containers.  The deque first: its blocks are owned     *)
(* once and none is leaked, the constructed objects are exactly the        *)
(* elements, and pointers to elements remain stable; for every number of   *)
(* deques and pool blocks, every block capacity that is a power of two and *)
(* every table size.  Then deques and vectors together, with the lemmas of *)
(* KVector_proofs, and that both implement the sequences of SequenceAbs.   *)
(***************************************************************************)
EXTENDS MCContainers, FiniteSetTheorems, SequenceTheorems, TLAPS

Cells == Vals \cup {Raw, Moved}

\* Element number k * BlockCapacity + s of a deque of n elements exists.
Below(k, s, n) == k * BlockCapacity + s < n

Types ==
    /\ alive \subseteq Deques
    /\ m_Blocks \in [Deques -> [Index -> Blocks \cup {NULL}]]
    /\ m_Size \in [Deques -> 0 .. kMaxBlocks * BlockCapacity]
    /\ mem \in [Blocks -> [Slots -> Cells] \cup {<< >>}]

\* A table holds the blocks its elements need and no other.
Tables ==
    \A o \in alive : \A k \in Index : m_Blocks[o][k] # NULL <=> Below(k, 0, m_Size[o])

Owners ==
    /\ \A o \in alive : \A k \in Index :
         m_Blocks[o][k] # NULL => m_Blocks[o][k] \notin Free
    /\ \A o, p \in alive : \A k, l \in Index :
         m_Blocks[o][k] # NULL /\ m_Blocks[o][k] = m_Blocks[p][l] => o = p /\ k = l
    /\ \A b \in Blocks \ Free : \E o \in alive : \E k \in Index : m_Blocks[o][k] = b

\* In the blocks of a deque the objects are its elements.
Constructed ==
    \A o \in alive : \A k \in Index : \A s \in Slots :
      m_Blocks[o][k] # NULL =>
        (mem[m_Blocks[o][k]][s] # Raw <=> Below(k, s, m_Size[o]))

AllElements == UNION {Destroyed(o) : o \in alive}
Counted     == IsFiniteSet(AllElements) /\ objects = Cardinality(AllElements)

DInv == Types /\ Tables /\ Owners /\ Constructed /\ Counted

-----------------------------------------------------------------------------
(* Numbers.                                                                *)

LEMMA BlockOfDivides ==
    ASSUME NEW n \in Nat
    PROVE  \E q \in Nat, r \in Slots :
             BlockOf(n) = q /\ SlotOf(n) = r /\ n = q * BlockCapacity + r
<1>1. 2 ^ BlockShift = BlockCapacity /\ BlockCapacity \in Nat \ {0}
  BY CapacityAssumption DEF BlockShift
<1>2. ASSUME NEW q, q = n \div BlockCapacity, NEW r, r = n % BlockCapacity
      PROVE  q \in Nat /\ r \in 0 .. BlockCapacity - 1 /\ n = q * BlockCapacity + r
  BY <1>1, <1>2
<1>3. \E q, r : q = n \div BlockCapacity /\ r = n % BlockCapacity
  OBVIOUS
<1>4. BlockOf(n) = n \div BlockCapacity /\ SlotOf(n) = n % BlockCapacity
  BY <1>1 DEF BlockOf, SlotOf
<1> QED BY <1>2, <1>3, <1>4 DEF Slots

LEMMA DivisionUnique ==
    ASSUME NEW q \in Nat, NEW g \in Nat \ {0}, NEW r \in 0 .. g - 1
    PROVE  (q * g + r) \div g = q /\ (q * g + r) % g = r
OBVIOUS

LEMMA BlockOfUnique ==
    ASSUME NEW q \in Nat, NEW r \in Slots
    PROVE  /\ q * BlockCapacity + r \in Nat
           /\ BlockOf(q * BlockCapacity + r) = q /\ SlotOf(q * BlockCapacity + r) = r
<1>1. 2 ^ BlockShift = BlockCapacity /\ BlockCapacity \in Nat \ {0}
  BY CapacityAssumption DEF BlockShift
<1>2. r \in 0 .. BlockCapacity - 1
  BY DEF Slots
<1>3. q * BlockCapacity + r \in Nat
  BY <1>1, <1>2
<1> QED BY <1>1, <1>2, <1>3, DivisionUnique DEF BlockOf, SlotOf

\* Where the elements below number n are.
LEMMA BelowExact ==
    ASSUME NEW n \in Nat, NEW k \in Nat, NEW s \in Slots
    PROVE  /\ Below(k, s, n) <=> (k < BlockOf(n) \/ (k = BlockOf(n) /\ s < SlotOf(n)))
           /\ Below(k, s, n + 1) <=>
                (Below(k, s, n) \/ (k = BlockOf(n) /\ s = SlotOf(n)))
<1> DEFINE c == BlockCapacity
<1>1. c \in Nat \ {0} /\ s \in 0 .. c - 1
  BY CapacityAssumption DEF Slots
<1>2. PICK q \in Nat, r \in 0 .. c - 1 :
        BlockOf(n) = q /\ SlotOf(n) = r /\ n = q * c + r
  BY BlockOfDivides DEF Slots
<1>3. /\ Below(k, s, n) <=> k * c + s < n
      /\ Below(k, s, n + 1) <=> k * c + s < n + 1
  BY DEF Below
<1> HIDE DEF c
<1>4. CASE k < q
  <2>1. (k + 1) * c <= q * c
    BY <1>1, <1>4
  <2>2. k * c + c <= q * c /\ k * c \in Nat /\ q * c \in Nat
    BY <1>1, <2>1
  <2> QED BY <1>1, <1>2, <1>3, <1>4, <2>2
<1>5. CASE k = q
  <2>1. k * c = q * c /\ q * c \in Nat
    BY <1>1, <1>5
  <2> QED BY <1>1, <1>2, <1>3, <1>5, <2>1
<1>6. CASE k > q
  <2>1. (q + 1) * c <= k * c
    BY <1>1, <1>6
  <2>2. q * c + c <= k * c /\ k * c \in Nat /\ q * c \in Nat
    BY <1>1, <2>1
  <2> QED BY <1>1, <1>2, <1>3, <1>6, <2>2
<1> QED BY <1>2, <1>4, <1>5, <1>6

LEMMA IndexOfBelow ==
    ASSUME NEW n \in 0 .. kMaxBlocks * BlockCapacity, NEW i \in 0 .. n - 1
    PROVE  /\ BlockOf(i) \in Index /\ SlotOf(i) \in Slots
           /\ Below(BlockOf(i), SlotOf(i), n) /\ Below(BlockOf(i), 0, n)
<1>1. BlockCapacity \in Nat \ {0} /\ kMaxBlocks \in Nat \ {0}
  BY CapacityAssumption
<1>2. i \in Nat /\ i < n /\ n <= kMaxBlocks * BlockCapacity /\ n \in Nat
  BY <1>1
<1>3. PICK q \in Nat, r \in Slots :
        BlockOf(i) = q /\ SlotOf(i) = r /\ i = q * BlockCapacity + r
  BY <1>2, BlockOfDivides
<1>4. r \in Nat /\ q * BlockCapacity \in Nat
  BY <1>1, <1>3 DEF Slots
<1>5. q < kMaxBlocks
  <2>1. ASSUME q >= kMaxBlocks PROVE FALSE
    <3>1. q * BlockCapacity >= kMaxBlocks * BlockCapacity
      BY <1>1, <2>1
    <3> QED BY <1>2, <1>3, <1>4, <1>1, <3>1
  <2> QED BY <1>1, <2>1
<1> QED BY <1>1, <1>2, <1>3, <1>4, <1>5 DEF Below, Index

-----------------------------------------------------------------------------
(* The cells of the elements of a deque with table t and n elements.       *)

CellsOf(t, n) == {[block |-> t[BlockOf(i)], slot |-> SlotOf(i)] : i \in 0 .. n - 1}

LEMMA DestroyedCells ==
    /\ \A o : Destroyed(o) = CellsOf(m_Blocks[o], m_Size[o])
    /\ \A o : Destroyed(o)' = CellsOf(m_Blocks'[o], m_Size'[o])
BY DEF Destroyed, CellsOf, Address

LEMMA CellsExact ==
    ASSUME NEW t, NEW n \in 0 .. kMaxBlocks * BlockCapacity, NEW a
    PROVE  a \in CellsOf(t, n) <=>
             \E k \in Index : \E s \in Slots :
               Below(k, s, n) /\ a = [block |-> t[k], slot |-> s]
<1>1. ASSUME a \in CellsOf(t, n)
      PROVE  \E k \in Index : \E s \in Slots :
               Below(k, s, n) /\ a = [block |-> t[k], slot |-> s]
  <2>1. PICK i \in 0 .. n - 1 : a = [block |-> t[BlockOf(i)], slot |-> SlotOf(i)]
    BY <1>1 DEF CellsOf
  <2> QED BY <2>1, IndexOfBelow
<1>2. ASSUME NEW k \in Index, NEW s \in Slots,
             Below(k, s, n), a = [block |-> t[k], slot |-> s]
      PROVE  a \in CellsOf(t, n)
  <2>1. k \in Nat
    BY CapacityAssumption DEF Index
  <2>2. PICK i \in Nat : i = k * BlockCapacity + s /\ BlockOf(i) = k /\ SlotOf(i) = s
    BY <2>1, BlockOfUnique
  <2>3. i \in 0 .. n - 1
    BY <1>2, <2>2, CapacityAssumption DEF Below
  <2> QED BY <1>2, <2>2, <2>3 DEF CellsOf
<1> QED BY <1>1, <1>2

\* As many as the deque has elements.
LEMMA CellsCounted ==
    ASSUME NEW t, NEW n \in 0 .. kMaxBlocks * BlockCapacity,
           \A k, l \in Index : Below(k, 0, n) /\ t[k] = t[l] => k = l
    PROVE  IsFiniteSet(CellsOf(t, n)) /\ Cardinality(CellsOf(t, n)) = n
<1> DEFINE F == [i \in 0 .. n - 1 |-> [block |-> t[BlockOf(i)], slot |-> SlotOf(i)]]
<1>1. n \in Nat
  BY CapacityAssumption
<1>2. ASSUME NEW i \in 0 .. n - 1, NEW j \in 0 .. n - 1, F[i] = F[j]
      PROVE  i = j
  <2>1. t[BlockOf(i)] = t[BlockOf(j)] /\ SlotOf(i) = SlotOf(j)
    BY <1>2
  <2>2. BlockOf(i) = BlockOf(j)
    BY <2>1, IndexOfBelow
  <2>3. i \in Nat /\ j \in Nat
    BY <1>1
  <2> QED BY <2>1, <2>2, <2>3, BlockOfDivides
<1>3. F \in Bijection(0 .. n - 1, CellsOf(t, n))
  <2>1. F \in [0 .. n - 1 -> CellsOf(t, n)]
    BY DEF CellsOf
  <2>2. \A c \in CellsOf(t, n) : \E i \in 0 .. n - 1 : F[i] = c
    BY DEF CellsOf
  <2> HIDE DEF F
  <2> QED BY <1>2, <2>1, <2>2 DEF Bijection, Injection, Surjection, IsInjective
<1>4. ExistsBijection(0 .. n - 1, CellsOf(t, n))
  BY <1>3 DEF ExistsBijection
<1>5. IsFiniteSet(0 .. n - 1) /\ Cardinality(0 .. n - 1) = n
  BY <1>1, FS_Interval
<1> QED BY <1>4, <1>5, FS_Bijection

\* One more element: one more cell, and the others where they are.
LEMMA CellsGrow ==
    ASSUME NEW t, NEW u, NEW n \in 0 .. kMaxBlocks * BlockCapacity,
           \A k \in Index : Below(k, 0, n) => u[k] = t[k]
    PROVE  CellsOf(u, n + 1)
             = CellsOf(t, n) \cup {[block |-> u[BlockOf(n)], slot |-> SlotOf(n)]}
<1>1. n \in Nat
  BY CapacityAssumption
<1>2. 0 .. (n + 1) - 1 = (0 .. n - 1) \cup {n}
  BY <1>1
<1>3. \A i \in 0 .. n - 1 : u[BlockOf(i)] = t[BlockOf(i)]
  BY IndexOfBelow
<1> QED BY <1>2, <1>3 DEF CellsOf

-----------------------------------------------------------------------------
(* What the steps do.                                                      *)

LEMMA FreeOrBlock ==
    /\ \A f \in [Slots -> Cells] : f # << >>
    /\ 0 \in Slots /\ Raw # Moved /\ Raw \notin Vals
<1>1. 0 \in Slots
  BY CapacityAssumption DEF Slots
<1>2. \A f \in [Slots -> Cells] : DOMAIN f # {}
  BY <1>1
<1>3. DOMAIN << >> = {}
  OBVIOUS
<1> QED BY <1>1, <1>2, <1>3, NamesAssumption

LEMMA TypesMeans ==
    ASSUME DInv
    PROVE  /\ \A b \in Blocks : b \notin Free => mem[b] \in [Slots -> Cells]
           /\ \A b \in Free : b \in Blocks /\ mem[b] = << >>
           /\ \A o \in alive : o \in Deques /\ m_Size[o] \in 0 .. kMaxBlocks * BlockCapacity
           /\ \A o \in alive : m_Size[o] \in Nat
           /\ \A o \in alive : \A k \in Index : m_Blocks[o][k] \in Blocks \cup {NULL}
<1>1. kMaxBlocks * BlockCapacity \in Nat
  BY CapacityAssumption
<1> QED BY <1>1 DEF DInv, Types, Free

\* An argument that is an element is an object in a block of a deque.
LEMMA ArgsValid ==
    ASSUME DInv, NEW r \in Args
    PROVE  /\ r.v \in Cells /\ r.v # Raw
           /\ r.block # NULL => /\ r.block \in Blocks \ Free /\ r.slot \in Slots
                                /\ mem[r.block][r.slot] # Raw
<1>1. CASE r \in {[block |-> NULL, slot |-> 0, v |-> v] : v \in Vals}
  BY <1>1, NamesAssumption DEF Cells
<1>2. ASSUME NEW o \in alive, NEW i \in 0 .. m_Size[o] - 1,
             r = [block |-> Address(o, i).block, slot |-> Address(o, i).slot,
                  v |-> Read(Address(o, i))]
      PROVE  /\ r.v \in Cells /\ r.v # Raw
             /\ r.block \in Blocks \ Free /\ r.slot \in Slots
             /\ mem[r.block][r.slot] # Raw
  <2>1. /\ BlockOf(i) \in Index /\ SlotOf(i) \in Slots
        /\ Below(BlockOf(i), SlotOf(i), m_Size[o]) /\ Below(BlockOf(i), 0, m_Size[o])
    BY <1>2, TypesMeans, IndexOfBelow
  <2>2. m_Blocks[o][BlockOf(i)] # NULL
    BY <2>1 DEF DInv, Tables
  <2>3. m_Blocks[o][BlockOf(i)] \in Blocks \ Free
    BY <2>1, <2>2, TypesMeans DEF DInv, Owners
  <2>4. mem[m_Blocks[o][BlockOf(i)]][SlotOf(i)] # Raw
    BY <2>1, <2>2 DEF DInv, Constructed
  <2>5. r.block = m_Blocks[o][BlockOf(i)] /\ r.slot = SlotOf(i)
    BY <1>2 DEF Address
  <2>6. r.v = mem[m_Blocks[o][BlockOf(i)]][SlotOf(i)]
    BY <1>2, <2>2, <2>3 DEF Read, Address
  <2>7. r.v \in Cells
    BY <2>1, <2>3, <2>6, TypesMeans
  <2> QED BY <2>1, <2>3, <2>4, <2>5, <2>6, <2>7
<1>3. r \in {[block |-> NULL, slot |-> 0, v |-> v] : v \in Vals} \/
      \E o \in alive : \E i \in 0 .. m_Size[o] - 1 :
        r = [block |-> Address(o, i).block, slot |-> Address(o, i).slot,
             v |-> Read(Address(o, i))]
  BY DEF Args
<1> QED BY <1>1, <1>2, <1>3

\* EmplaceBack constructs in block b: a new one, or the last of the deque.
\* n is its size, k and t the block and the slot of the new element.
Emplaced(o, b, n, k, t) ==
    /\ n = m_Size[o] /\ k = BlockOf(n) /\ t = SlotOf(n)
    /\ b \in Blocks /\ k \in Index /\ t \in Slots
    /\ n + 1 \in 0 .. kMaxBlocks * BlockCapacity
    /\ \/ ~Below(k, 0, n) /\ b \in Free
       \/ Below(k, 0, n) /\ b \notin Free /\ b = m_Blocks[o][k]
    /\ m_Blocks' = [m_Blocks EXCEPT ![o] = [@ EXCEPT ![k] = b]]
    /\ m_Size' = [m_Size EXCEPT ![o] = n + 1]
    /\ objects' = objects + 1 /\ alive' = alive
    /\ mem' \in [Blocks -> [Slots -> Cells] \cup {<< >>}]
    /\ \A x \in Blocks : x \in Free' <=> (x \in Free /\ x # b)
    /\ \A x \in Blocks : \A s \in Slots :
         x \notin Free' => (mem'[x][s] # Raw <=>
           \/ x = b /\ s = t
           \/ x \notin Free /\ mem[x][s] # Raw)

\* v is in slot t of block b, and every other cell as in mm.
PutIn(b, t, v, mm) ==
    /\ mem'[b][t] = v
    /\ \A x \in Blocks : \A s \in Slots :
         x # b \/ (x \notin Free /\ s # t) => mem'[x][s] = mm[x][s]

LEMMA EmplaceBackEffect ==
    ASSUME DInv, NEW o \in alive, NEW r \in Args, NEW consumed \in BOOLEAN,
           EmplaceBack(o, r, consumed)
    PROVE  \E b, n, k, t : Emplaced(o, b, n, k, t) /\ PutIn(b, t, r.v, AfterRead(r, consumed))
<1> PICK n : n = m_Size[o]
  OBVIOUS
<1> DEFINE mm == AfterRead(r, consumed)
<1>1. n \in 0 .. kMaxBlocks * BlockCapacity /\ n \in Nat /\ o \in Deques
  BY TypesMeans
<1>2. BlockCapacity \in Nat \ {0} /\ kMaxBlocks \in Nat \ {0} /\ 0 \in Slots
  BY CapacityAssumption, FreeOrBlock
<1>3. PICK k \in Nat, t \in Slots :
        BlockOf(n) = k /\ SlotOf(n) = t /\ n = k * BlockCapacity + t
  BY <1>1, BlockOfDivides
<1>4. PICK b \in (IF t = 0 THEN AllocateBlock(o, k) ELSE {m_Blocks[o][k]}) :
        /\ mem' = ConstructAt(mm, b, t, r.v)
        /\ m_Blocks' = [m_Blocks EXCEPT ![o][k] = b]
        /\ m_Size' = [m_Size EXCEPT ![o] = @ + 1]
        /\ objects' = objects + 1
        /\ UNCHANGED alive
  BY <1>3 DEF EmplaceBack
<1>5. Below(k, 0, n) <=> t # 0
  <2>1. Below(k, 0, n) <=> (k < BlockOf(n) \/ (k = BlockOf(n) /\ 0 < SlotOf(n)))
    BY <1>1, <1>2, <1>3, BelowExact
  <2>2. t \in Nat
    BY <1>2 DEF Slots
  <2> QED BY <1>3, <2>1, <2>2
<1>6. k < kMaxBlocks
  <2>1. CASE t = 0
    BY <1>2, <1>3, <1>4, <2>1 DEF AllocateBlock
  <2>2. CASE t # 0
    <3>1. ASSUME k >= kMaxBlocks PROVE FALSE
      <4>1. k * BlockCapacity >= kMaxBlocks * BlockCapacity
        BY <1>2, <3>1
      <4>2. t \in Nat /\ t > 0
        BY <1>2, <2>2 DEF Slots
      <4>3. n <= kMaxBlocks * BlockCapacity
        BY <1>1, <1>2
      <4> QED BY <1>2, <1>3, <4>1, <4>2, <4>3
    <3> QED BY <1>2, <3>1
  <2> QED BY <2>1, <2>2
<1>7. k \in Index
  BY <1>2, <1>6 DEF Index
<1>8. n + 1 \in 0 .. kMaxBlocks * BlockCapacity
  <2>1. (k + 1) * BlockCapacity <= kMaxBlocks * BlockCapacity
    BY <1>2, <1>6
  <2>2. k * BlockCapacity + BlockCapacity <= kMaxBlocks * BlockCapacity
    BY <1>2, <2>1
  <2> QED BY <1>1, <1>2, <1>3, <2>2 DEF Slots
<1>9. /\ b \in Blocks
      /\ \/ ~Below(k, 0, n) /\ b \in Free
         \/ Below(k, 0, n) /\ b \notin Free /\ b = m_Blocks[o][k]
  <2>1. CASE t = 0
    <3>1. m_Blocks[o][k] = NULL
      BY <1>5, <1>7, <2>1 DEF DInv, Tables
    <3> QED BY <1>2, <1>4, <1>5, <1>6, <2>1, <3>1 DEF AllocateBlock, Free
  <2>2. CASE t # 0
    <3>1. m_Blocks[o][k] # NULL /\ m_Blocks[o][k] \notin Free
      BY <1>5, <1>7, <2>2 DEF DInv, Tables, Owners
    <3> QED BY <1>4, <1>5, <1>7, <2>2, <3>1, TypesMeans
  <2> QED BY <2>1, <2>2
<1>10. /\ mm \in [Blocks -> [Slots -> Cells] \cup {<< >>}]
       /\ \A x \in Blocks : mm[x] = << >> <=> x \in Free
       /\ \A x \in Blocks : \A s \in Slots :
            x \notin Free => (mm[x][s] # Raw <=> mem[x][s] # Raw)
  <2>1. CASE consumed /\ r.block # NULL
    <3>1. mm = [mem EXCEPT ![r.block] = [@ EXCEPT ![r.slot] = Moved]]
      BY <2>1 DEF AfterRead, LeftBehind
    <3>2. /\ r.block \in Blocks \ Free /\ r.slot \in Slots
          /\ mem[r.block][r.slot] # Raw
      BY <2>1, ArgsValid
    <3>3. mem[r.block] \in [Slots -> Cells] /\ Moved \in Cells
      BY <3>2, TypesMeans DEF Cells
    <3>4. [mem[r.block] EXCEPT ![r.slot] = Moved] \in [Slots -> Cells]
      BY <3>2, <3>3
    <3>5. mem \in [Blocks -> [Slots -> Cells] \cup {<< >>}]
      BY DEF DInv, Types
    <3>6. \A x \in Blocks : mm[x] = IF x = r.block THEN [mem[r.block] EXCEPT ![r.slot] = Moved]
                                    ELSE mem[x]
      BY <3>1, <3>5
    <3>7. mm \in [Blocks -> [Slots -> Cells] \cup {<< >>}]
      BY <3>1, <3>4, <3>5
    <3>8. \A x \in Blocks : mm[x] = << >> <=> x \in Free
      BY <3>2, <3>4, <3>6, FreeOrBlock DEF Free
    <3>9. \A s \in Slots : mm[r.block][s] = IF s = r.slot THEN Moved ELSE mem[r.block][s]
      BY <3>2, <3>3, <3>6
    <3> HIDE DEF mm
    <3>10. \A x \in Blocks : \A s \in Slots :
             x \notin Free => (mm[x][s] # Raw <=> mem[x][s] # Raw)
      BY <3>2, <3>6, <3>9, FreeOrBlock
    <3> QED BY <3>7, <3>8, <3>10
  <2>2. CASE ~(consumed /\ r.block # NULL)
    <3>1. mm = mem
      BY <2>2 DEF AfterRead
    <3> QED BY <3>1 DEF DInv, Types, Free
  <2> QED BY <2>1, <2>2
<1>11. r.v \in Cells /\ r.v # Raw
  BY ArgsValid
<1> HIDE DEF mm
<1> DEFINE nb == [s \in Slots |-> IF s = t THEN r.v
                                  ELSE IF mm[b] = << >> THEN Raw ELSE mm[b][s]]
<1>12. mem' = [mm EXCEPT ![b] = nb]
  BY <1>4 DEF ConstructAt
<1>13. nb \in [Slots -> Cells]
  BY <1>3, <1>9, <1>10, <1>11 DEF Cells
<1>14. /\ mem' \in [Blocks -> [Slots -> Cells] \cup {<< >>}]
       /\ \A x \in Blocks : mem'[x] = IF x = b THEN nb ELSE mm[x]
  BY <1>9, <1>10, <1>12, <1>13
<1>15. \A s \in Slots : nb[s] # Raw <=>
         \/ s = t
         \/ b \notin Free /\ mem[b][s] # Raw
  BY <1>9, <1>10, <1>11
<1>n. /\ nb[t] = r.v
      /\ b \notin Free => \A s \in Slots : s # t => nb[s] = mm[b][s]
  BY <1>3, <1>9, <1>10
<1> HIDE DEF nb
<1>p. PutIn(b, t, r.v, mm)
  BY <1>9, <1>14, <1>n DEF PutIn
<1>16. \A x \in Blocks : x \in Free' <=> (x \in Free /\ x # b)
  BY <1>10, <1>13, <1>14, FreeOrBlock DEF Free
<1>17. \A x \in Blocks : \A s \in Slots :
         x \notin Free' => (mem'[x][s] # Raw <=>
           \/ x = b /\ s = t
           \/ x \notin Free /\ mem[x][s] # Raw)
  BY <1>10, <1>14, <1>15, <1>16
<1>18. /\ m_Blocks' = [m_Blocks EXCEPT ![o] = [@ EXCEPT ![k] = b]]
       /\ m_Size' = [m_Size EXCEPT ![o] = n + 1]
  BY <1>4
<1>19. Emplaced(o, b, n, k, t)
  BY <1>3, <1>4, <1>7, <1>8, <1>9, <1>14, <1>16, <1>17, <1>18, Zenon DEF Emplaced
<1> QED BY <1>p, <1>19, Zenon DEF mm

\* The elements of the deques that exist, as cells.
LEMMA AllElementsExact ==
    ASSUME DInv, NEW a
    PROVE  a \in AllElements <=>
             \E o \in alive : \E k \in Index : \E s \in Slots :
               Below(k, s, m_Size[o]) /\ a = [block |-> m_Blocks[o][k], slot |-> s]
<1>1. a \in AllElements <=> \E o \in alive : a \in CellsOf(m_Blocks[o], m_Size[o])
  BY DestroyedCells DEF AllElements
<1> QED BY <1>1, TypesMeans, CellsExact

LEMMA AllElementsPrimed ==
    AllElements' = UNION {CellsOf(m_Blocks'[o], m_Size'[o]) : o \in alive'}
BY DestroyedCells DEF AllElements

LEMMA EmplacedInv ==
    ASSUME DInv, NEW o \in alive, NEW b, NEW n, NEW k, NEW t, Emplaced(o, b, n, k, t)
    PROVE  DInv'
<1>1. /\ n = m_Size[o] /\ k = BlockOf(n) /\ t = SlotOf(n)
      /\ b \in Blocks /\ k \in Index /\ t \in Slots
      /\ n + 1 \in 0 .. kMaxBlocks * BlockCapacity
      /\ \/ ~Below(k, 0, n) /\ b \in Free
         \/ Below(k, 0, n) /\ b \notin Free /\ b = m_Blocks[o][k]
      /\ objects' = objects + 1 /\ alive' = alive
  BY DEF Emplaced
<1>2. /\ \A x \in Blocks : x \in Free' <=> (x \in Free /\ x # b)
      /\ \A x \in Blocks : \A s \in Slots :
           x \notin Free' => (mem'[x][s] # Raw <=>
             \/ x = b /\ s = t
             \/ x \notin Free /\ mem[x][s] # Raw)
  BY DEF Emplaced
<1>3. /\ n \in Nat /\ n \in 0 .. kMaxBlocks * BlockCapacity /\ o \in Deques
      /\ \A l \in Index : l \in Nat
      /\ alive \subseteq Deques /\ NULL \notin Blocks /\ 0 \in Slots
  BY <1>1, TypesMeans, NamesAssumption, FreeOrBlock, CapacityAssumption DEF Index
<1>4. /\ m_Blocks' = [m_Blocks EXCEPT ![o] = [@ EXCEPT ![k] = b]]
      /\ m_Size' = [m_Size EXCEPT ![o] = n + 1]
  BY DEF Emplaced
<1>5. m_Blocks \in [Deques -> [Index -> Blocks \cup {NULL}]]
  BY DEF DInv, Types
<1>6. /\ \A p \in Deques : p # o => m_Blocks'[p] = m_Blocks[p] /\ m_Size'[p] = m_Size[p]
      /\ m_Size'[o] = n + 1
      /\ \A l \in Index : m_Blocks'[o][l] = IF l = k THEN b ELSE m_Blocks[o][l]
  BY <1>1, <1>3, <1>4, <1>5 DEF DInv, Types
<1>7. Types'
  <2>1. mem' \in [Blocks -> [Slots -> Cells] \cup {<< >>}]
    BY DEF Emplaced
  <2>2. [m_Blocks[o] EXCEPT ![k] = b] \in [Index -> Blocks \cup {NULL}]
    BY <1>1, <1>3, <1>5
  <2>3. m_Blocks' \in [Deques -> [Index -> Blocks \cup {NULL}]]
    BY <1>4, <1>5, <2>2
  <2>4. m_Size' \in [Deques -> 0 .. kMaxBlocks * BlockCapacity]
    BY <1>1, <1>4 DEF DInv, Types
  <2> QED BY <1>1, <1>3, <2>1, <2>3, <2>4 DEF Types
<1>8. \A l \in Index : \A s \in Slots :
        Below(l, s, n + 1) <=> (Below(l, s, n) \/ (l = k /\ s = t))
  BY <1>1, <1>3, BelowExact
<1>9. \A l \in Index : Below(l, 0, n + 1) <=> (Below(l, 0, n) \/ l = k)
  <2>1. n = k * BlockCapacity + t /\ t \in Nat /\ k \in Nat
    BY <1>1, <1>3, BlockOfDivides, CapacityAssumption DEF Slots
  <2>2. Below(k, 0, n + 1)
    BY <2>1, <1>3, CapacityAssumption DEF Below
  <2> QED BY <1>3, <1>8, <2>2
<1>10. Tables'
  <2>1. ASSUME NEW p \in alive, NEW l \in Index
        PROVE  m_Blocks'[p][l] # NULL <=> Below(l, 0, m_Size'[p])
    BY <1>1, <1>3, <1>6, <1>9 DEF DInv, Tables
  <2> QED BY <1>1, <2>1 DEF Tables
<1>11. \A p \in alive : \A l \in Index :
         m_Blocks'[p][l] # NULL =>
           \/ m_Blocks'[p][l] = b /\ p = o /\ l = k
           \/ m_Blocks'[p][l] = m_Blocks[p][l] /\ m_Blocks[p][l] # b
              /\ m_Blocks[p][l] \notin Free /\ m_Blocks[p][l] \in Blocks
  BY <1>1, <1>3, <1>6, TypesMeans DEF DInv, Owners
<1>12. Owners'
  <2>1. ASSUME NEW p \in alive, NEW l \in Index, m_Blocks'[p][l] # NULL
        PROVE  m_Blocks'[p][l] \notin Free'
    BY <1>1, <1>2, <1>11, <2>1
  <2>2. ASSUME NEW p \in alive, NEW q \in alive, NEW l \in Index, NEW j \in Index,
               m_Blocks'[p][l] # NULL, m_Blocks'[p][l] = m_Blocks'[q][j]
        PROVE  p = q /\ l = j
    BY <1>11, <2>2 DEF DInv, Owners
  <2>3. ASSUME NEW x \in Blocks \ Free'
        PROVE  \E p \in alive : \E l \in Index : m_Blocks'[p][l] = x
    <3>1. CASE x = b
      BY <1>1, <1>6, <3>1
    <3>2. CASE x # b
      <4>1. x \in Blocks \ Free
        BY <1>2, <2>3, <3>2
      <4>2. PICK p \in alive, l \in Index : m_Blocks[p][l] = x
        BY <4>1 DEF DInv, Owners
      <4>3. ~(p = o /\ l = k)
        <5>1. SUFFICES ASSUME p = o, l = k PROVE FALSE
          OBVIOUS
        <5>2. m_Blocks[o][k] # NULL
          BY <4>1, <4>2, <5>1, <1>3
        <5>3. Below(k, 0, n)
          BY <1>1, <5>2 DEF DInv, Tables
        <5> QED BY <1>1, <3>2, <4>2, <5>1, <5>3
      <4> QED BY <1>3, <1>6, <4>2, <4>3
    <3> QED BY <3>1, <3>2
  <2> QED BY <1>1, <2>1, <2>2, <2>3 DEF Owners
<1>13. Constructed'
  <2>1. ASSUME NEW p \in alive, NEW l \in Index, NEW s \in Slots, m_Blocks'[p][l] # NULL
        PROVE  mem'[m_Blocks'[p][l]][s] # Raw <=> Below(l, s, m_Size'[p])
    <3>1. CASE m_Blocks'[p][l] = b /\ p = o /\ l = k
      <4>1. b \notin Free'
        BY <1>1, <1>2
      <4>2. mem'[b][s] # Raw <=> (s = t \/ (b \notin Free /\ mem[b][s] # Raw))
        BY <1>1, <1>2, <4>1
      <4>3. Below(k, s, n) <=> (b \notin Free /\ mem[b][s] # Raw)
        <5>1. CASE b \in Free
          <6>1. ~Below(k, 0, n)
            BY <1>1, <5>1
          <6>2. s \in Nat
            BY CapacityAssumption DEF Slots
          <6>3. ~Below(k, s, n)
            BY <1>1, <1>3, <6>1, <6>2, CapacityAssumption DEF Below
          <6> QED BY <5>1, <6>3
        <5>2. CASE b \notin Free
          <6>1. b = m_Blocks[o][k] /\ b # NULL
            BY <1>1, <1>3, <5>2
          <6> QED BY <1>1, <5>2, <6>1 DEF DInv, Constructed
        <5> QED BY <5>1, <5>2
      <4> QED BY <1>1, <1>6, <1>8, <3>1, <4>2, <4>3
    <3>2. CASE m_Blocks'[p][l] = m_Blocks[p][l] /\ m_Blocks[p][l] # b
               /\ m_Blocks[p][l] \notin Free /\ m_Blocks[p][l] \in Blocks
      <4>1. mem'[m_Blocks[p][l]][s] # Raw <=> mem[m_Blocks[p][l]][s] # Raw
        BY <1>2, <3>2
      <4>2. mem[m_Blocks[p][l]][s] # Raw <=> Below(l, s, m_Size[p])
        BY <2>1, <3>2 DEF DInv, Constructed
      <4>3. Below(l, s, m_Size[p]) <=> Below(l, s, m_Size'[p])
        <5>1. p = o => l # k
          BY <1>1, <1>6, <3>2
        <5> QED BY <1>1, <1>3, <1>6, <1>8, <5>1
      <4> QED BY <3>2, <4>1, <4>2, <4>3
    <3> QED BY <1>11, <2>1, <3>1, <3>2
  <2> QED BY <1>1, <2>1 DEF Constructed
<1>14. Counted'
  <2> DEFINE a == [block |-> b, slot |-> t]
  <2>1. \A l \in Index : Below(l, 0, n) => m_Blocks'[o][l] = m_Blocks[o][l]
    BY <1>1, <1>6
  <2>2. CellsOf(m_Blocks'[o], m_Size'[o]) = CellsOf(m_Blocks[o], m_Size[o]) \cup {a}
    <3>1. m_Blocks'[o][k] = b /\ m_Size'[o] = n + 1 /\ m_Size[o] = n
      BY <1>1, <1>6
    <3>2. CellsOf(m_Blocks'[o], n + 1)
            = CellsOf(m_Blocks[o], n)
                \cup {[block |-> m_Blocks'[o][BlockOf(n)], slot |-> SlotOf(n)]}
      BY <1>3, <2>1, CellsGrow
    <3>3. m_Blocks'[o][BlockOf(n)] = b /\ SlotOf(n) = t
      BY <1>1, <3>1
    <3> QED BY <3>1, <3>2, <3>3
  <2>3. \A p \in alive : p # o =>
          CellsOf(m_Blocks'[p], m_Size'[p]) = CellsOf(m_Blocks[p], m_Size[p])
    BY <1>3, <1>6
  <2>4. AllElements = UNION {CellsOf(m_Blocks[p], m_Size[p]) : p \in alive}
    BY DestroyedCells DEF AllElements
  <2>5. AllElements' = AllElements \cup {a}
    BY <1>1, <2>2, <2>3, <2>4, AllElementsPrimed
  <2>6. a \notin AllElements
    <3>1. ASSUME NEW p \in alive, NEW l \in Index, NEW s \in Slots,
                 Below(l, s, m_Size[p]), a = [block |-> m_Blocks[p][l], slot |-> s]
          PROVE  FALSE
      <4>1. b = m_Blocks[p][l] /\ s = t
        BY <3>1
      <4>2. b \notin Free /\ b = m_Blocks[o][k]
        BY <1>1, <1>3, <4>1 DEF DInv, Owners
      <4>3. p = o /\ l = k
        <5>1. m_Blocks[p][l] # NULL /\ m_Blocks[p][l] = m_Blocks[o][k]
          BY <1>1, <1>3, <4>1, <4>2
        <5>2. k \in Index
          BY <1>1
        <5> QED BY <5>1, <5>2 DEF DInv, Owners
      <4>4. k * BlockCapacity + t = n
        BY <1>1, <1>3, BlockOfDivides
      <4> QED BY <1>1, <1>3, <3>1, <4>1, <4>3, <4>4 DEF Below
    <3> QED BY <3>1, AllElementsExact
  <2> HIDE DEF a
  <2> QED BY <1>1, <2>5, <2>6, FS_AddElement DEF DInv, Counted
<1> QED BY <1>7, <1>10, <1>12, <1>13, <1>14 DEF DInv

\* Clear scans every block of the deque and gives it back; the others stay.
LEMMA ClearExact ==
    ASSUME DInv, NEW o \in alive
    PROVE  /\ ClearedTable(o) = Zeroed
           /\ \A b \in Blocks :
                b \in Scanned(o) <=> \E k \in Index : m_Blocks[o][k] = b
           /\ \A b \in Blocks : ClearedMem(o)[b] = IF b \in Scanned(o) THEN << >> ELSE mem[b]
           /\ ClearedMem(o) \in [Blocks -> [Slots -> Cells] \cup {<< >>}]
<1> PICK n : n = m_Size[o]
  OBVIOUS
<1>1. n \in Nat /\ n \in 0 .. kMaxBlocks * BlockCapacity
  BY TypesMeans
<1>2. PICK q \in Nat : BlockOf(n) = q
  BY <1>1, BlockOfDivides
<1>3. /\ kMaxBlocks \in Nat \ {0} /\ 0 \in Slots /\ NULL \notin Blocks
      /\ \A k \in Index : k \in Nat /\ k < kMaxBlocks
  BY CapacityAssumption, FreeOrBlock, NamesAssumption DEF Index
<1>4. /\ BlocksToScan(o) \in 1 .. kMaxBlocks
      /\ BlocksToScan(o) = q + 1 \/ BlocksToScan(o) = kMaxBlocks
  BY <1>2, <1>3 DEF BlocksToScan
<1>5. \A k \in Index : Below(k, 0, n) => k < BlocksToScan(o)
  <2>1. ASSUME NEW k \in Index, Below(k, 0, n) PROVE k <= q
    <3>1. k < BlockOf(n) \/ k = BlockOf(n)
      BY <1>1, <1>3, <2>1, BelowExact
    <3> QED BY <1>2, <1>3, <3>1
  <2> QED BY <1>2, <1>3, <1>4, <2>1
<1>6. \A k \in Index : m_Blocks[o][k] # NULL => k \in 0 .. BlocksToScan(o) - 1
  <2>1. \A k \in Index : m_Blocks[o][k] # NULL => Below(k, 0, n)
    BY DEF DInv, Tables
  <2> QED BY <1>3, <1>4, <1>5, <2>1
<1>7. ClearedTable(o) = Zeroed
  <2>1. \A k \in Index : k < BlocksToScan(o) \/ m_Blocks[o][k] = NULL
    BY <1>3, <1>4, <1>6
  <2> QED BY <2>1 DEF ClearedTable, Zeroed
<1>8. ASSUME NEW b \in Blocks
      PROVE  b \in Scanned(o) <=> \E k \in Index : m_Blocks[o][k] = b
  <2>1. 0 .. BlocksToScan(o) - 1 \subseteq Index
    BY <1>3, <1>4 DEF Index
  <2> QED BY <1>3, <1>6, <2>1 DEF Scanned
<1>9. ASSUME NEW b \in Blocks
      PROVE  ClearedMem(o)[b] = IF b \in Scanned(o) THEN << >> ELSE mem[b]
  <2>1. CASE b \in Scanned(o) \/ b \in Free
    <3>1. ClearedMem(o)[b] = << >>
      BY <2>1 DEF ClearedMem
    <3> QED BY <2>1, <3>1 DEF Free
  <2>2. CASE b \notin Scanned(o) /\ b \notin Free
    <3>1. ASSUME NEW s \in Slots PROVE [block |-> b, slot |-> s] \notin Destroyed(o)
      <4>1. SUFFICES ASSUME NEW k \in Index, NEW j \in Slots,
                            [block |-> b, slot |-> s] = [block |-> m_Blocks[o][k], slot |-> j]
                     PROVE  FALSE
        BY <1>1, DestroyedCells, CellsExact
      <4>2. b = m_Blocks[o][k]
        BY <4>1
      <4> QED BY <1>8, <2>2, <4>2
    <3>2. ClearedMem(o)[b] = [s \in Slots |-> IF [block |-> b, slot |-> s] \in Destroyed(o)
                                              THEN Raw ELSE mem[b][s]]
      BY <2>2 DEF ClearedMem
    <3>3. mem[b] \in [Slots -> Cells]
      BY <2>2, TypesMeans
    <3>4. ClearedMem(o)[b] = [s \in Slots |-> mem[b][s]]
      BY <3>1, <3>2
    <3>5. [s \in Slots |-> mem[b][s]] = mem[b]
      BY <3>3
    <3> QED BY <2>2, <3>4, <3>5
  <2> QED BY <2>1, <2>2
<1>10. ClearedMem(o) \in [Blocks -> [Slots -> Cells] \cup {<< >>}]
  <2>1. ClearedMem(o) = [b \in Blocks |-> ClearedMem(o)[b]]
    BY DEF ClearedMem
  <2>2. \A b \in Blocks : ClearedMem(o)[b] \in [Slots -> Cells] \cup {<< >>}
    BY <1>9 DEF DInv, Types
  <2> QED BY <2>1, <2>2
<1> QED BY <1>7, <1>8, <1>9, <1>10

\* The other steps only hand tables on: << p, q >> \in G says that deque p now
\* has the table of q, any other deque is empty, and the blocks of the deques
\* in D went back to the pool.
Rearranged(G, D) ==
    /\ D \subseteq alive
    /\ alive' \subseteq Deques
    /\ m_Blocks' \in [Deques -> [Index -> Blocks \cup {NULL}]]
    /\ m_Size' \in [Deques -> 0 .. kMaxBlocks * BlockCapacity]
    /\ mem' \in [Blocks -> [Slots -> Cells] \cup {<< >>}]
    /\ \A b \in Blocks :
         mem'[b] = IF \E o \in D : \E k \in Index : m_Blocks[o][k] = b THEN << >> ELSE mem[b]
    /\ \A p \in alive' :
         \/ m_Blocks'[p] = Zeroed /\ m_Size'[p] = 0
         \/ \E q \in alive : << p, q >> \in G
    /\ \A p \in alive' : \A q \in alive : << p, q >> \in G =>
         q \notin D /\ m_Blocks'[p] = m_Blocks[q] /\ m_Size'[p] = m_Size[q]
    /\ \A p, r \in alive' : \A q \in alive : << p, q >> \in G /\ << r, q >> \in G => p = r
    /\ \A q \in alive : q \notin D => \E p \in alive' : << p, q >> \in G
    /\ \/ D = {} /\ objects' = objects
       \/ \E o \in alive : D = {o} /\ objects' = objects - m_Size[o]

LEMMA RearrangedInv ==
    ASSUME DInv, NEW G, NEW D, Rearranged(G, D) PROVE DInv'
<1>1. \A p \in alive' :
        \/ m_Blocks'[p] = Zeroed /\ m_Size'[p] = 0
        \/ \E q \in alive : << p, q >> \in G
  BY DEF Rearranged
<1>2. \A p \in alive' : \A q \in alive : << p, q >> \in G =>
        q \notin D /\ m_Blocks'[p] = m_Blocks[q] /\ m_Size'[p] = m_Size[q]
  BY DEF Rearranged
<1>3. \A p, r \in alive' : \A q \in alive : << p, q >> \in G /\ << r, q >> \in G => p = r
  BY DEF Rearranged
<1>4. \A q \in alive : q \notin D => \E p \in alive' : << p, q >> \in G
  BY DEF Rearranged
<1>5. /\ D \subseteq alive
      /\ \A b \in Blocks :
           mem'[b] = IF \E o \in D : \E k \in Index : m_Blocks[o][k] = b THEN << >> ELSE mem[b]
  BY DEF Rearranged
<1>6. \A k \in Index : Zeroed[k] = NULL
  BY DEF Zeroed
<1>7. \A k \in Index : \A s \in Slots : ~Below(k, s, 0)
  BY CapacityAssumption DEF Below, Index, Slots
<1>8. 0 \in Slots /\ NULL \notin Blocks
  BY FreeOrBlock, NamesAssumption
<1>9. Types'
  BY DEF Rearranged, Types
<1>10. Tables'
  <2>1. ASSUME NEW p \in alive', NEW k \in Index
        PROVE  m_Blocks'[p][k] # NULL <=> Below(k, 0, m_Size'[p])
    <3>1. CASE m_Blocks'[p] = Zeroed /\ m_Size'[p] = 0
      BY <1>6, <1>7, <1>8, <3>1
    <3>2. CASE \E q \in alive : << p, q >> \in G
      BY <1>2, <3>2 DEF DInv, Tables
    <3> QED BY <1>1, <3>1, <3>2
  <2> QED BY <2>1 DEF Tables
<1>11. ASSUME NEW p \in alive', NEW k \in Index, m_Blocks'[p][k] # NULL
       PROVE  \E q \in alive :
                /\ << p, q >> \in G /\ q \notin D
                /\ m_Blocks'[p] = m_Blocks[q] /\ m_Size'[p] = m_Size[q]
                /\ m_Blocks[q][k] # NULL /\ m_Blocks[q][k] \in Blocks
                /\ m_Blocks[q][k] \notin Free
                /\ mem'[m_Blocks[q][k]] = mem[m_Blocks[q][k]]
  <2>1. PICK q \in alive : << p, q >> \in G
    BY <1>1, <1>6, <1>11
  <2>2. /\ q \notin D
        /\ m_Blocks'[p] = m_Blocks[q] /\ m_Size'[p] = m_Size[q]
        /\ m_Blocks[q][k] # NULL
    BY <1>2, <1>11, <2>1
  <2>3. m_Blocks[q][k] \in Blocks /\ m_Blocks[q][k] \notin Free
    BY <2>2, TypesMeans DEF DInv, Owners
  <2>4. ~ \E o \in D : \E l \in Index : m_Blocks[o][l] = m_Blocks[q][k]
    BY <1>5, <2>2 DEF DInv, Owners
  <2> QED BY <1>5, <2>1, <2>2, <2>3, <2>4
<1>12. Owners'
  <2>1. ASSUME NEW p \in alive', NEW k \in Index, m_Blocks'[p][k] # NULL
        PROVE  m_Blocks'[p][k] \notin Free'
    <3>1. PICK q \in alive :
            /\ m_Blocks'[p] = m_Blocks[q] /\ m_Blocks[q][k] \in Blocks
            /\ m_Blocks[q][k] \notin Free /\ mem'[m_Blocks[q][k]] = mem[m_Blocks[q][k]]
      BY <1>11, <2>1
    <3> QED BY <3>1 DEF Free
  <2>2. ASSUME NEW p \in alive', NEW r \in alive', NEW k \in Index, NEW l \in Index,
               m_Blocks'[p][k] # NULL, m_Blocks'[p][k] = m_Blocks'[r][l]
        PROVE  p = r /\ k = l
    <3>1. PICK q \in alive : /\ << p, q >> \in G /\ m_Blocks'[p] = m_Blocks[q]
                             /\ m_Blocks[q][k] # NULL
      BY <1>11, <2>2
    <3>2. PICK u \in alive : << r, u >> \in G /\ m_Blocks'[r] = m_Blocks[u]
      BY <1>11, <2>2
    <3>3. q = u /\ k = l
      BY <2>2, <3>1, <3>2 DEF DInv, Owners
    <3> QED BY <1>3, <3>1, <3>2, <3>3
  <2>3. ASSUME NEW b \in Blocks \ Free'
        PROVE  \E p \in alive' : \E k \in Index : m_Blocks'[p][k] = b
    <3>1. mem'[b] # << >>
      BY <2>3 DEF Free
    <3>2. mem'[b] = mem[b] /\ ~ \E o \in D : \E k \in Index : m_Blocks[o][k] = b
      BY <1>5, <3>1
    <3>3. b \in Blocks \ Free
      BY <3>1, <3>2 DEF Free
    <3>4. PICK q \in alive, k \in Index : m_Blocks[q][k] = b
      BY <3>3 DEF DInv, Owners
    <3>5. PICK p \in alive' : << p, q >> \in G
      BY <1>4, <3>2, <3>4
    <3> QED BY <1>2, <3>4, <3>5
  <2> QED BY <2>1, <2>2, <2>3 DEF Owners
<1>13. Constructed'
  <2>1. ASSUME NEW p \in alive', NEW k \in Index, NEW s \in Slots, m_Blocks'[p][k] # NULL
        PROVE  mem'[m_Blocks'[p][k]][s] # Raw <=> Below(k, s, m_Size'[p])
    <3>1. PICK q \in alive :
            /\ m_Blocks'[p] = m_Blocks[q] /\ m_Size'[p] = m_Size[q]
            /\ m_Blocks[q][k] # NULL /\ mem'[m_Blocks[q][k]] = mem[m_Blocks[q][k]]
      BY <1>11, <2>1
    <3>2. mem[m_Blocks[q][k]][s] # Raw <=> Below(k, s, m_Size[q])
      BY <3>1 DEF DInv, Constructed
    <3> QED BY <3>1, <3>2
  <2> QED BY <2>1 DEF Constructed
<1>14. Counted'
  <2> DEFINE C(o) == CellsOf(m_Blocks[o], m_Size[o])
  <2>1. AllElements = UNION {C(o) : o \in alive}
    BY DestroyedCells DEF AllElements
  <2>2. ASSUME NEW o \in alive, NEW q \in alive, o # q PROVE C(o) \cap C(q) = {}
    <3>1. SUFFICES ASSUME NEW a, a \in C(o), a \in C(q) PROVE FALSE
      OBVIOUS
    <3>2. PICK k \in Index, s \in Slots :
            Below(k, s, m_Size[o]) /\ a = [block |-> m_Blocks[o][k], slot |-> s]
      BY <3>1, TypesMeans, CellsExact
    <3>3. PICK l \in Index, t \in Slots :
            Below(l, t, m_Size[q]) /\ a = [block |-> m_Blocks[q][l], slot |-> t]
      BY <3>1, TypesMeans, CellsExact
    <3>4. m_Blocks[o][k] = m_Blocks[q][l]
      BY <3>2, <3>3
    <3>5. Below(k, 0, m_Size[o])
      <4>1. s \in Nat /\ k \in Nat /\ m_Size[o] \in Nat
        BY CapacityAssumption, TypesMeans DEF Slots, Index
      <4> QED BY <3>2, <4>1, CapacityAssumption DEF Below
    <3>6. m_Blocks[o][k] # NULL
      BY <3>5 DEF DInv, Tables
    <3> QED BY <2>2, <3>4, <3>6 DEF DInv, Owners
  <2>3. AllElements' = UNION {C(q) : q \in alive \ D}
    <3>1. AllElements' = UNION {CellsOf(m_Blocks'[p], m_Size'[p]) : p \in alive'}
      BY AllElementsPrimed
    <3>2. ASSUME NEW p \in alive', NEW a \in CellsOf(m_Blocks'[p], m_Size'[p])
          PROVE  \E q \in alive \ D : a \in C(q)
      <4>1. CASE m_Size'[p] = 0
        <5>1. CellsOf(m_Blocks'[p], m_Size'[p]) = {}
          BY <4>1 DEF CellsOf
        <5> QED BY <3>2, <5>1
      <4>2. CASE \E q \in alive : << p, q >> \in G
        BY <1>2, <3>2, <4>2
      <4> QED BY <1>1, <4>1, <4>2
    <3>3. ASSUME NEW q \in alive \ D
          PROVE  \E p \in alive' : C(q) = CellsOf(m_Blocks'[p], m_Size'[p])
      BY <1>2, <1>4
    <3> HIDE DEF C
    <3> QED BY <3>1, <3>2, <3>3
  <2>4. CASE D = {} /\ objects' = objects
    BY <2>1, <2>3, <2>4 DEF DInv, Counted
  <2>5. ASSUME NEW o \in alive, D = {o}, objects' = objects - m_Size[o]
        PROVE  Counted'
    <3>1. IsFiniteSet(C(o)) /\ Cardinality(C(o)) = m_Size[o]
      <4>1. \A k, l \in Index :
              Below(k, 0, m_Size[o]) /\ m_Blocks[o][k] = m_Blocks[o][l] => k = l
        BY DEF DInv, Tables, Owners
      <4> QED BY <4>1, TypesMeans, CellsCounted
    <3> HIDE DEF C
    <3>2. AllElements = AllElements' \cup C(o)
      BY <2>1, <2>3, <2>5
    <3>3. AllElements' \cap C(o) = {}
      BY <2>2, <2>3, <2>5
    <3>4. IsFiniteSet(AllElements) /\ objects = Cardinality(AllElements)
      BY DEF DInv, Counted
    <3>5. IsFiniteSet(AllElements')
      <4>1. AllElements' \in SUBSET AllElements
        BY <3>2
      <4> QED BY <3>4, <4>1, FS_Subset
    <3>6. Cardinality(AllElements' \cup C(o))
            = Cardinality(AllElements') + Cardinality(C(o)) - Cardinality(AllElements' \cap C(o))
      BY <3>1, <3>5, FS_Union
    <3>7. Cardinality(AllElements' \cap C(o)) = 0
      BY <3>3, FS_EmptySet
    <3>8. Cardinality(AllElements') \in Nat /\ m_Size[o] \in Nat
      BY <3>5, FS_CardinalityType, TypesMeans
    <3>9. objects = Cardinality(AllElements') + m_Size[o]
      BY <3>1, <3>2, <3>4, <3>6, <3>7, <3>8
    <3> QED BY <2>5, <3>5, <3>8, <3>9 DEF Counted
  <2> QED BY <2>4, <2>5 DEF Rearranged
<1> QED BY <1>9, <1>10, <1>12, <1>13, <1>14 DEF DInv

LEMMA ConstructRearranges ==
    ASSUME DInv, NEW o \in Deques, Construct(o)
    PROVE  Rearranged({<< p, p >> : p \in alive}, {})
<1>1. Zeroed \in [Index -> Blocks \cup {NULL}] /\ 0 \in 0 .. kMaxBlocks * BlockCapacity
  BY CapacityAssumption DEF Zeroed
<1>2. /\ o \notin alive /\ alive' = alive \cup {o} /\ mem' = mem /\ objects' = objects
      /\ m_Blocks' = [m_Blocks EXCEPT ![o] = Zeroed] /\ m_Size' = [m_Size EXCEPT ![o] = 0]
  BY DEF Construct
<1>3. Types
  BY DEF DInv
<1> QED BY <1>1, <1>2, <1>3 DEF Rearranged, Types

LEMMA MoveConstructRearranges ==
    ASSUME DInv, NEW o \in Deques, NEW from \in alive, MoveConstruct(o, from)
    PROVE  Rearranged({<< p, p >> : p \in alive \ {from}} \cup {<< o, from >>}, {})
<1> DEFINE G == {<< p, p >> : p \in alive \ {from}} \cup {<< o, from >>}
<1>1. Zeroed \in [Index -> Blocks \cup {NULL}] /\ 0 \in 0 .. kMaxBlocks * BlockCapacity
  BY CapacityAssumption DEF Zeroed
<1>2. /\ o \notin alive /\ o # from /\ from \in Deques
      /\ alive' = alive \cup {o} /\ mem' = mem /\ objects' = objects
      /\ m_Blocks' = [m_Blocks EXCEPT ![o] = m_Blocks[from], ![from] = Zeroed]
      /\ m_Size' = [m_Size EXCEPT ![o] = m_Size[from], ![from] = 0]
  BY DEF MoveConstruct, DInv, Types
<1>3. Types
  BY DEF DInv
<1>4. \A p \in Deques :
        /\ m_Blocks'[p] = IF p = from THEN Zeroed ELSE IF p = o THEN m_Blocks[from] ELSE m_Blocks[p]
        /\ m_Size'[p] = IF p = from THEN 0 ELSE IF p = o THEN m_Size[from] ELSE m_Size[p]
  BY <1>2, <1>3 DEF Types
<1>5. /\ m_Blocks' \in [Deques -> [Index -> Blocks \cup {NULL}]]
      /\ m_Size' \in [Deques -> 0 .. kMaxBlocks * BlockCapacity]
  BY <1>1, <1>2, <1>3 DEF Types
<1>6. \A p, q : << p, q >> \in G <=> (p = q /\ p \in alive /\ p # from) \/ (p = o /\ q = from)
  OBVIOUS
<1> HIDE DEF G
<1>7. Rearranged(G, {})
  <2>1. alive \subseteq Deques /\ mem \in [Blocks -> [Slots -> Cells] \cup {<< >>}]
    BY <1>3 DEF Types
  <2>2. \A p \in alive : p # from =>
          p # o /\ m_Blocks'[p] = m_Blocks[p] /\ m_Size'[p] = m_Size[p]
    BY <1>2, <1>4, <2>1
  <2>3. /\ m_Blocks'[o] = m_Blocks[from] /\ m_Size'[o] = m_Size[from]
        /\ m_Blocks'[from] = Zeroed /\ m_Size'[from] = 0
    BY <1>2, <1>4
  <2>4. \A p \in alive' :
          \/ m_Blocks'[p] = Zeroed /\ m_Size'[p] = 0
          \/ \E q \in alive : << p, q >> \in G
    BY <1>2, <1>6, <2>3
  <2>5. \A p \in alive' : \A q \in alive : << p, q >> \in G =>
          q \notin {} /\ m_Blocks'[p] = m_Blocks[q] /\ m_Size'[p] = m_Size[q]
    BY <1>6, <2>2, <2>3
  <2>6. \A p, r \in alive' : \A q \in alive : << p, q >> \in G /\ << r, q >> \in G => p = r
    BY <1>6
  <2>7. \A q \in alive : q \notin {} => \E p \in alive' : << p, q >> \in G
    BY <1>2, <1>6
  <2> QED BY <1>2, <1>5, <2>1, <2>4, <2>5, <2>6, <2>7 DEF Rearranged
<1> QED BY <1>7 DEF G

\* Clear and ~KDeque.
LEMMA ClearRearranges ==
    ASSUME DInv, NEW o \in alive, Clear(o) \/ Destruct(o)
    PROVE  Rearranged({<< p, p >> : p \in alive \ {o}}, {o})
<1> DEFINE G == {<< p, p >> : p \in alive \ {o}}
<1>1. Zeroed \in [Index -> Blocks \cup {NULL}] /\ 0 \in 0 .. kMaxBlocks * BlockCapacity
  BY CapacityAssumption DEF Zeroed
<1>2. /\ alive' = alive \/ alive' = alive \ {o}
      /\ mem' = ClearedMem(o) /\ objects' = objects - m_Size[o]
      /\ m_Blocks' = [m_Blocks EXCEPT ![o] = ClearedTable(o)]
      /\ m_Size' = [m_Size EXCEPT ![o] = 0]
  BY DEF Clear, Destruct
<1>3. Types /\ o \in Deques
  BY DEF DInv, Types
<1>4. ClearedTable(o) = Zeroed
  BY ClearExact
<1>5. /\ m_Blocks' \in [Deques -> [Index -> Blocks \cup {NULL}]]
      /\ m_Size' \in [Deques -> 0 .. kMaxBlocks * BlockCapacity]
      /\ \A p \in Deques : p # o => m_Blocks'[p] = m_Blocks[p] /\ m_Size'[p] = m_Size[p]
      /\ m_Blocks'[o] = Zeroed /\ m_Size'[o] = 0
  BY <1>1, <1>2, <1>3, <1>4 DEF Types
<1>6. /\ mem' \in [Blocks -> [Slots -> Cells] \cup {<< >>}]
      /\ \A b \in Blocks :
           mem'[b] = IF \E q \in {o} : \E k \in Index : m_Blocks[q][k] = b THEN << >> ELSE mem[b]
  BY <1>2, ClearExact
<1>7. \A p, q : << p, q >> \in G <=> p = q /\ p \in alive /\ p # o
  OBVIOUS
<1> HIDE DEF G
<1>8. Rearranged(G, {o})
  <2>1. alive \subseteq Deques
    BY <1>3 DEF Types
  <2>2. \A p \in alive' :
          \/ m_Blocks'[p] = Zeroed /\ m_Size'[p] = 0
          \/ \E q \in alive : << p, q >> \in G
    BY <1>2, <1>5, <1>7
  <2>3. \A p \in alive' : \A q \in alive : << p, q >> \in G =>
          q \notin {o} /\ m_Blocks'[p] = m_Blocks[q] /\ m_Size'[p] = m_Size[q]
    BY <1>5, <1>7, <2>1
  <2>4. \A p, r \in alive' : \A q \in alive : << p, q >> \in G /\ << r, q >> \in G => p = r
    BY <1>7
  <2>5. \A q \in alive : q \notin {o} => \E p \in alive' : << p, q >> \in G
    BY <1>2, <1>7
  <2>6. alive' \subseteq Deques
    BY <1>2, <2>1
  <2> QED BY <1>2, <1>5, <1>6, <2>2, <2>3, <2>4, <2>5, <2>6 DEF Rearranged
<1> QED BY <1>8 DEF G

LEMMA MoveAssignRearranges ==
    ASSUME DInv, NEW o \in alive, NEW from \in alive, o # from, MoveAssign(o, from)
    PROVE  Rearranged({<< p, p >> : p \in alive \ {o, from}} \cup {<< o, from >>}, {o})
<1> DEFINE G == {<< p, p >> : p \in alive \ {o, from}} \cup {<< o, from >>}
<1>1. Zeroed \in [Index -> Blocks \cup {NULL}] /\ 0 \in 0 .. kMaxBlocks * BlockCapacity
  BY CapacityAssumption DEF Zeroed
<1>2. /\ alive' = alive /\ mem' = ClearedMem(o) /\ objects' = objects - m_Size[o]
      /\ m_Blocks' = [m_Blocks EXCEPT ![o] = m_Blocks[from], ![from] = Zeroed]
      /\ m_Size' = [m_Size EXCEPT ![o] = m_Size[from], ![from] = 0]
  BY DEF MoveAssign
<1>3. Types /\ o \in Deques /\ from \in Deques
  BY DEF DInv, Types
<1>4. \A p \in Deques :
        /\ m_Blocks'[p] = IF p = from THEN Zeroed ELSE IF p = o THEN m_Blocks[from] ELSE m_Blocks[p]
        /\ m_Size'[p] = IF p = from THEN 0 ELSE IF p = o THEN m_Size[from] ELSE m_Size[p]
  BY <1>2, <1>3 DEF Types
<1>5. /\ m_Blocks' \in [Deques -> [Index -> Blocks \cup {NULL}]]
      /\ m_Size' \in [Deques -> 0 .. kMaxBlocks * BlockCapacity]
  BY <1>1, <1>2, <1>3 DEF Types
<1>6. /\ mem' \in [Blocks -> [Slots -> Cells] \cup {<< >>}]
      /\ \A b \in Blocks :
           mem'[b] = IF \E q \in {o} : \E k \in Index : m_Blocks[q][k] = b THEN << >> ELSE mem[b]
  BY <1>2, ClearExact
<1>7. \A p, q : << p, q >> \in G <=>
                  (p = q /\ p \in alive /\ p # o /\ p # from) \/ (p = o /\ q = from)
  OBVIOUS
<1> HIDE DEF G
<1>8. Rearranged(G, {o})
  <2>1. alive \subseteq Deques
    BY <1>3 DEF Types
  <2>2. \A p \in alive' :
          \/ m_Blocks'[p] = Zeroed /\ m_Size'[p] = 0
          \/ \E q \in alive : << p, q >> \in G
    BY <1>2, <1>4, <1>7, <2>1
  <2>3. \A p \in alive' : \A q \in alive : << p, q >> \in G =>
          q \notin {o} /\ m_Blocks'[p] = m_Blocks[q] /\ m_Size'[p] = m_Size[q]
    <3>1. \A p \in alive : p # o /\ p # from =>
            m_Blocks'[p] = m_Blocks[p] /\ m_Size'[p] = m_Size[p]
      BY <1>4, <2>1
    <3>2. m_Blocks'[o] = m_Blocks[from] /\ m_Size'[o] = m_Size[from]
      BY <1>3, <1>4
    <3> QED BY <1>7, <3>1, <3>2
  <2>4. \A p, r \in alive' : \A q \in alive : << p, q >> \in G /\ << r, q >> \in G => p = r
    BY <1>7
  <2>5. \A q \in alive : q \notin {o} => \E p \in alive' : << p, q >> \in G
    BY <1>2, <1>7
  <2> QED BY <1>2, <1>5, <1>6, <2>1, <2>2, <2>3, <2>4, <2>5 DEF Rearranged
<1> QED BY <1>8 DEF G

\* Every step appends one element, hands tables on, or changes nothing.
LEMMA StepEffect ==
    ASSUME DInv, Next
    PROVE  \/ \E o \in alive : \E b, n, k, t : Emplaced(o, b, n, k, t)
           \/ \E G, D : Rearranged(G, D)
           \/ UNCHANGED vars
<1>1. ASSUME NEW o \in Deques, Construct(o) PROVE \E G, D : Rearranged(G, D)
  BY <1>1, ConstructRearranges
<1>2. ASSUME NEW o \in Deques, NEW from \in alive, MoveConstruct(o, from)
      PROVE  \E G, D : Rearranged(G, D)
  BY <1>2, MoveConstructRearranges
<1>3. ASSUME NEW o \in alive, Clear(o) \/ Destruct(o) PROVE \E G, D : Rearranged(G, D)
  BY <1>3, ClearRearranges
<1>4. ASSUME NEW o \in alive, NEW from \in alive, MoveAssign(o, from)
      PROVE  UNCHANGED vars \/ \E G, D : Rearranged(G, D)
  <2>1. CASE o = from
    BY <1>4, <2>1 DEF MoveAssign
  <2>2. CASE o # from
    BY <1>4, <2>2, MoveAssignRearranges
  <2> QED BY <2>1, <2>2
<1>5. ASSUME NEW o \in alive, EmplaceFails(o) PROVE UNCHANGED vars
  BY <1>5 DEF EmplaceFails
<1>6. ASSUME NEW o \in alive, NEW r \in Args, NEW consumed \in BOOLEAN,
             EmplaceBack(o, r, consumed)
      PROVE  \E b, n, k, t : Emplaced(o, b, n, k, t)
  BY <1>6, EmplaceBackEffect
<1> QED BY <1>1, <1>2, <1>3, <1>4, <1>5, <1>6 DEF Next

LEMMA InitDInv == Init => DInv
<1> SUFFICES ASSUME Init PROVE DInv
  OBVIOUS
<1>1. alive = {} /\ objects = 0 /\ mem = [b \in Blocks |-> << >>]
  BY DEF Init
<1>2. Types
  BY CapacityAssumption DEF Init, Types, Zeroed
<1>3. AllElements = {}
  BY <1>1 DEF AllElements
<1>4. Owners
  BY <1>1 DEF Owners, Free
<1> QED BY <1>1, <1>2, <1>3, <1>4, FS_EmptySet DEF DInv, Tables, Constructed, Counted

LEMMA NextDInv == DInv /\ [Next]_vars => DInv'
<1> SUFFICES ASSUME DInv, [Next]_vars PROVE DInv'
  OBVIOUS
<1>1. CASE UNCHANGED vars
  BY <1>1 DEF vars, DInv, Types, Tables, Owners, Constructed, Counted, AllElements,
              Destroyed, Address, Free
<1>2. CASE Next
  BY <1>1, <1>2, StepEffect, EmplacedInv, RearrangedInv
<1> QED BY <1>1, <1>2

\* The inductive invariant: tables and sizes agree, blocks have one owner, the
\* objects are the elements and are counted.
THEOREM DequesInOrder == Spec => []DInv
BY InitDInv, NextDInv, PTL DEF Spec

LEMMA DequeTypes == DInv => TypeOK
<1> SUFFICES ASSUME DInv PROVE TypeOK
  OBVIOUS
<1>1. objects \in Nat
  BY FS_CardinalityType DEF DInv, Counted
<1>2. \A b \in Blocks \ Free : mem[b] \in [Slots -> Vals \cup {Raw, Moved}]
  BY TypesMeans DEF Cells
<1> QED BY <1>1, <1>2 DEF DInv, Types, TypeOK

LEMMA DequeBlocks == DInv => BlocksOwned
<1> SUFFICES ASSUME DInv PROVE BlocksOwned
  OBVIOUS
<1>1. \A o \in alive : \A k \in Index : m_Blocks[o][k] # NULL => k * BlockCapacity < m_Size[o]
  <2>1. ASSUME NEW k \in Index, NEW n, Below(k, 0, n) PROVE k * BlockCapacity < n
    BY <2>1, CapacityAssumption DEF Below, Index
  <2> QED BY <2>1 DEF DInv, Tables
<1> QED BY <1>1 DEF DInv, Owners, BlocksOwned

LEMMA DequeObjects == DInv => ObjectsExact
<1> SUFFICES ASSUME DInv PROVE ObjectsExact
  OBVIOUS
<1>1. AllElements = UNION {{Address(o, i) : i \in 0 .. m_Size[o] - 1} : o \in alive}
  BY DEF AllElements, Destroyed
<1>2. ASSUME NEW b \in Blocks \ Free, NEW s \in Slots
      PROVE  mem[b][s] # Raw <=> [block |-> b, slot |-> s] \in AllElements
  <2>1. PICK o \in alive, k \in Index : m_Blocks[o][k] = b
    BY DEF DInv, Owners
  <2>2. b # NULL
    BY NamesAssumption
  <2>3. mem[b][s] # Raw <=> Below(k, s, m_Size[o])
    BY <2>1, <2>2 DEF DInv, Constructed
  <2>4. ASSUME [block |-> b, slot |-> s] \in AllElements PROVE Below(k, s, m_Size[o])
    <3>1. PICK p \in alive, l \in Index, t \in Slots :
            /\ Below(l, t, m_Size[p])
            /\ [block |-> b, slot |-> s] = [block |-> m_Blocks[p][l], slot |-> t]
      BY <2>4, AllElementsExact
    <3>2. b = m_Blocks[p][l] /\ s = t
      BY <3>1
    <3>3. o = p /\ k = l
      BY <2>1, <2>2, <3>2 DEF DInv, Owners
    <3> QED BY <3>1, <3>2, <3>3
  <2>5. ASSUME Below(k, s, m_Size[o]) PROVE [block |-> b, slot |-> s] \in AllElements
    BY <2>1, <2>5, AllElementsExact
  <2> QED BY <2>3, <2>4, <2>5
<1>3. objects = Cardinality(AllElements)
  BY DEF DInv, Counted
<1> QED BY <1>1, <1>2, <1>3 DEF ObjectsExact

\* Every pool block of the deques has one owner and none is leaked: what Clear,
\* which scans no more blocks than the size needs, leaves in a table is null.
THEOREM BlocksOwnedHolds == Spec => [](TypeOK /\ BlocksOwned)
BY DequesInOrder, DequeTypes, DequeBlocks, PTL

\* Objects are constructed and destroyed once: the cells with an object are the
\* elements, and as many constructors as destructors ran for all the others.
THEOREM ObjectsExactHolds == Spec => []ObjectsExact
BY DequesInOrder, DequeObjects, PTL

-----------------------------------------------------------------------------
(* Pointers to elements.                                                   *)

LEMMA SubSeqOfFunction ==
    ASSUME NEW n \in Nat, NEW m \in 0 .. n, NEW F, NEW H, NEW S,
           F \in [1 .. n -> S], H \in [1 .. m -> S], \A i \in 1 .. m : H[i] = F[i]
    PROVE  SubSeq(F, 1, m) = H
<1>1. /\ SubSeq(F, 1, m) \in Seq(S)
      /\ Len(SubSeq(F, 1, m)) = m
      /\ \A i \in 1 .. m : SubSeq(F, 1, m)[i] = F[i]
  <2>1. \A i \in 1 .. m : F[i] \in S
    OBVIOUS
  <2> QED BY <2>1, SubSeqProperties
<1>2. DOMAIN SubSeq(F, 1, m) = 1 .. m
  BY <1>1
<1> QED BY <1>1, <1>2

\* The first m elements of p are after the step where the m elements of q were.
LEMMA SameAddresses ==
    ASSUME DInv, NEW p, NEW q \in alive, NEW n \in Nat, n = m_Size'[p],
           NEW m \in 0 .. n, m = m_Size[q],
           \A k \in Index : Below(k, 0, m) => m_Blocks'[p][k] = m_Blocks[q][k]
    PROVE  SubSeq(Addresses(p)', 1, m_Size[q]) = Addresses(q)
<1>1. m \in 0 .. kMaxBlocks * BlockCapacity
  BY TypesMeans
<1>2. PICK F : F = Addresses(p)'
  OBVIOUS
<1>3. PICK H : H = Addresses(q)
  OBVIOUS
<1>4. F = [i \in 1 .. n |-> [block |-> m_Blocks'[p][BlockOf(i - 1)], slot |-> SlotOf(i - 1)]]
  BY <1>2 DEF Addresses, Address
<1>5. H = [i \in 1 .. m |-> [block |-> m_Blocks[q][BlockOf(i - 1)], slot |-> SlotOf(i - 1)]]
  BY <1>3 DEF Addresses, Address
<1>6. ASSUME NEW i \in 1 .. m PROVE H[i] = F[i]
  <2>1. i - 1 \in 0 .. m - 1 /\ i \in 1 .. n
    OBVIOUS
  <2>2. BlockOf(i - 1) \in Index /\ Below(BlockOf(i - 1), 0, m)
    BY <1>1, <2>1, IndexOfBelow
  <2>3. m_Blocks'[p][BlockOf(i - 1)] = m_Blocks[q][BlockOf(i - 1)]
    BY <2>2
  <2> QED BY <1>4, <1>5, <2>1, <2>3
<1> DEFINE S == {F[i] : i \in 1 .. n}
<1>7. F \in [1 .. n -> S]
  BY <1>4
<1>8. H \in [1 .. m -> S]
  <2>1. \A i \in 1 .. m : H[i] \in S
    BY <1>6
  <2> HIDE DEF S
  <2> QED BY <1>5, <2>1
<1> HIDE DEF S
<1>9. SubSeq(F, 1, m) = H
  BY <1>6, <1>7, <1>8, SubSeqOfFunction
<1> QED BY <1>2, <1>3, <1>9

LEMMA StepStable ==
    ASSUME DInv, Next, NEW p \in alive', m_Size'[p] > 1
    PROVE  \E q \in alive :
             /\ m_Size[q] \in {m_Size'[p], m_Size'[p] - 1}
             /\ SubSeq(Addresses(p)', 1, m_Size[q]) = Addresses(q)
<1>1. ASSUME NEW q \in alive, m_Blocks'[p] = m_Blocks[q], m_Size'[p] = m_Size[q]
      PROVE  /\ m_Size[q] \in {m_Size'[p], m_Size'[p] - 1}
             /\ SubSeq(Addresses(p)', 1, m_Size[q]) = Addresses(q)
  <2>1. m_Size[q] \in Nat
    BY TypesMeans
  <2>2. SubSeq(Addresses(p)', 1, m_Size[q]) = Addresses(q)
    BY <1>1, <2>1, SameAddresses
  <2> QED BY <1>1, <2>2
<1>2. CASE UNCHANGED vars
  BY <1>1, <1>2 DEF vars
<1>3. ASSUME NEW G, NEW D, Rearranged(G, D)
      PROVE  \E q \in alive : m_Blocks'[p] = m_Blocks[q] /\ m_Size'[p] = m_Size[q]
  <2>1. m_Size'[p] # 0
    OBVIOUS
  <2> QED BY <1>3, <2>1 DEF Rearranged
<1>4. ASSUME NEW o \in alive, NEW b, NEW n, NEW k, NEW t, Emplaced(o, b, n, k, t)
      PROVE  \E q \in alive :
               /\ m_Size[q] \in {m_Size'[p], m_Size'[p] - 1}
               /\ SubSeq(Addresses(p)', 1, m_Size[q]) = Addresses(q)
  <2>1. alive' = alive /\ n = m_Size[o] /\ n \in Nat /\ k \in Index /\ alive \subseteq Deques
    BY <1>4, TypesMeans DEF Emplaced, DInv, Types
  <2>2. /\ m_Blocks \in [Deques -> [Index -> Blocks \cup {NULL}]]
        /\ m_Size \in [Deques -> 0 .. kMaxBlocks * BlockCapacity]
    BY DEF DInv, Types
  <2>3. /\ m_Blocks' = [m_Blocks EXCEPT ![o] = [@ EXCEPT ![k] = b]]
        /\ m_Size' = [m_Size EXCEPT ![o] = n + 1]
        /\ Below(k, 0, n) => b = m_Blocks[o][k]
    BY <1>4 DEF Emplaced
  <2>4. CASE p # o
    BY <1>1, <2>1, <2>2, <2>3, <2>4
  <2>5. CASE p = o
    <3>1. m_Size'[p] = n + 1 /\ n \in 0 .. n + 1 /\ n + 1 \in Nat
      BY <2>1, <2>2, <2>3, <2>5
    <3>2. \A l \in Index : Below(l, 0, n) => m_Blocks'[p][l] = m_Blocks[o][l]
      BY <2>1, <2>2, <2>3, <2>5
    <3>3. SubSeq(Addresses(p)', 1, m_Size[o]) = Addresses(o)
      BY <2>1, <3>1, <3>2, SameAddresses
    <3>4. m_Size[o] \in {m_Size'[p], m_Size'[p] - 1}
      BY <2>1, <3>1
    <3> QED BY <3>3, <3>4
  <2> QED BY <2>4, <2>5
<1> QED BY <1>1, <1>2, <1>3, <1>4, StepEffect

\* "pointers to elements remain stable once emplaced", over every history of
\* EmplaceBack, Clear, moves and destruction.
THEOREM PointersStableHolds == Spec => PointersStable
<1>1. DInv /\ [Next]_vars =>
        [\A p \in alive' : m_Size'[p] > 1 =>
           \E q \in alive :
             /\ m_Size[q] \in {m_Size'[p], m_Size'[p] - 1}
             /\ SubSeq(Addresses(p)', 1, m_Size[q]) = Addresses(q)]_vars
  BY StepStable
<1> QED BY <1>1, DequesInOrder, PTL DEF Spec, PointersStable

-----------------------------------------------------------------------------
(* All the containers, on one pool.                                        *)

OV == INSTANCE KVector_proofs WITH
    Vecs <- Deques, TriviallyCopyable <- FALSE, DoublingLimit <- 4, MaxCapacity <- 4

BV == INSTANCE KVector_proofs WITH
    Vecs <- Deques, TriviallyCopyable <- TRUE, DoublingLimit <- 2, MaxCapacity <- 3

CInv ==
    /\ container \in {"deque", "objects", "bytes"}
    /\ container = "deque" => DInv
    /\ container = "objects" => OV!VInv /\ alive = {}
    /\ container = "bytes" => BV!VInv /\ alive = {}

LEMMA ObjectInit == ObjectVec!Init => OV!Init
BY DEF ObjectVec!Init, OV!Init, ObjectVec!Buffers, OV!Buffers, ObjectVec!RawCells,
    OV!RawCells

LEMMA ObjectNext == ASSUME ObjectVec!Next PROVE OV!Next
<1> USE DEF ObjectVec!Free, OV!Free, ObjectVec!LeftBehind, OV!LeftBehind,
    ObjectVec!Destroyed, OV!Destroyed, ObjectVec!Count, OV!Count,
    ObjectVec!RawCells, OV!RawCells, ObjectVec!IsDynamic, OV!IsDynamic,
    ObjectVec!Read, OV!Read, ObjectVec!AfterRead, OV!AfterRead,
    ObjectVec!DestroyCells, OV!DestroyCells, ObjectVec!Migrate, OV!Migrate,
    ObjectVec!Release, OV!Release, ObjectVec!Allocate, OV!Allocate,
    ObjectVec!Reserved, OV!Reserved, ObjectVec!SetVector, OV!SetVector,
    ObjectVec!Fails, OV!Fails, ObjectVec!vars, OV!vars
<1>1. ASSUME NEW o, ObjectVec!Construct(o) PROVE OV!Construct(o)
  BY <1>1, Zenon DEF ObjectVec!Construct, OV!Construct
<1>2. ASSUME NEW o, NEW from, ObjectVec!MoveConstruct(o, from)
      PROVE  OV!MoveConstruct(o, from)
  BY <1>2, Zenon DEF ObjectVec!MoveConstruct, OV!MoveConstruct, ObjectVec!TakeOver,
      OV!TakeOver
<1>3. ASSUME NEW o, ObjectVec!Destruct(o) PROVE OV!Destruct(o)
  BY <1>3, Zenon DEF ObjectVec!Destruct, OV!Destruct
<1>4. ASSUME NEW o, ObjectVec!Clear(o) PROVE OV!Clear(o)
  BY <1>4, Zenon DEF ObjectVec!Clear, OV!Clear
<1>5. ASSUME NEW o, NEW n, ObjectVec!Reserve(o, n) PROVE OV!Reserve(o, n)
  BY <1>5, Zenon DEF ObjectVec!Reserve, OV!Reserve
<1>6. ASSUME NEW o, NEW r, NEW consumed, ObjectVec!EmplaceInPlace(o, r, consumed)
      PROVE  OV!EmplaceInPlace(o, r, consumed)
  BY <1>6, Zenon DEF ObjectVec!EmplaceInPlace, OV!EmplaceInPlace
<1>7. ASSUME NEW o, NEW r, NEW consumed, ObjectVec!GrowAndEmplace(o, r, consumed)
      PROVE  OV!GrowAndEmplace(o, r, consumed)
  BY <1>7, Zenon DEF ObjectVec!GrowAndEmplace, OV!GrowAndEmplace,
      ObjectVec!ComputeNextCapacity, OV!ComputeNextCapacity
<1>8. ASSUME NEW o, NEW r, NEW consumed, ObjectVec!EmplaceBack(o, r, consumed)
      PROVE  OV!EmplaceBack(o, r, consumed)
  BY <1>8, <1>6, <1>7, Zenon DEF ObjectVec!EmplaceBack, OV!EmplaceBack
<1>9. ASSUME NEW o, NEW i, NEW r, ObjectVec!Insert(o, i, r) PROVE OV!Insert(o, i, r)
  BY <1>9, Zenon DEF ObjectVec!Insert, OV!Insert, ObjectVec!ComputeNextCapacity,
      OV!ComputeNextCapacity, ObjectVec!ShiftAndPut, OV!ShiftAndPut
<1>10. ASSUME NEW o, NEW p, ObjectVec!Clone(o, p) PROVE OV!Clone(o, p)
  BY <1>10, Zenon DEF ObjectVec!Clone, OV!Clone, ObjectVec!CloneInto, OV!CloneInto,
      ObjectVec!Clear, OV!Clear
<1>11. ASSUME NEW o, NEW p, ObjectVec!MoveAssign(o, p) PROVE OV!MoveAssign(o, p)
  BY <1>11, Zenon DEF ObjectVec!MoveAssign, OV!MoveAssign, ObjectVec!TakeOver,
      OV!TakeOver
<1>12. ObjectVec!Alive = OV!Alive
  BY Zenon DEF ObjectVec!Alive, OV!Alive
<1>13. ObjectVec!Args = OV!Args
  BY <1>12, SMT DEF ObjectVec!Args, OV!Args, ObjectVec!Alive, OV!Alive
<1>14. ASSUME NEW r, ObjectVec!IsArg(r) PROVE OV!IsArg(r)
  BY <1>14, Zenon DEF ObjectVec!IsArg, OV!IsArg, ObjectVec!Alive, OV!Alive
<1>15. CASE \E o \in Deques \ ObjectVec!Alive : ObjectVec!Construct(o)
  BY <1>1, <1>12, <1>15, Zenon DEF OV!Next
<1>16. CASE \E o \in Deques \ ObjectVec!Alive, from \in ObjectVec!Alive : ObjectVec!MoveConstruct(o, from)
  BY <1>2, <1>12, <1>16, Zenon DEF OV!Next
<1>17. CASE \E o \in ObjectVec!Alive : ObjectVec!Destruct(o) \/ ObjectVec!Clear(o)
  BY <1>3, <1>4, <1>12, <1>17, Zenon DEF OV!Next
<1>18. CASE \E o \in ObjectVec!Alive : \E n \in Requests : ObjectVec!Reserve(o, n)
  BY <1>5, <1>12, <1>18, Zenon DEF OV!Next
<1>19. CASE \E o \in ObjectVec!Alive : \E r \in ObjectVec!Args :
              ObjectVec!IsArg(r) /\ \E consumed \in BOOLEAN : ObjectVec!EmplaceBack(o, r, consumed)
  BY <1>8, <1>12, <1>13, <1>14, <1>19, Zenon DEF OV!Next
<1>20. CASE \E o \in ObjectVec!Alive : \E r \in ObjectVec!Args :
              ObjectVec!IsArg(r) /\ \E i \in 1 .. 4 + 1 : ObjectVec!Insert(o, i, r)
  BY <1>9, <1>12, <1>13, <1>14, <1>20, Zenon DEF OV!Next
<1>21. CASE \E o \in ObjectVec!Alive : \E p \in ObjectVec!Alive : ObjectVec!Clone(o, p) \/ ObjectVec!MoveAssign(o, p)
  BY <1>10, <1>11, <1>12, <1>21, Zenon DEF OV!Next
<1> QED BY <1>15, <1>16, <1>17, <1>18, <1>19, <1>20, <1>21, Zenon DEF ObjectVec!Next

LEMMA ByteInit == ByteVec!Init => BV!Init
BY DEF ByteVec!Init, BV!Init, ByteVec!Buffers, BV!Buffers, ByteVec!RawCells,
    BV!RawCells

LEMMA ByteNext == ASSUME ByteVec!Next PROVE BV!Next
<1> USE DEF ByteVec!Free, BV!Free, ByteVec!LeftBehind, BV!LeftBehind,
    ByteVec!Destroyed, BV!Destroyed, ByteVec!Count, BV!Count, ByteVec!RawCells,
    BV!RawCells, ByteVec!IsDynamic, BV!IsDynamic, ByteVec!Read, BV!Read,
    ByteVec!AfterRead, BV!AfterRead, ByteVec!DestroyCells, BV!DestroyCells,
    ByteVec!Migrate, BV!Migrate, ByteVec!Release, BV!Release, ByteVec!Allocate,
    BV!Allocate, ByteVec!Reserved, BV!Reserved, ByteVec!SetVector, BV!SetVector,
    ByteVec!Fails, BV!Fails, ByteVec!vars, BV!vars
<1>1. ASSUME NEW o, ByteVec!Construct(o) PROVE BV!Construct(o)
  BY <1>1, Zenon DEF ByteVec!Construct, BV!Construct
<1>2. ASSUME NEW o, NEW from, ByteVec!MoveConstruct(o, from)
      PROVE  BV!MoveConstruct(o, from)
  BY <1>2, Zenon DEF ByteVec!MoveConstruct, BV!MoveConstruct, ByteVec!TakeOver,
      BV!TakeOver
<1>3. ASSUME NEW o, ByteVec!Destruct(o) PROVE BV!Destruct(o)
  BY <1>3, Zenon DEF ByteVec!Destruct, BV!Destruct
<1>4. ASSUME NEW o, ByteVec!Clear(o) PROVE BV!Clear(o)
  BY <1>4, Zenon DEF ByteVec!Clear, BV!Clear
<1>5. ASSUME NEW o, NEW n, ByteVec!Reserve(o, n) PROVE BV!Reserve(o, n)
  BY <1>5, Zenon DEF ByteVec!Reserve, BV!Reserve
<1>6. ASSUME NEW o, NEW r, NEW consumed, ByteVec!EmplaceInPlace(o, r, consumed)
      PROVE  BV!EmplaceInPlace(o, r, consumed)
  BY <1>6, Zenon DEF ByteVec!EmplaceInPlace, BV!EmplaceInPlace
<1>7. ASSUME NEW o, NEW r, NEW consumed, ByteVec!GrowAndEmplace(o, r, consumed)
      PROVE  BV!GrowAndEmplace(o, r, consumed)
  BY <1>7, Zenon DEF ByteVec!GrowAndEmplace, BV!GrowAndEmplace,
      ByteVec!ComputeNextCapacity, BV!ComputeNextCapacity
<1>8. ASSUME NEW o, NEW r, NEW consumed, ByteVec!EmplaceBack(o, r, consumed)
      PROVE  BV!EmplaceBack(o, r, consumed)
  BY <1>8, <1>6, <1>7, Zenon DEF ByteVec!EmplaceBack, BV!EmplaceBack
<1>9. ASSUME NEW o, NEW i, NEW r, ByteVec!Insert(o, i, r) PROVE BV!Insert(o, i, r)
  BY <1>9, Zenon DEF ByteVec!Insert, BV!Insert, ByteVec!ComputeNextCapacity,
      BV!ComputeNextCapacity, ByteVec!ShiftAndPut, BV!ShiftAndPut
<1>10. ASSUME NEW o, NEW p, ByteVec!Clone(o, p) PROVE BV!Clone(o, p)
  BY <1>10, Zenon DEF ByteVec!Clone, BV!Clone, ByteVec!CloneInto, BV!CloneInto,
      ByteVec!Clear, BV!Clear
<1>11. ASSUME NEW o, NEW p, ByteVec!MoveAssign(o, p) PROVE BV!MoveAssign(o, p)
  BY <1>11, Zenon DEF ByteVec!MoveAssign, BV!MoveAssign, ByteVec!TakeOver,
      BV!TakeOver
<1>12. ByteVec!Alive = BV!Alive
  BY Zenon DEF ByteVec!Alive, BV!Alive
<1>13. ByteVec!Args = BV!Args
  BY <1>12, SMT DEF ByteVec!Args, BV!Args, ByteVec!Alive, BV!Alive
<1>14. ASSUME NEW r, ByteVec!IsArg(r) PROVE BV!IsArg(r)
  BY <1>14, Zenon DEF ByteVec!IsArg, BV!IsArg, ByteVec!Alive, BV!Alive
<1>15. CASE \E o \in Deques \ ByteVec!Alive : ByteVec!Construct(o)
  BY <1>1, <1>12, <1>15, Zenon DEF BV!Next
<1>16. CASE \E o \in Deques \ ByteVec!Alive, from \in ByteVec!Alive : ByteVec!MoveConstruct(o, from)
  BY <1>2, <1>12, <1>16, Zenon DEF BV!Next
<1>17. CASE \E o \in ByteVec!Alive : ByteVec!Destruct(o) \/ ByteVec!Clear(o)
  BY <1>3, <1>4, <1>12, <1>17, Zenon DEF BV!Next
<1>18. CASE \E o \in ByteVec!Alive : \E n \in Requests : ByteVec!Reserve(o, n)
  BY <1>5, <1>12, <1>18, Zenon DEF BV!Next
<1>19. CASE \E o \in ByteVec!Alive : \E r \in ByteVec!Args :
              ByteVec!IsArg(r) /\ \E consumed \in BOOLEAN : ByteVec!EmplaceBack(o, r, consumed)
  BY <1>8, <1>12, <1>13, <1>14, <1>19, Zenon DEF BV!Next
<1>20. CASE \E o \in ByteVec!Alive : \E r \in ByteVec!Args :
              ByteVec!IsArg(r) /\ \E i \in 1 .. 3 + 1 : ByteVec!Insert(o, i, r)
  BY <1>9, <1>12, <1>13, <1>14, <1>20, Zenon DEF BV!Next
<1>21. CASE \E o \in ByteVec!Alive : \E p \in ByteVec!Alive : ByteVec!Clone(o, p) \/ ByteVec!MoveAssign(o, p)
  BY <1>10, <1>11, <1>12, <1>21, Zenon DEF BV!Next
<1> QED BY <1>15, <1>16, <1>17, <1>18, <1>19, <1>20, <1>21, Zenon DEF ByteVec!Next

LEMMA InitCInv == MCInit => CInv
<1>1. OV!ConstantsOK /\ BV!ConstantsOK
  BY VectorsAssumption DEF ObjectVec!ConstantsOK, ByteVec!ConstantsOK, OV!ConstantsOK, BV!ConstantsOK
<1>2. OV!Init => OV!VInv
  BY <1>1, OV!InitVInv
<1>3. BV!Init => BV!VInv
  BY <1>1, BV!InitVInv
<1> QED BY <1>2, <1>3, ObjectInit, ByteInit, InitDInv DEF MCInit, CInv, NoDeques

LEMMA NextCInv == CInv /\ [MCNext]_allVars => CInv'
<1> SUFFICES ASSUME CInv, [MCNext]_allVars PROVE CInv'
  OBVIOUS
<1>1. OV!ConstantsOK /\ BV!ConstantsOK
  BY VectorsAssumption DEF ObjectVec!ConstantsOK, ByteVec!ConstantsOK, OV!ConstantsOK, BV!ConstantsOK
<1>2. container' = container /\ container \in {"deque", "objects", "bytes"}
  BY DEF MCNext, allVars, CInv
<1>3. CASE container = "deque"
  <2>1. [Next]_vars
    BY <1>3 DEF MCNext, allVars, dequeVars, poolVars, vars
  <2> QED BY <1>2, <1>3, <2>1, NextDInv DEF CInv
<1>4. CASE container = "objects"
  <2>1. [OV!Next]_(OV!vars) /\ alive' = alive
    BY <1>4, ObjectNext DEF MCNext, allVars, dequeVars, poolVars, vectorVars, OV!vars
  <2>2. OV!VInv'
    BY <1>1, <1>4, <2>1, OV!NextVInv DEF CInv
  <2> QED BY <1>2, <1>4, <2>1, <2>2 DEF CInv
<1>5. CASE container = "bytes"
  <2>1. [BV!Next]_(BV!vars) /\ alive' = alive
    BY <1>5, ByteNext DEF MCNext, allVars, dequeVars, poolVars, vectorVars, BV!vars
  <2>2. BV!VInv'
    BY <1>1, <1>5, <2>1, BV!NextVInv DEF CInv
  <2> QED BY <1>2, <1>5, <2>1, <2>2 DEF CInv
<1> QED BY <1>2, <1>3, <1>4, <1>5

\* Deques and vectors, of objects and of plain data, keep their invariants on
\* one pool.
THEOREM ContainersInOrder == MCSpec => []CInv
BY InitCInv, NextCInv, PTL DEF MCSpec

LEMMA SameObjectProperties ==
    /\ OV!TypeOK => ObjectVec!TypeOK
    /\ OV!StorageOwned => ObjectVec!StorageOwned
    /\ OV!ObjectsExact => ObjectVec!ObjectsExact
<1>1. OV!TypeOK => ObjectVec!TypeOK
  BY Zenon DEF OV!TypeOK, ObjectVec!TypeOK, OV!Buffers, ObjectVec!Buffers, OV!Alive, ObjectVec!Alive,
      OV!Elements, ObjectVec!Elements
<1>2. ASSUME OV!StorageOwned PROVE ObjectVec!StorageOwned
  <2>1. OV!Alive = ObjectVec!Alive /\ OV!Free = ObjectVec!Free
    BY Zenon DEF OV!Free, ObjectVec!Free, OV!Alive, ObjectVec!Alive
  <2>2. \A b : {o \in OV!Alive : m_First[o] = b} = {o \in ObjectVec!Alive : m_First[o] = b}
    BY <2>1
  <2>3. \A b \in Blocks \ ObjectVec!Free : ObjectVec!Cardinality({o \in ObjectVec!Alive : m_First[o] = b}) = 1
    <3>1. \A b \in Blocks \ OV!Free : OV!Cardinality({o \in OV!Alive : m_First[o] = b}) = 1
      BY <1>2, Zenon DEF OV!StorageOwned
    <3>2. \A S : OV!Cardinality(S) = ObjectVec!Cardinality(S)
      BY Zenon DEF OV!Cardinality, ObjectVec!Cardinality
    <3> QED BY <2>1, <2>2, <3>1, <3>2, Zenon
  <2>4. \A o \in ObjectVec!Alive :
          /\ m_First[o] \in {o} \cup (Blocks \ ObjectVec!Free)
          /\ m_Last[o] <= m_End[o] /\ m_End[o] = Len(mem[m_First[o]])
    BY <1>2, <2>1, SMT DEF OV!StorageOwned
  <2> QED BY <2>3, <2>4, Zenon DEF ObjectVec!StorageOwned
<1>3. ASSUME OV!ObjectsExact PROVE ObjectVec!ObjectsExact
  <2>1. OV!Alive = ObjectVec!Alive /\ OV!Buffers = ObjectVec!Buffers
    BY Zenon DEF OV!Alive, ObjectVec!Alive, OV!Buffers, ObjectVec!Buffers
  <2>2. PICK e1 : e1 = UNION {{<< m_First[o], i >> : i \in 1 .. m_Last[o]} : o \in OV!Alive}
    OBVIOUS
  <2>3. e1 = UNION {{<< m_First[o], i >> : i \in 1 .. m_Last[o]} : o \in ObjectVec!Alive}
    BY <2>1, <2>2
  <2>4. /\ \A b \in OV!Buffers : \A i \in DOMAIN mem[b] : mem[b][i] # Raw <=> << b, i >> \in e1
        /\ objects = OV!Cardinality(e1)
    BY <1>3, <2>2 DEF OV!ObjectsExact
  <2>5. objects = ObjectVec!Cardinality(e1)
    BY <2>4, Zenon DEF OV!Cardinality, ObjectVec!Cardinality
  <2> QED BY <2>1, <2>3, <2>4, <2>5 DEF ObjectVec!ObjectsExact
<1> QED BY <1>1, <1>2, <1>3

LEMMA SameByteProperties ==
    /\ BV!TypeOK => ByteVec!TypeOK
    /\ BV!StorageOwned => ByteVec!StorageOwned
<1>1. BV!TypeOK => ByteVec!TypeOK
  BY Zenon DEF BV!TypeOK, ByteVec!TypeOK, BV!Buffers, ByteVec!Buffers, BV!Alive, ByteVec!Alive,
      BV!Elements, ByteVec!Elements
<1>2. ASSUME BV!StorageOwned PROVE ByteVec!StorageOwned
  <2>1. BV!Alive = ByteVec!Alive /\ BV!Free = ByteVec!Free
    BY Zenon DEF BV!Free, ByteVec!Free, BV!Alive, ByteVec!Alive
  <2>2. \A b : {o \in BV!Alive : m_First[o] = b} = {o \in ByteVec!Alive : m_First[o] = b}
    BY <2>1
  <2>3. \A b \in Blocks \ ByteVec!Free : ByteVec!Cardinality({o \in ByteVec!Alive : m_First[o] = b}) = 1
    <3>1. \A b \in Blocks \ BV!Free : BV!Cardinality({o \in BV!Alive : m_First[o] = b}) = 1
      BY <1>2, Zenon DEF BV!StorageOwned
    <3>2. \A S : BV!Cardinality(S) = ByteVec!Cardinality(S)
      BY Zenon DEF BV!Cardinality, ByteVec!Cardinality
    <3> QED BY <2>1, <2>2, <3>1, <3>2, Zenon
  <2>4. \A o \in ByteVec!Alive :
          /\ m_First[o] \in {o} \cup (Blocks \ ByteVec!Free)
          /\ m_Last[o] <= m_End[o] /\ m_End[o] = Len(mem[m_First[o]])
    BY <1>2, <2>1, SMT DEF BV!StorageOwned
  <2> QED BY <2>3, <2>4, Zenon DEF ByteVec!StorageOwned
<1> QED BY <1>1, <1>2

LEMMA CInvMeans == CInv => StorageOwned /\ ObjectsOwned
<1> SUFFICES ASSUME CInv PROVE StorageOwned /\ ObjectsOwned
  OBVIOUS
<1>1. OV!ConstantsOK /\ BV!ConstantsOK
  BY VectorsAssumption DEF ObjectVec!ConstantsOK, ByteVec!ConstantsOK, OV!ConstantsOK, BV!ConstantsOK
<1>2. container = "deque" => TypeOK /\ BlocksOwned /\ ObjectsExact
  BY DequeTypes, DequeBlocks, DequeObjects DEF CInv
<1>3. container = "objects" =>
        ObjectVec!TypeOK /\ ObjectVec!StorageOwned /\ ObjectVec!ObjectsExact
  BY <1>1, OV!VectorTypes, OV!VectorStorage, OV!VectorObjects, SameObjectProperties DEF CInv
<1>4. container = "bytes" => ByteVec!TypeOK /\ ByteVec!StorageOwned
  BY <1>1, BV!VectorTypes, BV!VectorStorage, SameByteProperties DEF CInv
<1> QED BY <1>2, <1>3, <1>4 DEF StorageOwned, ObjectsOwned

\* Whatever is grown, moved, cleared, cloned or refused, no pool block is lost
\* or has two owners, and every container's idea of its storage fits it.
THEOREM StorageOwnedHolds == MCSpec => []StorageOwned
BY ContainersInOrder, CInvMeans, PTL

\* No object is leaked, built over or destroyed twice by any container.
THEOREM ObjectsOwnedHolds == MCSpec => []ObjectsOwned
BY ContainersInOrder, CInvMeans, PTL

\* Pointers to the elements of deques remain stable on the shared pool too.
THEOREM SharedPointersStable == MCSpec => PointersStable
<1>1. CInv /\ [MCNext]_allVars =>
        [\A p \in alive' : m_Size'[p] > 1 =>
           \E q \in alive :
             /\ m_Size[q] \in {m_Size'[p], m_Size'[p] - 1}
             /\ SubSeq(Addresses(p)', 1, m_Size[q]) = Addresses(q)]_vars
  <2> SUFFICES ASSUME CInv, [MCNext]_allVars, ~UNCHANGED vars
               PROVE  \A p \in alive' : m_Size'[p] > 1 =>
                        \E q \in alive :
                          /\ m_Size[q] \in {m_Size'[p], m_Size'[p] - 1}
                          /\ SubSeq(Addresses(p)', 1, m_Size[q]) = Addresses(q)
    OBVIOUS
  <2>1. CASE container = "deque"
    <3>1. DInv /\ Next
      BY <2>1 DEF CInv, MCNext, allVars, dequeVars, poolVars, vars
    <3> QED BY <3>1, StepStable
  <2>2. CASE container # "deque"
    BY <2>2 DEF CInv, MCNext, allVars, dequeVars
  <2> QED BY <2>1, <2>2
<1> QED BY <1>1, ContainersInOrder, PTL DEF MCSpec, PointersStable

-----------------------------------------------------------------------------
(* The deques as sequences.                                                *)

\* Of the deques A with tables t, sizes n and memory mm, the elements.
RowOf(t, n, mm) == [i \in 1 .. n |-> mm[t[BlockOf(i - 1)]][SlotOf(i - 1)]]
DequeRows(A, t, n, mm) == [o \in Deques |-> IF o \in A THEN RowOf(t[o], n[o], mm) ELSE << >>]

\* Where the elements of a deque are.
LEMMA CellOfElement ==
    ASSUME DInv, NEW o \in alive, NEW i \in 1 .. m_Size[o]
    PROVE  /\ BlockOf(i - 1) \in Index /\ SlotOf(i - 1) \in Slots
           /\ Below(BlockOf(i - 1), SlotOf(i - 1), m_Size[o]) /\ Below(BlockOf(i - 1), 0, m_Size[o])
           /\ m_Blocks[o][BlockOf(i - 1)] # NULL
           /\ m_Blocks[o][BlockOf(i - 1)] \in Blocks \ Free
           /\ mem[m_Blocks[o][BlockOf(i - 1)]][SlotOf(i - 1)] \in Cells
<1>1. PICK n, j, k, s : n = m_Size[o] /\ j = i - 1 /\ k = BlockOf(j) /\ s = SlotOf(j)
  OBVIOUS
<1>2. n \in 0 .. kMaxBlocks * BlockCapacity /\ j \in 0 .. n - 1
  BY <1>1, TypesMeans
<1>3. k \in Index /\ s \in Slots /\ Below(k, s, n) /\ Below(k, 0, n)
  BY <1>1, <1>2, IndexOfBelow
<1>4. m_Blocks[o][k] # NULL
  BY <1>1, <1>3 DEF DInv, Tables
<1>5. m_Blocks[o][k] \in Blocks \ Free
  BY <1>3, <1>4, TypesMeans DEF DInv, Owners
<1>6. mem[m_Blocks[o][k]][s] \in Cells
  BY <1>3, <1>5, TypesMeans
<1> QED BY <1>1, <1>3, <1>4, <1>5, <1>6

\* Two elements are not in the same cell.
LEMMA CellsDistinct ==
    ASSUME DInv, NEW o \in alive, NEW i \in 1 .. m_Size[o], NEW p \in alive, NEW j \in 1 .. m_Size[p],
           m_Blocks[o][BlockOf(i - 1)] = m_Blocks[p][BlockOf(j - 1)], SlotOf(i - 1) = SlotOf(j - 1)
    PROVE  o = p /\ i = j
<1>1. o = p /\ BlockOf(i - 1) = BlockOf(j - 1)
  BY CellOfElement DEF DInv, Owners
<1>2. m_Size[o] \in Nat /\ m_Size[p] \in Nat
  BY TypesMeans
<1>3. PICK u \in Nat, w \in Nat : u = i - 1 /\ w = j - 1
  BY <1>2
<1>4. u = w
  BY <1>1, <1>3, BlockOfDivides
<1> QED BY <1>1, <1>2, <1>3, <1>4

LEMMA DequeContents == DInv => Contents = DequeRows(alive, m_Blocks, m_Size, mem)
<1> SUFFICES ASSUME DInv PROVE Contents = DequeRows(alive, m_Blocks, m_Size, mem)
  OBVIOUS
<1>1. ASSUME NEW o \in alive PROVE Elements(o) = RowOf(m_Blocks[o], m_Size[o], mem)
  <2>1. PICK n, F, H : /\ n = m_Size[o] /\ F = [i \in 1 .. n |-> Read(Address(o, i - 1))]
                       /\ H = [i \in 1 .. n |-> mem[m_Blocks[o][BlockOf(i - 1)]][SlotOf(i - 1)]]
    OBVIOUS
  <2>2. ASSUME NEW i \in 1 .. n PROVE F[i] = H[i] /\ H[i] \in Cells
    <3>1. PICK b, s : b = m_Blocks[o][BlockOf(i - 1)] /\ s = SlotOf(i - 1)
      OBVIOUS
    <3>2. b # NULL /\ b \notin Free /\ mem[b][s] \in Cells
      BY <2>1, <3>1, CellOfElement
    <3>3. Address(o, i - 1) = [block |-> b, slot |-> s]
      BY <3>1 DEF Address
    <3>4. Read(Address(o, i - 1)) = mem[b][s]
      BY <3>2, <3>3 DEF Read
    <3> QED BY <2>1, <3>1, <3>2, <3>4
  <2>3. n \in Nat
    BY <2>1, TypesMeans
  <2>f. F = [i \in 1 .. n |-> F[i]] /\ H = [i \in 1 .. n |-> H[i]]
    BY <2>1
  <2>4. F \in [1 .. n -> Cells] /\ H \in [1 .. n -> Cells] /\ n \in 0 .. n
    BY <2>f, <2>2, <2>3
  <2>5. SubSeq(F, 1, n) = H
    BY <2>2, <2>3, <2>4, SubSeqOfFunction
  <2> QED BY <2>1, <2>5 DEF Elements, RowOf
<1> QED BY <1>1 DEF Contents, DequeRows

-----------------------------------------------------------------------------
(* Steps that hand tables on.                                              *)

DequeSteps == OV!SequenceStep(DequeRows(alive, m_Blocks, m_Size, mem),
                              DequeRows(alive', m_Blocks', m_Size', mem'))

LEMMA DequeStutters == UNCHANGED vars => DequeSteps
BY DEF DequeSteps, OV!SequenceStep, vars

LEMMA HandedOn ==
    ASSUME DInv, NEW G, NEW D, Rearranged(G, D), NEW p \in alive', NEW q \in alive, << p, q >> \in G
    PROVE  RowOf(m_Blocks'[p], m_Size'[p], mem') = RowOf(m_Blocks[q], m_Size[q], mem)
<1>1. q \notin D /\ m_Blocks'[p] = m_Blocks[q] /\ m_Size'[p] = m_Size[q] /\ D \subseteq alive
  BY DEF Rearranged
<1>2. ASSUME NEW i \in 1 .. m_Size[q]
      PROVE  mem'[m_Blocks[q][BlockOf(i - 1)]] = mem[m_Blocks[q][BlockOf(i - 1)]]
  <2>1. PICK k, b : k = BlockOf(i - 1) /\ b = m_Blocks[q][k]
    OBVIOUS
  <2>2. k \in Index /\ b # NULL /\ b \in Blocks
    BY <2>1, CellOfElement
  <2>3. ~\E o \in D : \E l \in Index : m_Blocks[o][l] = b
    BY <1>1, <2>1, <2>2 DEF DInv, Owners
  <2>4. mem'[b] = mem[b]
    BY <2>2, <2>3 DEF Rearranged
  <2> QED BY <2>1, <2>4
<1> QED BY <1>1, <1>2 DEF RowOf

LEMMA EmptyRow == \A t, mm : RowOf(t, 0, mm) = << >>
BY DEF RowOf

LEMMA ConstructKeeps ==
    ASSUME DInv, NEW o \in Deques, Construct(o) PROVE DequeSteps
<1>1. PICK x, y : /\ x = DequeRows(alive, m_Blocks, m_Size, mem)
                  /\ y = DequeRows(alive', m_Blocks', m_Size', mem')
  OBVIOUS
<1>2. PICK G : G = {<< p, p >> : p \in alive}
  OBVIOUS
<1>3. Rearranged(G, {})
  BY <1>2, ConstructRearranges
<1>4. o \notin alive /\ alive' = alive \cup {o} /\ m_Size'[o] = 0
  BY DEF Construct, DInv, Types
<1>5. ASSUME NEW p \in alive PROVE y[p] = x[p]
  <2>1. p \in Deques /\ p \in alive' /\ << p, p >> \in G
    BY <1>2, <1>4 DEF DInv, Types
  <2>2. RowOf(m_Blocks'[p], m_Size'[p], mem') = RowOf(m_Blocks[p], m_Size[p], mem)
    BY <1>3, <2>1, HandedOn
  <2> QED BY <1>1, <2>1, <2>2 DEF DequeRows
<1>6. y[o] = << >> /\ x[o] = << >>
  BY <1>1, <1>4, EmptyRow DEF DequeRows
<1>7. \A p \in Deques : p # o /\ p \notin alive => y[p] = x[p]
  BY <1>1, <1>4 DEF DequeRows
<1>8. x = [p \in Deques |-> x[p]] /\ y = [p \in Deques |-> y[p]]
  BY <1>1 DEF DequeRows
<1>9. y = x
  BY <1>5, <1>6, <1>7, <1>8
<1> QED BY <1>1, <1>9 DEF DequeSteps, OV!SequenceStep

LEMMA ClearClears ==
    ASSUME DInv, NEW o \in alive, Clear(o) \/ Destruct(o) PROVE DequeSteps
<1>1. PICK x, y : /\ x = DequeRows(alive, m_Blocks, m_Size, mem)
                  /\ y = DequeRows(alive', m_Blocks', m_Size', mem')
  OBVIOUS
<1>2. PICK G : G = {<< p, p >> : p \in alive \ {o}}
  OBVIOUS
<1>3. Rearranged(G, {o})
  BY <1>2, ClearRearranges
<1>4. /\ alive' = alive \/ alive' = alive \ {o}
      /\ m_Size'[o] = 0 /\ o \in Deques
  BY DEF Clear, Destruct, DInv, Types
<1>5. ASSUME NEW p \in alive, p # o PROVE y[p] = x[p]
  <2>1. p \in Deques /\ p \in alive' /\ << p, p >> \in G
    BY <1>2, <1>4, <1>5 DEF DInv, Types
  <2>2. RowOf(m_Blocks'[p], m_Size'[p], mem') = RowOf(m_Blocks[p], m_Size[p], mem)
    BY <1>3, <2>1, HandedOn
  <2> QED BY <1>1, <2>1, <2>2 DEF DequeRows
<1>6. y[o] = << >>
  BY <1>1, <1>4, EmptyRow DEF DequeRows
<1>7. \A p \in Deques : p # o /\ p \notin alive => y[p] = x[p]
  BY <1>1, <1>4 DEF DequeRows
<1>8. x = [p \in Deques |-> x[p]] /\ y = [p \in Deques |-> y[p]]
  BY <1>1 DEF DequeRows
<1>9. y = [x EXCEPT ![o] = << >>]
  BY <1>4, <1>5, <1>6, <1>7, <1>8
<1>10. OV!Clears(x, y)
  BY <1>4, <1>9 DEF OV!Clears
<1> QED BY <1>1, <1>10 DEF DequeSteps, OV!SequenceStep

\* Both moves.
LEMMA MoveMoves ==
    ASSUME DInv, NEW o \in Deques, NEW from \in alive, o # from, NEW G, NEW D, Rearranged(G, D),
           alive' = alive \cup {o}, m_Size'[from] = 0, << o, from >> \in G,
           \A p \in alive : p \notin {o, from} => << p, p >> \in G
    PROVE  DequeSteps
<1>1. PICK x, y : /\ x = DequeRows(alive, m_Blocks, m_Size, mem)
                  /\ y = DequeRows(alive', m_Blocks', m_Size', mem')
  OBVIOUS
<1>2. alive \subseteq Deques
  BY DEF DInv, Types
<1>3. ASSUME NEW p \in alive', NEW q \in alive, << p, q >> \in G PROVE y[p] = x[q]
  <2>1. p \in Deques /\ q \in Deques
    BY <1>2
  <2>2. RowOf(m_Blocks'[p], m_Size'[p], mem') = RowOf(m_Blocks[q], m_Size[q], mem)
    BY <1>3, HandedOn
  <2> QED BY <1>1, <1>3, <2>1, <2>2 DEF DequeRows
<1>4. y[o] = x[from]
  BY <1>3
<1>5. y[from] = << >>
  BY <1>1, <1>2, EmptyRow DEF DequeRows
<1>6. \A p \in Deques : p \notin {o, from} /\ p \in alive => y[p] = x[p]
  BY <1>3
<1>7. \A p \in Deques : p \notin {o, from} /\ p \notin alive => y[p] = x[p]
  BY <1>1 DEF DequeRows
<1>8. x = [p \in Deques |-> x[p]] /\ y = [p \in Deques |-> y[p]]
  BY <1>1 DEF DequeRows
<1>9. y = [x EXCEPT ![o] = x[from], ![from] = << >>]
  BY <1>2, <1>4, <1>5, <1>6, <1>7, <1>8
<1>10. OV!Moves(x, y)
  BY <1>2, <1>9, OV!MovesOne
<1> QED BY <1>1, <1>10 DEF DequeSteps, OV!SequenceStep

LEMMA MoveConstructMoves ==
    ASSUME DInv, NEW o \in Deques, NEW from \in alive, MoveConstruct(o, from) PROVE DequeSteps
<1>1. PICK G : G = {<< p, p >> : p \in alive \ {from}} \cup {<< o, from >>}
  OBVIOUS
<1>2. Rearranged(G, {})
  BY <1>1, MoveConstructRearranges
<1>3. o # from /\ alive' = alive \cup {o} /\ m_Size'[from] = 0
  BY DEF MoveConstruct, DInv, Types
<1>4. << o, from >> \in G /\ \A p \in alive : p \notin {o, from} => << p, p >> \in G
  BY <1>1
<1> QED BY <1>2, <1>3, <1>4, MoveMoves

LEMMA MoveAssignMoves ==
    ASSUME DInv, NEW o \in alive, NEW from \in alive, MoveAssign(o, from) PROVE DequeSteps
<1>1. CASE o = from
  BY <1>1, DequeStutters DEF MoveAssign
<1>2. CASE o # from
  <2>1. PICK G : G = {<< p, p >> : p \in alive \ {o, from}} \cup {<< o, from >>}
    OBVIOUS
  <2>2. Rearranged(G, {o})
    BY <1>2, <2>1, MoveAssignRearranges
  <2>3. alive' = alive \cup {o} /\ m_Size'[from] = 0 /\ o \in Deques
    BY <1>2 DEF MoveAssign, DInv, Types
  <2>4. << o, from >> \in G /\ \A p \in alive : p \notin {o, from} => << p, p >> \in G
    BY <2>1
  <2> QED BY <1>2, <2>2, <2>3, <2>4, MoveMoves
<1> QED BY <1>1, <1>2

-----------------------------------------------------------------------------
(* Steps that append an element.                                           *)

\* An argument that is an element is one of a deque that is alive.
IsElement(r, p, i) ==
    /\ p \in alive /\ i \in 1 .. m_Size[p]
    /\ r.block = m_Blocks[p][BlockOf(i - 1)] /\ r.slot = SlotOf(i - 1)
    /\ r.v = mem[r.block][r.slot]

LEMMA ArgIsElement ==
    ASSUME DInv, NEW r \in Args
    PROVE  (r.block = NULL /\ r.v \in Vals) \/ \E p, i : IsElement(r, p, i)
<1>1. CASE r \in {[block |-> NULL, slot |-> 0, v |-> v] : v \in Vals}
  BY <1>1
<1>2. ASSUME NEW p \in alive, NEW j \in 0 .. m_Size[p] - 1,
             r = [block |-> Address(p, j).block, slot |-> Address(p, j).slot,
                  v |-> Read(Address(p, j))]
      PROVE  \E q, i : IsElement(r, q, i)
  <2>1. m_Size[p] \in Nat
    BY TypesMeans
  <2>2. PICK i : i = j + 1 /\ i - 1 = j /\ i \in 1 .. m_Size[p]
    BY <2>1
  <2>3. PICK b, s : b = m_Blocks[p][BlockOf(i - 1)] /\ s = SlotOf(i - 1)
    OBVIOUS
  <2>4. b # NULL /\ b \notin Free
    BY <2>2, <2>3, CellOfElement
  <2>5. Address(p, j) = [block |-> b, slot |-> s]
    BY <2>2, <2>3 DEF Address
  <2>6. Read(Address(p, j)) = mem[b][s]
    BY <2>4, <2>5 DEF Read
  <2>7. r.block = b /\ r.slot = s /\ r.v = mem[b][s]
    BY <1>2, <2>5, <2>6
  <2>8. IsElement(r, p, i)
    BY <2>2, <2>3, <2>7 DEF IsElement
  <2> QED BY <2>8
<1>3. r \in {[block |-> NULL, slot |-> 0, v |-> v] : v \in Vals} \/
      \E p \in alive : \E j \in 0 .. m_Size[p] - 1 :
        r = [block |-> Address(p, j).block, slot |-> Address(p, j).slot,
             v |-> Read(Address(p, j))]
  BY DEF Args
<1> QED BY <1>1, <1>2, <1>3

\* What the deques hold once the argument was consumed.
LEMMA ConsumedRows ==
    ASSUME DInv, NEW r, NEW p, NEW i, IsElement(r, p, i), r.block # NULL,
           NEW mm, mm = AfterRead(r, TRUE),
           NEW x, x = DequeRows(alive, m_Blocks, m_Size, mem),
           NEW z, z = DequeRows(alive, m_Blocks, m_Size, mm)
    PROVE  OV!ShellLeft(x, p, i, z)
<1>1. PICK b, s : b = r.block /\ s = r.slot
  OBVIOUS
<1>2. /\ p \in alive /\ i \in 1 .. m_Size[p] /\ p \in Deques
      /\ b = m_Blocks[p][BlockOf(i - 1)] /\ s = SlotOf(i - 1) /\ alive \subseteq Deques
  BY <1>1 DEF IsElement, DInv, Types
<1>3. mm = [mem EXCEPT ![b] = [mem[b] EXCEPT ![s] = Moved]]
  BY <1>1 DEF AfterRead, LeftBehind
<1>4. b \in Blocks \ Free /\ s \in Slots /\ mem \in [Blocks -> [Slots -> Cells] \cup {<< >>}]
  BY <1>2, CellOfElement DEF DInv, Types
<1>5. mem[b] \in [Slots -> Cells]
  BY <1>4, TypesMeans
<1>6. \A c \in Blocks : \A j \in Slots :
        c \notin Free => mm[c][j] = IF c = b /\ j = s THEN Moved ELSE mem[c][j]
  BY <1>3, <1>4, <1>5
<1>7. ASSUME NEW q \in alive, NEW j \in 1 .. m_Size[q]
      PROVE  z[q][j] = IF q = p /\ j = i THEN Moved ELSE x[q][j]
  <2>1. PICK c, l : c = m_Blocks[q][BlockOf(j - 1)] /\ l = SlotOf(j - 1)
    OBVIOUS
  <2>2. c \in Blocks \ Free /\ l \in Slots
    BY <2>1, CellOfElement
  <2>3. x[q][j] = mem[c][l] /\ z[q][j] = mm[c][l]
    BY <1>2, <2>1 DEF DequeRows, RowOf
  <2>4. c = b /\ l = s <=> q = p /\ j = i
    BY <1>2, <2>1, CellsDistinct
  <2> QED BY <1>6, <2>2, <2>3, <2>4
<1>8. /\ x = [q \in Deques |-> x[q]] /\ z = [q \in Deques |-> z[q]]
      /\ \A q \in Deques : q \notin alive => x[q] = << >> /\ z[q] = << >>
      /\ \A q \in alive : /\ x[q] = [j \in 1 .. m_Size[q] |-> x[q][j]]
                          /\ z[q] = [j \in 1 .. m_Size[q] |-> z[q][j]]
  <2>1. /\ x = [q \in Deques |-> x[q]] /\ z = [q \in Deques |-> z[q]]
        /\ \A q \in Deques : q \notin alive => x[q] = << >> /\ z[q] = << >>
    BY DEF DequeRows
  <2>2. ASSUME NEW q \in alive
        PROVE  x[q] = [j \in 1 .. m_Size[q] |-> x[q][j]] /\ z[q] = [j \in 1 .. m_Size[q] |-> z[q][j]]
    <3>1. x[q] = RowOf(m_Blocks[q], m_Size[q], mem) /\ z[q] = RowOf(m_Blocks[q], m_Size[q], mm)
      BY <1>2 DEF DequeRows
    <3> QED BY <3>1 DEF RowOf
  <2> QED BY <2>1, <2>2
<1>9. ASSUME NEW q \in alive, q # p PROVE z[q] = x[q]
  <2>1. PICK u, w, n : u = x[q] /\ w = z[q] /\ n = m_Size[q]
    OBVIOUS
  <2>2. u = [j \in 1 .. n |-> u[j]] /\ w = [j \in 1 .. n |-> w[j]]
    BY <1>8, <2>1
  <2>3. \A j \in 1 .. n : w[j] = u[j]
    BY <1>7, <1>9, <2>1
  <2> QED BY <2>1, <2>2, <2>3
<1>10. z[p] = [x[p] EXCEPT ![i] = Moved]
  <2>1. PICK u, w, n : u = x[p] /\ w = z[p] /\ n = m_Size[p]
    OBVIOUS
  <2>2. u = [j \in 1 .. n |-> u[j]] /\ w = [j \in 1 .. n |-> w[j]]
    BY <1>2, <1>8, <2>1
  <2>3. \A j \in 1 .. n : w[j] = IF j = i THEN Moved ELSE u[j]
    BY <1>2, <1>7, <2>1
  <2>4. w = [u EXCEPT ![i] = Moved]
    BY <1>2, <2>1, <2>2, <2>3
  <2> QED BY <2>1, <2>4
<1>11. PICK w : w = [x[p] EXCEPT ![i] = Moved]
  OBVIOUS
<1>12. \A q \in Deques : z[q] = IF q = p THEN w ELSE x[q]
  BY <1>2, <1>8, <1>9, <1>10, <1>11
<1>13. z = [x EXCEPT ![p] = w]
  BY <1>8, <1>12
<1> QED BY <1>11, <1>13 DEF OV!ShellLeft

LEMMA ArgAppendedTo ==
    ASSUME DInv, NEW r \in Args, NEW consumed \in BOOLEAN, NEW o \in alive,
           NEW x, x = DequeRows(alive, m_Blocks, m_Size, mem),
           NEW z, z = DequeRows(alive, m_Blocks, m_Size, AfterRead(r, consumed)),
           NEW y, y = [z EXCEPT ![o] = Append(z[o], r.v)]
    PROVE  OV!SequenceStep(x, y)
<1>1. o \in Deques /\ alive \subseteq Deques
  BY DEF DInv, Types
<1>2. ASSUME NEW p, NEW i, IsElement(r, p, i)
      PROVE  /\ p \in Deques /\ i \in DOMAIN x[p] /\ r.v = x[p][i] /\ x[p][i] \in OV!Held(x)
             /\ r.block # NULL
  <2>1. p \in alive /\ i \in 1 .. m_Size[p] /\ r.v = mem[m_Blocks[p][BlockOf(i - 1)]][SlotOf(i - 1)]
    BY <1>2 DEF IsElement
  <2>2. x[p] = RowOf(m_Blocks[p], m_Size[p], mem) /\ p \in Deques
    BY <1>1, <2>1 DEF DequeRows
  <2>3. i \in DOMAIN x[p] /\ r.v = x[p][i]
    BY <2>1, <2>2 DEF RowOf
  <2>4. x[p][i] \in OV!Held(x)
    BY <2>2, <2>3 DEF OV!Held
  <2>5. r.block # NULL
    BY <1>2, <2>1, CellOfElement DEF IsElement
  <2> QED BY <2>2, <2>3, <2>4, <2>5
<1>3. CASE ~consumed \/ r.block = NULL
  <2>1. z = x
    BY <1>3 DEF AfterRead
  <2>2. r.v \in OV!Held(x)
    <3>1. Vals \subseteq OV!Held(x)
      BY DEF OV!Held
    <3> QED BY <1>2, <3>1, ArgIsElement
  <2>3. y = [x EXCEPT ![o] = Append(x[o], r.v)]
    BY <2>1
  <2>4. OV!Appends(x, y)
    BY <1>1, <2>2, <2>3, Zenon DEF OV!Appends
  <2> QED BY <2>4 DEF OV!SequenceStep
<1>4. CASE consumed /\ r.block # NULL
  <2>1. PICK p, i : IsElement(r, p, i)
    BY <1>4, ArgIsElement
  <2>2. p \in Deques /\ i \in DOMAIN x[p] /\ r.v = x[p][i]
    BY <1>2, <2>1
  <2>3. AfterRead(r, consumed) = AfterRead(r, TRUE)
    BY <1>4 DEF AfterRead
  <2>4. OV!ShellLeft(x, p, i, z)
    <3>1. PICK mm : mm = AfterRead(r, TRUE)
      OBVIOUS
    <3>2. z = DequeRows(alive, m_Blocks, m_Size, mm)
      BY <2>3, <3>1
    <3> QED BY <1>4, <2>1, <3>1, <3>2, ConsumedRows
  <2>5. OV!PutBehind(z, o, x[p][i], y)
    BY <2>2 DEF OV!PutBehind
  <2>6. OV!AppendsMoved(x, y)
    BY <1>1, <2>2, <2>4, <2>5, OV!MovedAppend
  <2> QED BY <2>6 DEF OV!SequenceStep
<1> QED BY <1>3, <1>4

\* The elements stay, and the new one is behind them.
LEMMA EmplacedRows ==
    ASSUME DInv, NEW o \in alive, NEW b, NEW n, NEW k, NEW t, Emplaced(o, b, n, k, t),
           NEW mm, NEW v \in Cells, PutIn(b, t, v, mm),
           NEW z, z = DequeRows(alive, m_Blocks, m_Size, mm),
           \A p \in alive : \A i \in 1 .. m_Size[p] : z[p][i] \in Cells
    PROVE  DequeRows(alive', m_Blocks', m_Size', mem') = [z EXCEPT ![o] = Append(z[o], v)]
<1>1. PICK y : y = DequeRows(alive', m_Blocks', m_Size', mem')
  OBVIOUS
<1>2. /\ o \in Deques /\ alive' = alive /\ alive \subseteq Deques /\ n = m_Size[o] /\ n \in Nat
      /\ k = BlockOf(n) /\ t = SlotOf(n) /\ k \in Index /\ t \in Slots /\ b \in Blocks
      /\ m_Blocks \in [Deques -> [Index -> Blocks \cup {NULL}]]
      /\ m_Size \in [Deques -> 0 .. kMaxBlocks * BlockCapacity]
  BY TypesMeans DEF Emplaced, DInv, Types
<1>3. /\ m_Size'[o] = n + 1 /\ m_Blocks'[o][k] = b
      /\ \A l \in Index : l # k => m_Blocks'[o][l] = m_Blocks[o][l]
      /\ \A p \in Deques : p # o => m_Size'[p] = m_Size[p] /\ m_Blocks'[p] = m_Blocks[p]
  BY <1>2 DEF Emplaced
<1>4. ASSUME NEW p \in alive, NEW i \in 1 .. m_Size[p]
      PROVE  mem'[m_Blocks'[p][BlockOf(i - 1)]][SlotOf(i - 1)] = z[p][i]
  <2>1. PICK l, s, c : l = BlockOf(i - 1) /\ s = SlotOf(i - 1) /\ c = m_Blocks[p][l]
    OBVIOUS
  <2>2. /\ l \in Index /\ s \in Slots /\ Below(l, s, m_Size[p]) /\ Below(l, 0, m_Size[p])
        /\ c # NULL /\ c \in Blocks \ Free
    BY <2>1, CellOfElement
  <2>3. z[p][i] = mm[c][s]
    BY <1>2, <2>1 DEF DequeRows, RowOf
  <2>4. m_Blocks'[p][l] = c
    BY <1>2, <1>3, <2>1, <2>2 DEF Emplaced
  <2>5. mem'[c][s] = mm[c][s]
    <3>1. CASE c # b
      BY <2>2, <3>1 DEF PutIn
    <3>2. CASE c = b
      <4>1. b = m_Blocks[o][k]
        BY <2>2, <3>2 DEF Emplaced
      <4>2. p = o /\ l = k
        <5>1. m_Blocks[p][l] # NULL /\ m_Blocks[p][l] = m_Blocks[o][k]
          BY <2>1, <2>2, <3>2, <4>1
        <5> QED BY <1>2, <2>2, <5>1 DEF DInv, Owners
      <4>3. Below(k, s, n)
        BY <1>2, <2>2, <4>2
      <4>4. k \in Nat
        BY <1>2, CapacityAssumption DEF Index
      <4>5. Below(k, s, n) <=> (k < BlockOf(n) \/ (k = BlockOf(n) /\ s < SlotOf(n)))
        BY <1>2, <2>2, <4>4, BelowExact
      <4>6. s # t
        <5>1. s \in Nat /\ t \in Nat
          BY <1>2, <2>2 DEF Slots
        <5> QED BY <1>2, <4>3, <4>4, <4>5, <5>1
      <4> QED BY <2>2, <3>2, <4>6 DEF PutIn
    <3> QED BY <3>1, <3>2
  <2> QED BY <2>1, <2>3, <2>4, <2>5
<1>5. y = [p \in Deques |-> y[p]] /\ z = [p \in Deques |-> z[p]]
  BY <1>1 DEF DequeRows
<1>6. ASSUME NEW p \in alive, p # o PROVE y[p] = z[p]
  <2>1. p \in Deques
    BY <1>2
  <2>2. y[p] = [i \in 1 .. m_Size[p] |-> mem'[m_Blocks'[p][BlockOf(i - 1)]][SlotOf(i - 1)]]
    BY <1>1, <1>2, <1>3, <1>6, <2>1 DEF DequeRows, RowOf
  <2>3. z[p] = [i \in 1 .. m_Size[p] |-> z[p][i]]
    BY <2>1 DEF DequeRows, RowOf
  <2> QED BY <1>4, <2>2, <2>3
<1>7. \A p \in Deques : p \notin alive => y[p] = z[p]
  BY <1>1, <1>2 DEF DequeRows
<1>8. y[o] = Append(z[o], v)
  <2>1. PICK u, a : u = y[o] /\ a = z[o]
    OBVIOUS
  <2>2. u = [i \in 1 .. n + 1 |-> mem'[m_Blocks'[o][BlockOf(i - 1)]][SlotOf(i - 1)]]
    BY <1>1, <1>2, <1>3, <2>1 DEF DequeRows, RowOf
  <2>3. u[n + 1] = v
    <3>1. n + 1 \in 1 .. n + 1 /\ (n + 1) - 1 = n
      BY <1>2
    <3>2. u[n + 1] = mem'[m_Blocks'[o][BlockOf(n)]][SlotOf(n)]
      BY <2>2, <3>1
    <3> QED BY <1>2, <1>3, <3>2 DEF PutIn
  <2>4. \A i \in 1 .. n : u[i] = a[i]
    <3>1. \A i \in 1 .. n : i \in 1 .. n + 1
      BY <1>2
    <3> QED BY <1>2, <1>4, <2>1, <2>2, <3>1
  <2>5. \A i \in 1 .. n : a[i] \in Cells
    BY <1>2, <2>1
  <2>6. [i \in 1 .. n + 1 |-> u[i]] = Append([i \in 1 .. n |-> a[i]], v)
    BY <1>2, <2>3, <2>4, <2>5, OV!AppendedRow
  <2>7. u = [i \in 1 .. n + 1 |-> u[i]] /\ a = [i \in 1 .. n |-> a[i]]
    <3>1. a = RowOf(m_Blocks[o], n, mm)
      BY <1>2, <2>1 DEF DequeRows
    <3> QED BY <2>2, <3>1 DEF RowOf
  <2> QED BY <2>1, <2>6, <2>7
<1>9. y = [z EXCEPT ![o] = Append(z[o], v)]
  BY <1>2, <1>5, <1>6, <1>7, <1>8
<1> QED BY <1>1, <1>9

LEMMA EmplaceAppends ==
    ASSUME DInv, NEW o \in alive, NEW r \in Args, NEW consumed \in BOOLEAN, EmplaceBack(o, r, consumed)
    PROVE  DequeSteps
<1>1. PICK mm, v : mm = AfterRead(r, consumed) /\ v = r.v
  OBVIOUS
<1>2. PICK b, n, k, t : Emplaced(o, b, n, k, t) /\ PutIn(b, t, v, mm)
  BY <1>1, EmplaceBackEffect
<1>3. PICK x, z, y : /\ x = DequeRows(alive, m_Blocks, m_Size, mem)
                     /\ z = DequeRows(alive, m_Blocks, m_Size, mm)
                     /\ y = [z EXCEPT ![o] = Append(z[o], v)]
  OBVIOUS
<1>4. v \in Cells
  BY <1>1, ArgsValid
<1>5. ASSUME NEW p \in alive, NEW i \in 1 .. m_Size[p] PROVE z[p][i] \in Cells
  <2>0. p \in Deques
    BY DEF DInv, Types
  <2>1. PICK c, s : c = m_Blocks[p][BlockOf(i - 1)] /\ s = SlotOf(i - 1)
    OBVIOUS
  <2>2. c \in Blocks \ Free /\ s \in Slots /\ mem[c][s] \in Cells /\ mem[c] \in [Slots -> Cells]
    BY <2>1, CellOfElement, TypesMeans
  <2>3. z[p][i] = mm[c][s]
    BY <1>3, <2>0, <2>1 DEF DequeRows, RowOf
  <2>4. mm[c][s] \in {mem[c][s], Moved}
    <3>1. CASE consumed /\ r.block # NULL
      <4>1. r.block \in Blocks \ Free /\ r.slot \in Slots /\ mem[r.block] \in [Slots -> Cells]
        BY <3>1, ArgsValid, TypesMeans
      <4>2. mm = [mem EXCEPT ![r.block] = [mem[r.block] EXCEPT ![r.slot] = Moved]]
        BY <1>1, <3>1 DEF AfterRead, LeftBehind
      <4>3. mem \in [Blocks -> [Slots -> Cells] \cup {<< >>}]
        BY DEF DInv, Types
      <4> QED BY <2>2, <4>1, <4>2, <4>3
    <3>2. CASE ~(consumed /\ r.block # NULL)
      BY <1>1, <3>2 DEF AfterRead
    <3> QED BY <3>1, <3>2
  <2> QED BY <2>2, <2>3, <2>4 DEF Cells
<1>6. DequeRows(alive', m_Blocks', m_Size', mem') = y
  BY <1>2, <1>3, <1>4, <1>5, EmplacedRows
<1>7. OV!SequenceStep(x, y)
  BY <1>1, <1>3, ArgAppendedTo
<1> QED BY <1>3, <1>6, <1>7 DEF DequeSteps

LEMMA NextDequeSteps == DInv /\ [Next]_vars => DequeSteps
<1> SUFFICES ASSUME DInv, [Next]_vars PROVE DequeSteps
  OBVIOUS
<1>1. CASE UNCHANGED vars
  BY <1>1, DequeStutters
<1>2. ASSUME NEW o \in Deques, Construct(o) PROVE DequeSteps
  BY <1>2, ConstructKeeps
<1>3. ASSUME NEW o \in Deques, NEW from \in alive, MoveConstruct(o, from) PROVE DequeSteps
  BY <1>3, MoveConstructMoves
<1>4. ASSUME NEW o \in alive, Clear(o) \/ Destruct(o) PROVE DequeSteps
  BY <1>4, ClearClears
<1>5. ASSUME NEW o \in alive, EmplaceFails(o) PROVE DequeSteps
  BY <1>5, DequeStutters DEF EmplaceFails
<1>6. ASSUME NEW o \in alive, NEW r \in Args, NEW consumed \in BOOLEAN, EmplaceBack(o, r, consumed)
      PROVE  DequeSteps
  BY <1>6, EmplaceAppends
<1>7. ASSUME NEW o \in alive, NEW from \in alive, MoveAssign(o, from) PROVE DequeSteps
  BY <1>7, MoveAssignMoves
<1> QED BY <1>1, <1>2, <1>3, <1>4, <1>5, <1>6, <1>7 DEF Next

LEMMA DequeContentsStep == DInv /\ [Next]_vars => OV!SequenceStep(Contents, Contents')
<1>1. (DInv => Contents = DequeRows(alive, m_Blocks, m_Size, mem))'
  BY DequeContents, PTL
<1>2. DInv' => Contents' = DequeRows(alive', m_Blocks', m_Size', mem')
  BY <1>1 DEF DequeRows, RowOf
<1> QED BY <1>2, DequeContents, NextDInv, NextDequeSteps DEF DequeSteps

-----------------------------------------------------------------------------
(* All the containers implement SequenceAbs.                               *)

\* What Abstract takes for the sequences.
Shown == IF container = "deque" THEN Contents ELSE ObjectVec!Contents

LEMMA SameContents ==
    /\ OV!Contents = ObjectVec!Contents /\ BV!Contents = ObjectVec!Contents
    /\ (OV!Contents)' = (ObjectVec!Contents)' /\ (BV!Contents)' = (ObjectVec!Contents)'
<1>1. OV!Contents = ObjectVec!Contents /\ BV!Contents = ObjectVec!Contents
  BY DEF OV!Contents, BV!Contents, ObjectVec!Contents, OV!Alive, BV!Alive, ObjectVec!Alive,
         OV!Elements, BV!Elements, ObjectVec!Elements
<1>2. (OV!Contents = ObjectVec!Contents /\ BV!Contents = ObjectVec!Contents)'
  BY <1>1, PTL
<1> QED BY <1>1, <1>2

LEMMA SameSteps == \A x, y : BV!SequenceStep(x, y) => OV!SequenceStep(x, y)
<1>1. \A x : BV!Held(x) = OV!Held(x)
  BY DEF BV!Held, OV!Held
<1>2. \A x, i, e : BV!InsertedAt(x, i, e) = OV!InsertedAt(x, i, e)
  BY DEF BV!InsertedAt, OV!InsertedAt
<1>3. ASSUME NEW x, NEW y PROVE BV!Appends(x, y) => OV!Appends(x, y)
  BY <1>1 DEF BV!Appends, OV!Appends
<1>4. ASSUME NEW x, NEW y PROVE BV!Inserts(x, y) => OV!Inserts(x, y)
  <2>1. ASSUME NEW o \in Deques, NEW v \in BV!Held(x), NEW i \in 1 .. Len(x[o]) + 1,
               y = [x EXCEPT ![o] = BV!InsertedAt(x[o], i, v)]
        PROVE  OV!Inserts(x, y)
    BY <1>1, <1>2, <2>1, OV!InsertsOne
  <2> QED BY <2>1 DEF BV!Inserts
<1>5. ASSUME NEW x, NEW y PROVE BV!AppendsMoved(x, y) => OV!AppendsMoved(x, y)
  BY Zenon DEF BV!AppendsMoved, OV!AppendsMoved
<1>6. ASSUME NEW x, NEW y PROVE BV!Moves(x, y) => OV!Moves(x, y)
  BY Zenon DEF BV!Moves, OV!Moves
<1>7. ASSUME NEW x, NEW y PROVE BV!Clones(x, y) => OV!Clones(x, y)
  BY Zenon DEF BV!Clones, OV!Clones
<1>8. ASSUME NEW x, NEW y PROVE BV!Clears(x, y) => OV!Clears(x, y)
  BY Zenon DEF BV!Clears, OV!Clears
<1> QED BY <1>3, <1>4, <1>5, <1>6, <1>7, <1>8, Zenon DEF BV!SequenceStep, OV!SequenceStep

LEMMA ShownSteps == CInv /\ [MCNext]_allVars => OV!SequenceStep(Shown, Shown')
<1> SUFFICES ASSUME CInv, [MCNext]_allVars PROVE OV!SequenceStep(Shown, Shown')
  OBVIOUS
<1>1. OV!ConstantsOK /\ BV!ConstantsOK
  BY VectorsAssumption DEF ObjectVec!ConstantsOK, ByteVec!ConstantsOK, OV!ConstantsOK, BV!ConstantsOK
<1>2. container' = container /\ container \in {"deque", "objects", "bytes"}
  BY DEF MCNext, allVars, CInv
<1>3. CASE container = "deque"
  <2>1. [Next]_vars /\ DInv
    BY <1>3 DEF MCNext, allVars, dequeVars, poolVars, vars, CInv
  <2>2. OV!SequenceStep(Contents, Contents')
    BY <2>1, DequeContentsStep
  <2>3. Shown = Contents /\ Shown' = Contents'
    BY <1>2, <1>3 DEF Shown
  <2> QED BY <2>2, <2>3
<1>4. CASE container # "deque"
  <2>1. Shown = ObjectVec!Contents /\ Shown' = (ObjectVec!Contents)'
    BY <1>2, <1>4 DEF Shown
  <2>2. CASE container = "objects"
    <3>1. [OV!Next]_(OV!vars) /\ OV!VInv
      BY <2>2, ObjectNext DEF MCNext, allVars, dequeVars, poolVars, vectorVars, OV!vars, CInv
    <3>2. OV!SequenceStep(OV!Contents, (OV!Contents)')
      BY <1>1, <3>1, OV!ContentsSteps
    <3> QED BY <2>1, <3>2, SameContents
  <2>3. CASE container = "bytes"
    <3>1. [BV!Next]_(BV!vars) /\ BV!VInv
      BY <2>3, ByteNext DEF MCNext, allVars, dequeVars, poolVars, vectorVars, BV!vars, CInv
    <3>2. BV!SequenceStep(BV!Contents, (BV!Contents)')
      BY <1>1, <3>1, BV!ContentsSteps
    <3>3. BV!SequenceStep(Shown, Shown')
      BY <2>1, <3>2, SameContents
    <3> QED BY <3>3, SameSteps
  <2> QED BY <1>2, <1>4, <2>2, <2>3
<1> QED BY <1>3, <1>4

LEMMA ShownInit == MCInit => Shown = [o \in Deques |-> << >>]
<1> SUFFICES ASSUME MCInit PROVE Shown = [o \in Deques |-> << >>]
  OBVIOUS
<1>1. CASE container = "deque"
  <2>1. alive = {}
    BY <1>1 DEF MCInit, Init
  <2> QED BY <1>1, <2>1 DEF Shown, Contents
<1>2. CASE container # "deque"
  <2>1. m_First = [o \in Deques |-> NULL]
    BY <1>2 DEF MCInit, ObjectVec!Init, ByteVec!Init
  <2> QED BY <1>2, <2>1 DEF Shown, ObjectVec!Contents, ObjectVec!Alive
<1> QED BY <1>1, <1>2

LEMMA StepsOfAbstract == OV!SequenceStep(Shown, Shown') => [Abstract!ANext]_Shown
<1> SUFFICES ASSUME OV!SequenceStep(Shown, Shown'), ~UNCHANGED Shown PROVE Abstract!ANext
  OBVIOUS
<1>1. PICK x, y : x = Shown /\ y = Shown'
  OBVIOUS
<1>2. OV!Held(x) = Abstract!Copied
  BY <1>1 DEF Shown, OV!Held, Abstract!Copied, Abstract!ToSet
<1>3. CASE OV!Appends(x, y)
  <2>1. PICK o \in Deques, v \in OV!Held(x) : y = [x EXCEPT ![o] = Append(x[o], v)]
    BY <1>3 DEF OV!Appends
  <2>2. Abstract!AAppend(o, v)
    BY <1>1, <2>1 DEF Shown, Abstract!AAppend
  <2> QED BY <1>2, <2>1, <2>2, Zenon DEF Shown, Abstract!ANext
<1>4. CASE OV!AppendsMoved(x, y)
  <2>0. PICK o \in Deques, p \in Deques : \E i \in DOMAIN x[p] : \E z :
          /\ z = [x EXCEPT ![p] = [x[p] EXCEPT ![i] = Moved]]
          /\ y = [z EXCEPT ![o] = Append(z[o], x[p][i])]
    BY <1>4, Zenon DEF OV!AppendsMoved
  <2>e. PICK i \in DOMAIN x[p] : \E z :
          /\ z = [x EXCEPT ![p] = [x[p] EXCEPT ![i] = Moved]]
          /\ y = [z EXCEPT ![o] = Append(z[o], x[p][i])]
    BY <2>0, Zenon
  <2>1. PICK z :
          /\ z = [x EXCEPT ![p] = [x[p] EXCEPT ![i] = Moved]]
          /\ y = [z EXCEPT ![o] = Append(z[o], x[p][i])]
    BY <2>e, Zenon
  <2>2. Abstract!AAppendMoved(o, p, i)
    BY <1>1, <2>1 DEF Shown, Abstract!AAppendMoved
  <2>3. i \in DOMAIN Shown[p]
    BY <1>1, <2>1
  <2> QED BY <2>1, <2>2, <2>3, Zenon DEF Shown, Abstract!ANext
<1>5. CASE OV!Inserts(x, y)
  <2>1. PICK o, v, i :
          /\ o \in Deques /\ v \in OV!Held(x) /\ i \in 1 .. Len(x[o]) + 1
          /\ y = [x EXCEPT ![o] = OV!InsertedAt(x[o], i, v)]
    BY <1>5 DEF OV!Inserts
  <2>2. i \in 1 .. Len(Shown[o]) + 1
    BY <1>1, <2>1
  <2>3. Abstract!AInsert(o, i, v)
    BY <1>1, <2>1, <2>2 DEF Shown, Abstract!AInsert, Abstract!InsertAt, OV!InsertedAt
  <2> QED BY <1>2, <2>1, <2>2, <2>3, Zenon DEF Shown, Abstract!ANext
<1>6. CASE OV!Moves(x, y)
  <2>1. PICK o \in Deques, p \in Deques : o # p /\ y = [x EXCEPT ![o] = x[p], ![p] = << >>]
    BY <1>6 DEF OV!Moves
  <2>2. Abstract!AMove(o, p)
    BY <1>1, <2>1 DEF Shown, Abstract!AMove
  <2> QED BY <2>1, <2>2, Zenon DEF Shown, Abstract!ANext
<1>7. CASE OV!Clones(x, y)
  <2>1. PICK o \in Deques, p \in Deques : y = [x EXCEPT ![p] = x[o]]
    BY <1>7 DEF OV!Clones
  <2>2. Abstract!AClone(o, p)
    BY <1>1, <2>1 DEF Shown, Abstract!AClone
  <2> QED BY <2>1, <2>2, Zenon DEF Shown, Abstract!ANext
<1>8. CASE OV!Clears(x, y)
  <2>1. PICK o \in Deques : y = [x EXCEPT ![o] = << >>]
    BY <1>8 DEF OV!Clears
  <2>2. Abstract!AClear(o)
    BY <1>1, <2>1 DEF Shown, Abstract!AClear
  <2> QED BY <2>1, <2>2, Zenon DEF Shown, Abstract!ANext
<1>9. CASE y = x
  BY <1>1, <1>9
<1> QED BY <1>1, <1>3, <1>4, <1>5, <1>6, <1>7, <1>8, <1>9 DEF OV!SequenceStep

\* Every operation of a deque or a vector, through growth, failed allocations,
\* moves and arguments that are elements of the container itself, does to the
\* containers' sequences what SequenceAbs says of it; a failure consumes
\* nothing.
THEOREM ImplementSequencesHolds == MCSpec => ImplementSequences
<1>1. MCInit => Abstract!AInit
  BY ShownInit DEF Abstract!AInit, Shown
<1>2. CInv /\ [MCNext]_allVars => [Abstract!ANext]_Shown
  BY ShownSteps, StepsOfAbstract
<1>3. CInv /\ [MCNext]_allVars =>
        [Abstract!ANext]_(IF container = "deque" THEN Contents ELSE ObjectVec!Contents)
  BY <1>2 DEF Shown
<1> QED BY <1>1, <1>3, ContainersInOrder, PTL DEF MCSpec, ImplementSequences, Abstract!ASpec
===============================================================================

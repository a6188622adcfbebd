-------------------------------- MODULE KDeque --------------------------------
(***************************************************************************)
(* KDeque: an append-only array in pool blocks of BlockCapacity elements.  *)
(* Every block is a function from its slots to cells; a cell that holds no *)
(* object is Raw.  The elements are of a type with a destructor.           *)
(***************************************************************************)
EXTENDS Integers, Sequences, FiniteSets

CONSTANTS
    Deques,           \* the storage of deque objects
    Blocks,           \* addresses ExAllocatePool2 can return
    NULL,
    Vals,             \* values the caller holds
    Raw, Moved,       \* no object; an object that was moved from
    BlockCapacity,    \* elements of a block (512)
    kMaxBlocks        \* (256)

\* The loop of Log2.
Log2[n \in Nat] == IF n > 1 THEN 1 + Log2[n \div 2] ELSE 0

ASSUME NamesAssumption ==
    /\ NULL \notin Blocks
    /\ Raw \notin Vals /\ Moved \notin Vals /\ Raw # Moved
ASSUME CapacityAssumption ==
    /\ BlockCapacity \in Nat \ {0} /\ kMaxBlocks \in Nat \ {0}
    /\ BlockCapacity = 2 ^ Log2[BlockCapacity]

VARIABLES
    alive,       \* the deques that are constructed
    m_Blocks, m_Size,
    mem,         \* the cells of every block, << >> for a block that is free
    objects      \* constructor calls less destructor calls

vars == << alive, m_Blocks, m_Size, mem, objects >>

Slots  == 0 .. BlockCapacity - 1
Index  == 0 .. kMaxBlocks - 1
Free   == {b \in Blocks : mem[b] = << >>}
Zeroed == [i \in Index |-> NULL]

BlockShift == Log2[BlockCapacity]
BlockOf(i) == i \div (2 ^ BlockShift)
SlotOf(i)  == i % BlockCapacity

Init ==
    /\ alive = {}
    /\ m_Blocks = [o \in Deques |-> Zeroed] /\ m_Size = [o \in Deques |-> 0]
    /\ mem = [b \in Blocks |-> << >>]
    /\ objects = 0

\* operator[] and Back: the address of element i.
Address(o, i) == [block |-> m_Blocks[o][BlockOf(i)], slot |-> SlotOf(i)]
Addresses(o) == [i \in 1 .. m_Size[o] |-> Address(o, i - 1)]

\* What is read at an address; nothing where no block is.
Read(a) == IF a.block # NULL /\ a.block \notin Free THEN mem[a.block][a.slot] ELSE Raw
Elements(o) ==
    SubSeq([i \in 1 .. m_Size[o] |-> Read(Address(o, i - 1))], 1, m_Size[o])

-----------------------------------------------------------------------------
Construct(o) ==
    /\ o \notin alive
    /\ alive' = alive \cup {o}
    /\ m_Blocks' = [m_Blocks EXCEPT ![o] = Zeroed]
    /\ m_Size' = [m_Size EXCEPT ![o] = 0]
    /\ UNCHANGED << mem, objects >>

\* The blocks that AllocateBlock may leave in slot k of the table: the one
\* there, or a new one.  None: STATUS_QUOTA_EXCEEDED, or the pool has none.
AllocateBlock(o, k) ==
    IF k >= kMaxBlocks THEN {}
    ELSE IF m_Blocks[o][k] # NULL THEN {m_Blocks[o][k]} ELSE Free

\* The memory with x constructed at a slot; a free block is allocated first.
ConstructAt(mm, b, slot, x) ==
    [mm EXCEPT ![b] = [s \in Slots |-> IF s = slot THEN x
                                       ELSE IF @ = << >> THEN Raw ELSE @[s]]]

\* An argument is the caller's value, or (a move of) an element.
LeftBehind(x) == Moved
Args == {[block |-> NULL, slot |-> 0, v |-> v] : v \in Vals} \cup
        {[block |-> a.block, slot |-> a.slot, v |-> Read(a)] :
            a \in UNION {{Address(o, i) : i \in 0 .. m_Size[o] - 1} : o \in alive}}

AfterRead(r, consumed) ==
    IF consumed /\ r.block # NULL THEN [mem EXCEPT ![r.block][r.slot] = LeftBehind(@)] ELSE mem

EmplaceAlways(o, r, consumed) ==    \* mutant: a block for every element
    LET k == BlockOf(m_Size[o]) IN
    \E b \in IF k < kMaxBlocks THEN Free ELSE {} :
      /\ mem' = ConstructAt(AfterRead(r, consumed), b, SlotOf(m_Size[o]), r.v)
      /\ m_Blocks' = [m_Blocks EXCEPT ![o][k] = b]
      /\ m_Size' = [m_Size EXCEPT ![o] = @ + 1]
      /\ objects' = objects + 1
      /\ UNCHANGED alive

EmplaceBack(o, r, consumed) ==
    LET k == BlockOf(m_Size[o]) IN
    \E b \in IF SlotOf(m_Size[o]) = 0 THEN AllocateBlock(o, k) ELSE {m_Blocks[o][k]} :
      /\ mem' = ConstructAt(AfterRead(r, consumed), b, SlotOf(m_Size[o]), r.v)
      /\ m_Blocks' = [m_Blocks EXCEPT ![o][k] = b]
      /\ m_Size' = [m_Size EXCEPT ![o] = @ + 1]
      /\ objects' = objects + 1
      /\ UNCHANGED alive

EmplaceFails(o) ==
    LET k == BlockOf(m_Size[o]) IN
    /\ SlotOf(m_Size[o]) = 0
    /\ k < kMaxBlocks => m_Blocks[o][k] = NULL
    /\ UNCHANGED vars

\* Clear frees no more than the first fullBlocks + 1 blocks of the table.
BlocksToScan(o) ==
    LET fullBlocks == BlockOf(m_Size[o])
    IN IF fullBlocks < kMaxBlocks THEN fullBlocks + 1 ELSE kMaxBlocks

Scanned(o) == {m_Blocks[o][i] : i \in 0 .. BlocksToScan(o) - 1} \ {NULL}

Destroyed(o) == {Address(o, i) : i \in 0 .. m_Size[o] - 1}

\* The memory after Clear: objects destroyed, scanned blocks freed.
ClearedMem(o) ==
    [b \in Blocks |->
       IF b \in Scanned(o) \/ b \in Free THEN << >>
       ELSE [s \in Slots |-> IF [block |-> b, slot |-> s] \in Destroyed(o)
                             THEN Raw ELSE mem[b][s]]]

ClearedTable(o) == [i \in Index |-> IF i < BlocksToScan(o) THEN NULL ELSE m_Blocks[o][i]]

Clear(o) ==
    /\ mem' = ClearedMem(o)
    /\ m_Blocks' = [m_Blocks EXCEPT ![o] = ClearedTable(o)]
    /\ m_Size' = [m_Size EXCEPT ![o] = 0]
    /\ objects' = objects - m_Size[o]
    /\ UNCHANGED alive

Destruct(o) ==
    /\ mem' = ClearedMem(o)
    /\ m_Blocks' = [m_Blocks EXCEPT ![o] = ClearedTable(o)]
    /\ m_Size' = [m_Size EXCEPT ![o] = 0]
    /\ objects' = objects - m_Size[o]
    /\ alive' = alive \ {o}

MoveConstruct(o, from) ==
    /\ o \notin alive
    /\ alive' = alive \cup {o}
    /\ m_Blocks' = [m_Blocks EXCEPT ![o] = m_Blocks[from], ![from] = Zeroed]
    /\ m_Size' = [m_Size EXCEPT ![o] = m_Size[from], ![from] = 0]
    /\ UNCHANGED << mem, objects >>

MoveAssign(o, from) ==
    \/ o = from /\ UNCHANGED vars
    \/ /\ o # from
       /\ mem' = ClearedMem(o)
       /\ m_Blocks' = [m_Blocks EXCEPT ![o] = m_Blocks[from], ![from] = Zeroed]
       /\ m_Size' = [m_Size EXCEPT ![o] = m_Size[from], ![from] = 0]
       /\ objects' = objects - m_Size[o]
       /\ UNCHANGED alive

Next ==
    \/ \E o \in Deques : Construct(o)
    \/ \E o \in Deques, from \in alive : MoveConstruct(o, from)
    \/ \E o \in alive :
         \/ Clear(o) \/ Destruct(o) \/ EmplaceFails(o)
         \/ \E r \in Args, consumed \in BOOLEAN : EmplaceBack(o, r, consumed)
         \/ \E from \in alive : MoveAssign(o, from)

Spec == Init /\ [][Next]_vars

-----------------------------------------------------------------------------
TypeOK ==
    /\ alive \subseteq Deques
    /\ m_Blocks \in [Deques -> [Index -> Blocks \cup {NULL}]]
    /\ m_Size \in [Deques -> 0 .. kMaxBlocks * BlockCapacity]
    /\ \A b \in Blocks \ Free : mem[b] \in [Slots -> Vals \cup {Raw, Moved}]
    /\ objects \in Nat

\* The pool blocks that are not free are exactly those in the tables, each in
\* one slot of one table, and a table holds as many as its elements need and
\* no more: whatever Clear does not scan is null.
BlocksOwned ==
    /\ \A b \in Blocks \ Free : \E o \in alive : \E i \in Index : m_Blocks[o][i] = b
    /\ \A o, p \in alive : \A i, j \in Index :
         m_Blocks[o][i] # NULL /\ m_Blocks[o][i] = m_Blocks[p][j] => o = p /\ i = j
    /\ \A o \in alive : \A i \in Index : m_Blocks[o][i] # NULL =>
         m_Blocks[o][i] \notin Free /\ i * BlockCapacity < m_Size[o]

\* The cells that hold objects are exactly the elements of the deques, and as
\* many objects were constructed and not destroyed.
ObjectsExact ==
    LET elements == UNION {{Address(o, i) : i \in 0 .. m_Size[o] - 1} : o \in alive} IN
    /\ \A b \in Blocks \ Free : \A s \in Slots :
         mem[b][s] # Raw <=> [block |-> b, slot |-> s] \in elements
    /\ objects = Cardinality(elements)

\* "pointers to elements remain stable once emplaced": what a deque holds
\* after a step, it or the deque moved into it held before, in that order and
\* at those addresses, but for one new element at the end.
PointersStable ==
    [][\A p \in alive' : m_Size'[p] > 1 =>
         \E q \in alive :
           /\ m_Size[q] \in {m_Size'[p], m_Size'[p] - 1}
           /\ SubSeq(Addresses(p)', 1, m_Size[q]) = Addresses(q)]_vars

\* The deques as sequences, for the refinement of SequenceAbs.
Contents == [o \in Deques |-> IF o \in alive THEN Elements(o) ELSE << >>]
===============================================================================

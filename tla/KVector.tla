-------------------------------- MODULE KVector --------------------------------
(***************************************************************************)
(* KVector: a growing array that starts in a buffer inside the object and  *)
(* moves to pool blocks.  Every buffer is a sequence of cells; a cell that *)
(* holds no object is Raw.  The buffer inside vector o has the name o.     *)
(* m_Last and m_End are offsets from m_First.                              *)
(***************************************************************************)
EXTENDS Integers, Sequences, FiniteSets

CONSTANTS
    Vecs,                 \* the storage of vector objects
    Blocks,               \* addresses ExAllocatePool2 can return
    NULL,
    Vals,                 \* values the caller holds
    Raw, Moved,           \* no object; an object that was moved from
    TriviallyCopyable,    \* is_trivially_copyable_v<T>: memcpy, no destructors
    SvoCapacity,          \* cells inside the object (2)
    SmallCapacity,        \* capacities below it grow to FirstDynamic (4)
    FirstDynamic,         \* (8)
    DoublingLimit,        \* capacities below it double (1024)
    MaxCapacity,          \* largest capacity whose byte size fits in SIZE_T
    Requests              \* capacities the callers reserve

\* What the constants must satisfy; the modules that instantiate this one
\* assume it.  Growing a vector always makes room for one element.
ConstantsOK ==
    /\ Vecs \cap Blocks = {} /\ NULL \notin Vecs \cup Blocks
    /\ Raw \notin Vals /\ Moved \notin Vals /\ Raw # Moved
    /\ SvoCapacity \in Nat /\ SmallCapacity \in Nat \ {0} /\ MaxCapacity \in Nat
    /\ FirstDynamic \in Nat /\ FirstDynamic >= SmallCapacity
    /\ DoublingLimit \in Nat /\ DoublingLimit >= 2
    /\ Requests \subseteq Nat

VARIABLES
    m_First,    \* the buffer in use, NULL where no vector is constructed
    m_Last, m_End,
    mem,        \* the cells of every buffer, << >> for a block that is free
    objects     \* constructor calls less destructor calls

vars == << m_First, m_Last, m_End, mem, objects >>

Buffers == Vecs \cup Blocks
Free    == {b \in Blocks : mem[b] = << >>}
Alive   == {o \in Vecs : m_First[o] # NULL}

LeftBehind(x) == IF TriviallyCopyable THEN x ELSE Moved
Destroyed(x)  == IF TriviallyCopyable THEN x ELSE Raw
Count(n)      == IF TriviallyCopyable THEN 0 ELSE n

RawCells(n) == [i \in 1 .. n |-> Raw]

Init ==
    /\ m_First = [o \in Vecs |-> NULL]
    /\ m_Last = [o \in Vecs |-> 0] /\ m_End = [o \in Vecs |-> 0]
    /\ mem = [b \in Buffers |-> IF b \in Vecs THEN RawCells(SvoCapacity) ELSE << >>]
    /\ objects = 0

IsDynamic(o) == m_First[o] # o
Elements(o)  == SubSeq(mem[m_First[o]], 1, m_Last[o])

\* An argument refers to the caller's own value (b = NULL), or to an element
\* of a vector, maybe of the one it is passed to.
Args ==
    {[b |-> NULL, v |-> v, i |-> 0] : v \in Vals} \cup
    {[b |-> m_First[o], v |-> Raw, i |-> i] : o \in Alive, i \in 1 .. MaxCapacity}

IsArg(r) == r.b = NULL \/ \E o \in Alive : m_First[o] = r.b /\ r.i <= m_Last[o]

\* What it reads; a reference into freed memory reads Raw.
Read(mm, r) ==
    IF r.b = NULL THEN r.v
    ELSE IF r.i \in DOMAIN mm[r.b] THEN mm[r.b][r.i] ELSE Raw

\* A consumed argument (an rvalue) is left behind as a shell.
AfterRead(mm, r, consumed) ==
    IF consumed /\ r.b # NULL THEN [mm EXCEPT ![r.b][r.i] = LeftBehind(@)] ELSE mm

-----------------------------------------------------------------------------
\* Parts of operations, as changes of the memory mm.

DestroyNone(mm, b, n) == mm    \* mutant
DestroyCells(mm, b, n) ==
    [mm EXCEPT ![b] = [i \in DOMAIN @ |-> IF i <= n THEN Destroyed(@[i]) ELSE @[i]]]

\* Move n elements from buffer b to buffer c, destroying each behind.
Migrate(mm, b, n, c) ==
    DestroyCells([mm EXCEPT ![c] = [i \in DOMAIN @ |-> IF i <= n THEN mm[b][i] ELSE @[i]]],
                 b, n)

ReleaseAny(mm, o) == [mm EXCEPT ![m_First[o]] = << >>]    \* mutant
Release(mm, o) == IF IsDynamic(o) THEN [mm EXCEPT ![m_First[o]] = << >>] ELSE mm

Allocate(mm, b, n) == [mm EXCEPT ![b] = RawCells(n)]

\* Where the vector's elements are after Reserve moved them to block b.
Reserved(o, mm, n, b, cap) ==
    Release(Migrate(Allocate(mm, b, cap), m_First[o], n, b), o)

ComputeNextCapacity(c) ==
    IF c < SmallCapacity THEN FirstDynamic
    ELSE IF c < DoublingLimit THEN 2 * c ELSE c + (c \div 2)

SetVector(o, b, n, cap) ==
    /\ m_First' = [m_First EXCEPT ![o] = b]
    /\ m_Last'  = [m_Last EXCEPT ![o] = n]
    /\ m_End'   = [m_End EXCEPT ![o] = cap]

-----------------------------------------------------------------------------
Construct(o) ==
    /\ m_First[o] = NULL
    /\ SetVector(o, o, 0, SvoCapacity)
    /\ UNCHANGED << mem, objects >>

Destruct(o) ==
    /\ mem' = Release(DestroyCells(mem, m_First[o], m_Last[o]), o)
    /\ SetVector(o, NULL, 0, 0)
    /\ objects' = objects - Count(m_Last[o])

\* The allocation failed, or its size overflowed: nothing changes.
Fails == UNCHANGED vars

Reserve(o, n) ==
    \/ n <= m_End[o] /\ UNCHANGED vars
    \/ n > m_End[o] /\ Fails
    \/ /\ n > m_End[o] /\ n <= MaxCapacity
       /\ \E b \in Free :
            /\ mem' = Reserved(o, mem, m_Last[o], b, n)
            /\ SetVector(o, b, m_Last[o], n)
       /\ UNCHANGED objects

\* EmplaceBack and both PushBack with room: constructed in place.
EmplaceInPlace(o, r, consumed) ==
    /\ m_Last[o] < m_End[o]
    /\ mem' = [AfterRead(mem, r, consumed)
                 EXCEPT ![m_First[o]][m_Last[o] + 1] = Read(mem, r)]
    /\ m_Last' = [m_Last EXCEPT ![o] = @ + 1]
    /\ objects' = objects + Count(1)
    /\ UNCHANGED << m_First, m_End >>

GrowThenEmplace(o, r, consumed) ==    \* mutant: the argument is read last
    /\ m_Last[o] >= m_End[o]
    /\ ComputeNextCapacity(m_End[o]) <= MaxCapacity
    /\ \E b \in Free :
         LET n     == m_Last[o]
             cap   == ComputeNextCapacity(m_End[o])
             grown == Reserved(o, mem, n, b, cap)
         IN /\ mem' = [grown EXCEPT ![b][n + 1] = Read(grown, r)]
            /\ SetVector(o, b, n + 1, cap)
    /\ objects' = objects + Count(1)

\* The new element is constructed in the new block before the old ones move.
GrowAndEmplace(o, r, consumed) ==
    /\ m_Last[o] >= m_End[o]
    /\ ComputeNextCapacity(m_End[o]) <= MaxCapacity
    /\ \E b \in Free :
         LET n     == m_Last[o]
             cap   == ComputeNextCapacity(m_End[o])
             built == [Allocate(AfterRead(mem, r, consumed), b, cap)
                        EXCEPT ![b][n + 1] = Read(mem, r)]
         IN /\ mem' = Release(Migrate(built, m_First[o], n, b), o)
            /\ SetVector(o, b, n + 1, cap)
    /\ objects' = objects + Count(1)

EmplaceBack(o, r, consumed) ==
    \/ EmplaceInPlace(o, r, consumed)
    \/ GrowAndEmplace(o, r, consumed)
    \/ m_Last[o] >= m_End[o] /\ Fails

\* Insert's second half: x is the local copy of the argument, the elements
\* are in buffer b of mm.  The last one is moved to a new object, the others
\* are assigned; without any, the copy itself makes the new object.
ShiftAndPut(o, index, x, mm, b, cap) ==
    LET n == m_Last[o] IN
    /\ mem' = [mm EXCEPT ![b] = [i \in DOMAIN @ |->
                  IF i = index THEN x
                  ELSE IF i \in index + 1 .. n + 1 THEN @[i - 1] ELSE @[i]]]
    /\ SetVector(o, b, n + 1, cap)
    /\ objects' = objects + Count(1)

\* Position is 1 .. n + 1 for the code's index 0 .. n.
Insert(o, index, r) ==
    \/ index > m_Last[o] + 1 /\ UNCHANGED vars    \* STATUS_INVALID_PARAMETER
    \/ /\ index <= m_Last[o] + 1 /\ m_Last[o] < m_End[o]
       /\ ShiftAndPut(o, index, Read(mem, r), mem, m_First[o], m_End[o])
    \/ /\ index <= m_Last[o] + 1 /\ m_Last[o] >= m_End[o]
       /\ ComputeNextCapacity(m_End[o]) <= MaxCapacity
       /\ \E b \in Free :
            LET cap == ComputeNextCapacity(m_End[o])
                mm  == Reserved(o, mem, m_Last[o], b, cap)
            IN ShiftAndPut(o, index, Read(mem, r), mm, b, cap)
    \/ m_Last[o] >= m_End[o] /\ Fails

Clear(o) ==
    /\ mem' = DestroyCells(mem, m_First[o], m_Last[o])
    /\ m_Last' = [m_Last EXCEPT ![o] = 0]
    /\ objects' = objects - Count(m_Last[o])
    /\ UNCHANGED << m_First, m_End >>

\* Copies o to the vector to; what to held is gone even if it fails.
CloneInto(o, to, mm, b, cap) ==
    LET n == m_Last[o] IN
    /\ mem' = [mm EXCEPT ![b] = [i \in DOMAIN @ |->
                  IF i <= n THEN mem[m_First[o]][i] ELSE @[i]]]
    /\ SetVector(to, b, n, cap)
    /\ objects' = objects - Count(m_Last[to]) + Count(n)

Clone(o, to) ==
    LET cleared == DestroyCells(mem, m_First[to], m_Last[to]) IN
    \/ o = to /\ UNCHANGED vars
    \/ /\ o # to /\ m_Last[o] <= m_End[to]
       /\ CloneInto(o, to, cleared, m_First[to], m_End[to])
    \/ /\ o # to /\ m_Last[o] > m_End[to] /\ m_Last[o] <= MaxCapacity
       /\ \E b \in Free :
            CloneInto(o, to, Reserved(to, cleared, 0, b, m_Last[o]), b, m_Last[o])
    \/ o # to /\ m_Last[o] > m_End[to] /\ Clear(to)

\* Takes over the pool block of from, or moves its elements between the
\* inline buffers; from starts again with its own.
TakeOver(o, from, mm) ==
    /\ mem' = IF IsDynamic(from) THEN mm ELSE Migrate(mm, from, m_Last[from], o)
    /\ m_First' = [m_First EXCEPT ![o] = IF IsDynamic(from) THEN m_First[from] ELSE o,
                                  ![from] = from]
    /\ m_Last'  = [m_Last EXCEPT ![o] = m_Last[from], ![from] = 0]
    /\ m_End'   = [m_End EXCEPT ![o] = IF IsDynamic(from) THEN m_End[from] ELSE SvoCapacity,
                                ![from] = SvoCapacity]

MoveConstruct(o, from) ==
    /\ m_First[o] = NULL
    /\ TakeOver(o, from, mem)
    /\ UNCHANGED objects

MoveAssign(o, from) ==
    \/ o = from /\ UNCHANGED vars
    \/ /\ o # from
       /\ TakeOver(o, from, Release(DestroyCells(mem, m_First[o], m_Last[o]), o))
       /\ objects' = objects - Count(m_Last[o])

Next ==
    \/ \E o \in Vecs \ Alive : Construct(o)
    \/ \E o \in Vecs \ Alive, from \in Alive : MoveConstruct(o, from)
    \/ \E o \in Alive :
         \/ Destruct(o) \/ Clear(o)
         \/ \E n \in Requests : Reserve(o, n)
         \/ \E r \in Args : /\ IsArg(r)
                            /\ \/ \E consumed \in BOOLEAN : EmplaceBack(o, r, consumed)
                               \/ \E i \in 1 .. MaxCapacity + 1 : Insert(o, i, r)
         \/ \E p \in Alive : Clone(o, p) \/ MoveAssign(o, p)

Spec == Init /\ [][Next]_vars

-----------------------------------------------------------------------------
TypeOK ==
    /\ m_First \in [Vecs -> Buffers \cup {NULL}]
    /\ m_Last \in [Vecs -> Nat] /\ m_End \in [Vecs -> Nat]
    /\ \A o \in Alive : \A i \in 1 .. m_Last[o] : Elements(o)[i] \in Vals \cup {Moved}
    /\ objects \in Nat

\* A pool block belongs to exactly one vector, none is lost, and a vector's
\* own idea of its buffer fits it: an inline buffer is used by its own object
\* only, the elements fit in the capacity, and the capacity is the block's.
StorageOwned ==
    /\ \A b \in Blocks \ Free : Cardinality({o \in Alive : m_First[o] = b}) = 1
    /\ \A o \in Alive : /\ m_First[o] \in {o} \cup (Blocks \ Free)
                       /\ m_Last[o] <= m_End[o] /\ m_End[o] = Len(mem[m_First[o]])

\* Of a type with constructors and destructors, the cells that hold objects
\* are exactly the elements of the vectors, and as many objects were
\* constructed and not destroyed: none is leaked by construction over it, by
\* freeing its block or by Clear, and none is destroyed twice.
ObjectsExact ==
    ~TriviallyCopyable =>
      LET elements == UNION {{<< m_First[o], i >> : i \in 1 .. m_Last[o]} : o \in Alive}
      IN /\ \A b \in Buffers : \A i \in DOMAIN mem[b] :
              mem[b][i] # Raw <=> << b, i >> \in elements
         /\ objects = Cardinality(elements)

\* The vectors as sequences, for the refinement of SequenceAbs.
Contents == [o \in Vecs |-> IF o \in Alive THEN Elements(o) ELSE << >>]
===============================================================================

---------------------------- MODULE KVector_proofs ----------------------------
(***************************************************************************)
(* Proofs about KVector: every pool block has one owner and none is        *)
(* leaked, the constructed objects are exactly the elements, and the       *)
(* vectors implement the sequences of SequenceAbs; for every number of     *)
(* vectors and blocks, every inline capacity and every rule of growth that *)
(* makes room, for objects and for plain data.                             *)
(***************************************************************************)
EXTENDS KVector, FiniteSetTheorems, SequenceTheorems, TLAPS

Full  == Vals \cup {Moved}
Cells == Vals \cup {Raw, Moved}

\* A buffer of n cells; the memory as a whole.
Buffer(n)  == [1 .. n -> Cells]
Memory(mm) == mm = [b \in Buffers |-> mm[b]]

\* The n elements of vector o are in buffer b, of capacity cap, and of a type
\* with constructors the cells behind them hold no object.
Housed(o, b, n, cap, mm) ==
    /\ n \in Nat /\ cap \in Nat /\ n <= cap
    /\ (b = o /\ cap = SvoCapacity) \/ (b \in Blocks /\ cap >= 1)
    /\ mm[b] \in Buffer(cap)
    /\ \A i \in 1 .. n : mm[b][i] \in Full
    /\ ~TriviallyCopyable => \A i \in n + 1 .. cap : mm[b][i] = Raw

\* The inline buffer of o, used or not.
Inline(o, used, mm) ==
    /\ mm[o] \in Buffer(SvoCapacity)
    /\ ~TriviallyCopyable /\ ~used => \A i \in 1 .. SvoCapacity : mm[o][i] = Raw

Taken(b, n)  == {<< b, i >> : i \in 1 .. n}
AllTaken(f, l) == UNION {Taken(f[o], l[o]) : o \in Vecs}

Counted(f, l, c) ==
    /\ TriviallyCopyable => c = 0
    /\ ~TriviallyCopyable => IsFiniteSet(AllTaken(f, l)) /\ c = Cardinality(AllTaken(f, l))

\* The inductive invariant, of buffers f, sizes l, capacities e, memory mm and
\* c objects.
Good(f, l, e, mm, c) ==
    /\ f \in [Vecs -> Buffers \cup {NULL}] /\ l \in [Vecs -> Nat] /\ e \in [Vecs -> Nat]
    /\ Memory(mm)
    /\ \A o \in Vecs : f[o] = NULL => l[o] = 0
    /\ \A o \in Vecs : f[o] # NULL => Housed(o, f[o], l[o], e[o], mm)
    /\ \A o \in Vecs : Inline(o, f[o] = o, mm)
    /\ \A o, p \in Vecs : f[o] # NULL /\ f[o] = f[p] => o = p
    /\ \A b \in Blocks : mm[b] = << >> \/ \E o \in Vecs : f[o] = b
    /\ Counted(f, l, c)

VInv == Good(m_First, m_Last, m_End, mem, objects)

-----------------------------------------------------------------------------
(* One vector gets another buffer or size.                                 *)

\* Vector o, with n elements in buffer a, has k elements in buffer b
\* afterwards, in the memory mm2 instead of mm.
Rehoused(o, a, b, k, cap, mm, mm2) ==
    /\ b \in Buffers \cup {NULL} /\ k \in Nat /\ cap \in Nat /\ Memory(mm2)
    /\ b = NULL => k = 0
    /\ b # NULL => Housed(o, b, k, cap, mm2)
    /\ b \in {NULL, o, a} \/ (b \in Blocks /\ mm[b] = << >>)
    /\ a \in Blocks /\ a # b => mm2[a] = << >>
    /\ Inline(o, b = o, mm2)
    /\ \A x \in Buffers : x \notin {a, b, o} => mm2[x] = mm[x]

\* A block in use is not empty.
LEMMA BlockNotEmpty ==
    ASSUME NEW n \in Nat, n >= 1, NEW x \in Buffer(n)
    PROVE  x # << >>
<1>1. DOMAIN x = 1 .. n /\ 1 \in 1 .. n
  BY DEF Buffer
<1>2. DOMAIN << >> = {}
  OBVIOUS
<1> QED BY <1>1, <1>2

\* The cells of n elements.
LEMMA TakenCount ==
    ASSUME NEW b, NEW n \in Nat
    PROVE  IsFiniteSet(Taken(b, n)) /\ Cardinality(Taken(b, n)) = n
<1> DEFINE g == [i \in 1 .. n |-> << b, i >>]
<1>1. IsFiniteSet(1 .. n) /\ Cardinality(1 .. n) = n
  BY FS_Interval
<1>2. g \in Bijection(1 .. n, Taken(b, n))
  <2>1. g \in [1 .. n -> Taken(b, n)]
    BY DEF Taken
  <2>2. \A i, j \in 1 .. n : g[i] = g[j] => i = j
    OBVIOUS
  <2>3. \A x \in Taken(b, n) : \E i \in 1 .. n : g[i] = x
    BY DEF Taken
  <2> HIDE DEF g
  <2> QED BY <2>1, <2>2, <2>3 DEF Bijection, Injection, Surjection, IsInjective
<1>3. ExistsBijection(1 .. n, Taken(b, n))
  BY <1>2 DEF ExistsBijection
<1> QED BY <1>1, <1>3, FS_Bijection

CountsTo(T, n) == IsFiniteSet(T) /\ Cardinality(T) = n

\* Cells R stay taken, n others are given up and k new ones taken.
LEMMA Recount ==
    ASSUME NEW R, NEW a, NEW n \in Nat, NEW b, NEW k \in Nat,
           R \cap Taken(a, n) = {}, R \cap Taken(b, k) = {},
           NEW S, S = R \cup Taken(a, n), IsFiniteSet(S), NEW T, T = R \cup Taken(b, k)
    PROVE  CountsTo(T, (Cardinality(S) - n) + k)
<1>1. /\ IsFiniteSet(Taken(a, n)) /\ Cardinality(Taken(a, n)) = n
      /\ IsFiniteSet(Taken(b, k)) /\ Cardinality(Taken(b, k)) = k
  BY TakenCount
<1>2. IsFiniteSet(R)
  BY FS_Subset
<1>3. ASSUME NEW A, IsFiniteSet(A), R \cap A = {}
      PROVE  IsFiniteSet(R \cup A) /\ Cardinality(R \cup A) = (Cardinality(R) + Cardinality(A)) - 0
  <2>1. /\ IsFiniteSet(R \cup A)
        /\ Cardinality(R \cup A) = Cardinality(R) + Cardinality(A) - Cardinality(R \cap A)
    BY <1>2, <1>3, FS_Union
  <2>2. Cardinality(R \cap A) = 0
    BY <1>3, FS_EmptySet
  <2>3. Cardinality(R) \in Nat /\ Cardinality(A) \in Nat
    BY <1>2, <1>3, FS_CardinalityType
  <2> QED BY <2>1, <2>2, <2>3
<1>4. Cardinality(S) = (Cardinality(R) + n) - 0
  BY <1>1, <1>3
<1>5. IsFiniteSet(T) /\ Cardinality(T) = (Cardinality(R) + k) - 0
  BY <1>1, <1>3
<1>6. Cardinality(R) \in Nat
  BY <1>2, FS_CardinalityType
<1>7. Cardinality(T) = (Cardinality(S) - n) + k
  BY <1>4, <1>5, <1>6
<1> QED BY <1>5, <1>7 DEF CountsTo

\* The invariant survives.
LEMMA RehousedGood ==
    ASSUME ConstantsOK, NEW f, NEW l, NEW e, NEW mm, NEW c, Good(f, l, e, mm, c),
           NEW o \in Vecs, NEW b, NEW k, NEW cap, NEW mm2, Rehoused(o, f[o], b, k, cap, mm, mm2),
           NEW c2, c2 = (c - Count(l[o])) + Count(k)
    PROVE  Good([f EXCEPT ![o] = b], [l EXCEPT ![o] = k], [e EXCEPT ![o] = cap], mm2, c2)
<1> PICK a : a = f[o]
  OBVIOUS
<1> PICK f2, l2, e2 : f2 = [f EXCEPT ![o] = b] /\ l2 = [l EXCEPT ![o] = k] /\ e2 = [e EXCEPT ![o] = cap]
  OBVIOUS
<1>1. /\ f \in [Vecs -> Buffers \cup {NULL}] /\ l \in [Vecs -> Nat] /\ e \in [Vecs -> Nat]
      /\ \A p \in Vecs : f[p] = NULL => l[p] = 0
      /\ \A p \in Vecs : f[p] # NULL => Housed(p, f[p], l[p], e[p], mm)
      /\ \A p \in Vecs : Inline(p, f[p] = p, mm)
      /\ \A p, q \in Vecs : f[p] # NULL /\ f[p] = f[q] => p = q
      /\ \A x \in Blocks : mm[x] = << >> \/ \E p \in Vecs : f[p] = x
      /\ Counted(f, l, c)
  BY DEF Good
<1>2. /\ b \in Buffers \cup {NULL} /\ k \in Nat /\ cap \in Nat /\ Memory(mm2)
      /\ b = NULL => k = 0
      /\ b # NULL => Housed(o, b, k, cap, mm2)
      /\ b \in {NULL, o, a} \/ (b \in Blocks /\ mm[b] = << >>)
      /\ a \in Blocks /\ a # b => mm2[a] = << >>
      /\ Inline(o, b = o, mm2)
      /\ \A x \in Buffers : x \notin {a, b, o} => mm2[x] = mm[x]
  BY DEF Rehoused
<1>3. /\ f2 \in [Vecs -> Buffers \cup {NULL}] /\ l2 \in [Vecs -> Nat] /\ e2 \in [Vecs -> Nat]
      /\ f2[o] = b /\ l2[o] = k /\ e2[o] = cap
      /\ \A p \in Vecs : p # o => f2[p] = f[p] /\ l2[p] = l[p] /\ e2[p] = e[p]
  BY <1>1, <1>2
<1>4. Vecs \cap Blocks = {} /\ NULL \notin Vecs \cup Blocks
  BY DEF ConstantsOK
\* Where the other vectors are.
<1>5. ASSUME NEW p \in Vecs, p # o, f[p] # NULL
      PROVE  f[p] \in Buffers /\ f[p] \notin {a, b, o, NULL}
  <2>1. f[p] \in {p} \cup Blocks
    BY <1>1, <1>5 DEF Housed
  <2>2. f[p] # a
    BY <1>1, <1>5
  <2>3. f[p] # o
    BY <1>4, <1>5, <2>1
  <2>4. CASE b \in Blocks /\ mm[b] = << >>
    <3>1. CASE f[p] = b
      <4>1. e[p] \in Nat /\ e[p] >= 1 /\ mm[b] \in Buffer(e[p])
        BY <1>1, <1>4, <1>5, <2>4, <3>1 DEF Housed
      <4> QED BY <2>4, <4>1, BlockNotEmpty
    <3> QED BY <1>5, <2>1, <2>2, <2>3, <3>1 DEF Buffers
  <2> QED BY <1>2, <1>5, <2>1, <2>2, <2>3, <2>4 DEF Buffers
<1>6. \A p \in Vecs : f2[p] = NULL => l2[p] = 0
  BY <1>1, <1>2, <1>3
<1>7. ASSUME NEW p \in Vecs, f2[p] # NULL PROVE Housed(p, f2[p], l2[p], e2[p], mm2)
  <2>1. CASE p = o
    BY <1>2, <1>3, <1>7, <2>1
  <2>2. CASE p # o
    <3>1. f2[p] = f[p] /\ f[p] # NULL /\ mm2[f[p]] = mm[f[p]]
      BY <1>2, <1>3, <1>5, <1>7, <2>2
    <3> QED BY <1>1, <1>3, <2>2, <3>1 DEF Housed
  <2> QED BY <2>1, <2>2
<1>8. ASSUME NEW p \in Vecs PROVE Inline(p, f2[p] = p, mm2)
  <2>1. CASE p = o
    BY <1>2, <1>3, <2>1
  <2>2. CASE p # o
    <3>1. p \notin {a, b, o}
      <4>1. a \in {NULL, o} \cup Blocks
        BY <1>1 DEF Housed
      <4>2. b \in {NULL, o} \cup Blocks
        BY <1>2 DEF Housed
      <4> QED BY <1>4, <2>2, <4>1, <4>2
    <3>2. mm2[p] = mm[p] /\ f2[p] = f[p]
      BY <1>2, <1>3, <2>2, <3>1 DEF Buffers
    <3> QED BY <1>1, <3>2 DEF Inline
  <2> QED BY <2>1, <2>2
<1>9. \A p, q \in Vecs : f2[p] # NULL /\ f2[p] = f2[q] => p = q
  BY <1>1, <1>3, <1>5
<1>10. ASSUME NEW x \in Blocks PROVE mm2[x] = << >> \/ \E p \in Vecs : f2[p] = x
  <2>1. CASE x = b
    BY <1>3, <2>1
  <2>2. CASE x = a /\ x # b
    BY <1>2, <2>2
  <2>3. CASE x \notin {a, b}
    <3>1. mm2[x] = mm[x]
      BY <1>2, <1>4, <2>3 DEF Buffers
    <3>2. ASSUME NEW p \in Vecs, f[p] = x PROVE f2[p] = x
      BY <1>3, <2>3, <3>2
    <3> QED BY <1>1, <3>1, <3>2
  <2> QED BY <2>1, <2>2, <2>3
<1>11. Counted(f2, l2, c2)
  <2>1. CASE TriviallyCopyable
    BY <1>1, <2>1 DEF Counted, Count
  <2>2. CASE ~TriviallyCopyable
    <3>1. PICK n \in Nat : n = l[o]
      BY <1>1
    <3> DEFINE R == UNION {Taken(f[p], l[p]) : p \in Vecs \ {o}}
    <3>2. AllTaken(f, l) = R \cup Taken(a, n)
      BY <3>1 DEF AllTaken
    <3>3. AllTaken(f2, l2) = R \cup Taken(b, k)
      BY <1>3 DEF AllTaken
    <3>4. ASSUME NEW x \in R PROVE x \notin Taken(a, n) /\ x \notin Taken(b, k)
      <4>1. PICK p \in Vecs \ {o} : x \in Taken(f[p], l[p])
        OBVIOUS
      <4>2. f[p] # NULL
        <5>1. CASE f[p] = NULL
          <6>1. l[p] = 0
            BY <1>1, <5>1
          <6> QED BY <4>1, <6>1 DEF Taken
        <5> QED BY <5>1
      <4>3. f[p] # a /\ f[p] # b
        BY <1>5, <4>1, <4>2
      <4> QED BY <4>1, <4>3 DEF Taken
    <3> HIDE DEF R
    <3>5. R \cap Taken(a, n) = {} /\ R \cap Taken(b, k) = {}
      BY <3>4
    <3>6. IsFiniteSet(AllTaken(f, l)) /\ c = Cardinality(AllTaken(f, l))
      BY <1>1, <2>2 DEF Counted
    <3>7. CountsTo(AllTaken(f2, l2), (Cardinality(AllTaken(f, l)) - n) + k)
      BY <1>2, <3>2, <3>3, <3>5, <3>6, Recount
    <3>8. c2 = (c - n) + k
      BY <2>2, <3>1 DEF Count
    <3> QED BY <2>2, <3>6, <3>7, <3>8 DEF Counted, CountsTo
  <2> QED BY <2>1, <2>2
<1>12. Good(f2, l2, e2, mm2, c2)
  BY <1>2, <1>3, <1>6, <1>7, <1>8, <1>9, <1>10, <1>11 DEF Good
<1> QED BY <1>12

-----------------------------------------------------------------------------
(* The parts operations are made of.                                       *)

\* The cells y, of capacity cap, hold k elements.
Fills(y, k, cap) ==
    /\ k \in Nat /\ k <= cap /\ y \in Buffer(cap)
    /\ \A i \in 1 .. k : y[i] \in Full
    /\ ~TriviallyCopyable => \A i \in k + 1 .. cap : y[i] = Raw

\* Writing one buffer.
Stored(mm, b, y, mm2) ==
    /\ Memory(mm2) /\ mm2[b] = y
    /\ \A x \in Buffers : x # b => mm2[x] = mm[x]

LEMMA StoredFacts ==
    ASSUME NEW mm, Memory(mm), NEW b \in Buffers, NEW y
    PROVE  Stored(mm, b, y, [mm EXCEPT ![b] = y])
<1>1. DOMAIN mm = Buffers
  BY DEF Memory
<1>2. [mm EXCEPT ![b] = y] = [x \in Buffers |-> IF x = b THEN y ELSE mm[x]]
  BY <1>1
<1> QED BY <1>2 DEF Stored, Memory

LEMMA GoodMeans ==
    ASSUME ConstantsOK, NEW f, NEW l, NEW e, NEW mm, NEW c, Good(f, l, e, mm, c),
           NEW o \in Vecs, f[o] # NULL
    PROVE  /\ f[o] \in Buffers /\ l[o] \in Nat /\ e[o] \in Nat
           /\ f[o] = o \/ f[o] \in Blocks
           /\ f[o] = o => e[o] = SvoCapacity
           /\ f[o] \in Blocks => e[o] >= 1
           /\ Fills(mm[f[o]], l[o], e[o])
<1>1. Housed(o, f[o], l[o], e[o], mm)
  BY DEF Good
<1>2. Vecs \cap Blocks = {}
  BY DEF ConstantsOK
<1>3. f[o] \in Buffers
  BY <1>1 DEF Housed, Buffers
<1>4. Fills(mm[f[o]], l[o], e[o])
  BY <1>1 DEF Housed, Fills
<1>5. /\ l[o] \in Nat /\ e[o] \in Nat
      /\ f[o] = o \/ f[o] \in Blocks
      /\ f[o] = o => e[o] = SvoCapacity
      /\ f[o] \in Blocks => e[o] >= 1
  BY <1>1, <1>2 DEF Housed
<1> QED BY <1>3, <1>4, <1>5

LEMMA CountIsNat ==
    ASSUME NEW f, NEW l, NEW e, NEW mm, NEW c, Good(f, l, e, mm, c)
    PROVE  c \in Nat
<1>1. Counted(f, l, c)
  BY DEF Good
<1>2. CASE TriviallyCopyable
  BY <1>1, <1>2 DEF Counted
<1>3. CASE ~TriviallyCopyable
  BY <1>1, <1>3, FS_CardinalityType DEF Counted
<1> QED BY <1>2, <1>3

\* The cells of a vector's buffer are given other contents.
LEMMA RefillGood ==
    ASSUME ConstantsOK, NEW f, NEW l, NEW e, NEW mm, NEW c, Good(f, l, e, mm, c),
           NEW o \in Vecs, f[o] # NULL, NEW k, NEW y, Fills(y, k, e[o]),
           NEW c2, c2 = (c - Count(l[o])) + Count(k)
    PROVE  Good(f, [l EXCEPT ![o] = k], e, [mm EXCEPT ![f[o]] = y], c2)
<1>1. PICK a : a = f[o]
  OBVIOUS
<1>2. PICK mm2 : mm2 = [mm EXCEPT ![a] = y]
  OBVIOUS
<1>3. a \in Buffers /\ a # NULL /\ (a = o \/ a \in Blocks) /\ e[o] \in Nat
      /\ (a = o => e[o] = SvoCapacity) /\ (a \in Blocks => e[o] >= 1)
  BY <1>1, GoodMeans
<1>4. /\ f \in [Vecs -> Buffers \cup {NULL}] /\ e \in [Vecs -> Nat] /\ Memory(mm)
      /\ Inline(o, a = o, mm)
  BY <1>1 DEF Good
<1>5. Memory(mm2) /\ mm2[a] = y /\ \A x \in Buffers : x # a => mm2[x] = mm[x]
  <2>1. Stored(mm, a, y, mm2)
    BY <1>2, <1>3, <1>4, StoredFacts
  <2> QED BY <2>1 DEF Stored
<1>6. Housed(o, a, k, e[o], mm2)
  BY <1>3, <1>5 DEF Fills, Housed
<1>7. Inline(o, a = o, mm2)
  <2>1. CASE a = o
    BY <1>3, <1>5, <2>1 DEF Inline, Fills
  <2>2. CASE a # o
    BY <1>4, <1>5, <2>2 DEF Inline, Buffers
  <2> QED BY <2>1, <2>2
<1>8. Rehoused(o, f[o], a, k, e[o], mm, mm2)
  BY <1>1, <1>3, <1>5, <1>6, <1>7 DEF Rehoused, Fills
<1>9. Good([f EXCEPT ![o] = a], [l EXCEPT ![o] = k], [e EXCEPT ![o] = e[o]], mm2, c2)
  BY <1>8, RehousedGood
<1>10. [f EXCEPT ![o] = a] = f /\ [e EXCEPT ![o] = e[o]] = e
  BY <1>1, <1>4
<1> QED BY <1>1, <1>2, <1>9, <1>10

\* A vector is constructed.
LEMMA ConstructGood ==
    ASSUME ConstantsOK, NEW f, NEW l, NEW e, NEW mm, NEW c, Good(f, l, e, mm, c),
           NEW o \in Vecs, f[o] = NULL
    PROVE  Good([f EXCEPT ![o] = o], [l EXCEPT ![o] = 0], [e EXCEPT ![o] = SvoCapacity], mm, c)
<1>1. o # NULL /\ SvoCapacity \in Nat /\ o \in Buffers /\ NULL \notin Blocks
  BY DEF ConstantsOK, Buffers
<1>2. Memory(mm) /\ l[o] = 0 /\ Inline(o, FALSE, mm)
  BY <1>1 DEF Good
<1>3. Housed(o, o, 0, SvoCapacity, mm)
  BY <1>1, <1>2 DEF Housed, Inline
<1>4. Inline(o, TRUE, mm)
  BY <1>2 DEF Inline
<1>5. Rehoused(o, f[o], o, 0, SvoCapacity, mm, mm)
  BY <1>1, <1>2, <1>3, <1>4 DEF Rehoused
<1>6. c \in Nat
  BY CountIsNat
<1>7. c = (c - Count(l[o])) + Count(0)
  BY <1>2, <1>6 DEF Count
<1> QED BY <1>5, <1>7, RehousedGood

\* The cells after the destructors of the first n ran.
LEMMA DestroyedFills ==
    ASSUME ConstantsOK, NEW n, NEW cap \in Nat, NEW y, Fills(y, n, cap)
    PROVE  Fills([i \in DOMAIN y |-> IF i <= n THEN Destroyed(y[i]) ELSE y[i]], 0, cap)
<1>1. n \in Nat /\ n <= cap /\ y \in [1 .. cap -> Cells] /\ DOMAIN y = 1 .. cap
  BY DEF Fills, Buffer
<1>2. PICK z : z = [i \in 1 .. cap |-> IF i <= n THEN Destroyed(y[i]) ELSE y[i]]
  OBVIOUS
<1>3. z \in [1 .. cap -> Cells]
  BY <1>1, <1>2 DEF Destroyed, Cells
<1>4. ASSUME ~TriviallyCopyable, NEW i \in 1 .. cap PROVE z[i] = Raw
  BY <1>1, <1>2, <1>4 DEF Fills, Destroyed
<1>5. Fills(z, 0, cap)
  BY <1>3, <1>4 DEF Fills, Buffer
<1> QED BY <1>1, <1>2, <1>5

\* Vector o has left buffer a: its block is free, its inline buffer empty.
Left(o, a, mm, mm2) ==
    /\ Memory(mm2)
    /\ \A x \in Buffers : x # a => mm2[x] = mm[x]
    /\ a \in Blocks => mm2[a] = << >>
    /\ Inline(o, FALSE, mm2)

Freed(mm, o, a) == IF a # o THEN [mm EXCEPT ![a] = << >>] ELSE mm

LEMMA LeftFacts ==
    ASSUME ConstantsOK, NEW mm, Memory(mm), NEW o \in Vecs, NEW a \in Buffers,
           a = o \/ a \in Blocks, NEW n, NEW cap \in Nat, a = o => cap = SvoCapacity,
           Fills(mm[a], n, cap), Inline(o, a = o, mm)
    PROVE  Left(o, a, mm, Freed(DestroyCells(mm, a, n), o, a))
<1>1. PICK y : y = [i \in DOMAIN mm[a] |-> IF i <= n THEN Destroyed(mm[a][i]) ELSE mm[a][i]]
  OBVIOUS
<1>2. PICK mm1 : mm1 = [mm EXCEPT ![a] = y]
  OBVIOUS
<1>3. DestroyCells(mm, a, n) = mm1
  BY <1>1, <1>2 DEF DestroyCells
<1>4. Fills(y, 0, cap)
  BY <1>1, DestroyedFills
<1>5. Stored(mm, a, y, mm1)
  BY <1>2, StoredFacts
<1>6. Vecs \cap Blocks = {} /\ o \in Buffers
  BY DEF ConstantsOK, Buffers
<1>7. CASE a = o
  <2>1. Inline(o, FALSE, mm1)
    BY <1>4, <1>5, <1>7 DEF Inline, Fills, Stored
  <2> QED BY <1>3, <1>5, <1>6, <1>7, <2>1 DEF Left, Stored, Freed
<1>8. CASE a # o
  <2>1. PICK mm2 : mm2 = [mm1 EXCEPT ![a] = << >>]
    OBVIOUS
  <2>2. Memory(mm1)
    BY <1>5 DEF Stored
  <2>3. Stored(mm1, a, << >>, mm2)
    BY <2>1, <2>2, StoredFacts
  <2>4. mm2[o] = mm[o]
    BY <1>5, <1>6, <1>8, <2>3 DEF Stored
  <2>5. Inline(o, FALSE, mm2)
    BY <1>8, <2>4 DEF Inline
  <2>6. Left(o, a, mm, mm2)
    BY <1>5, <2>3, <2>5 DEF Left, Stored
  <2> QED BY <1>3, <1>8, <2>1, <2>6 DEF Freed
<1> QED BY <1>7, <1>8

\* A vector is destroyed.
LEMMA DestructGood ==
    ASSUME ConstantsOK, NEW f, NEW l, NEW e, NEW mm, NEW c, Good(f, l, e, mm, c),
           NEW o \in Vecs, f[o] # NULL, NEW c2, c2 = c - Count(l[o])
    PROVE  Good([f EXCEPT ![o] = NULL], [l EXCEPT ![o] = 0], [e EXCEPT ![o] = 0],
                Freed(DestroyCells(mm, f[o], l[o]), o, f[o]), c2)
<1>1. PICK mm2 : mm2 = Freed(DestroyCells(mm, f[o], l[o]), o, f[o])
  OBVIOUS
<1>2. /\ f[o] \in Buffers /\ e[o] \in Nat /\ (f[o] = o \/ f[o] \in Blocks)
      /\ (f[o] = o => e[o] = SvoCapacity) /\ Fills(mm[f[o]], l[o], e[o]) /\ l[o] \in Nat
  BY GoodMeans
<1>3. Memory(mm) /\ Inline(o, f[o] = o, mm)
  BY DEF Good
<1>4. Left(o, f[o], mm, mm2)
  BY <1>1, <1>2, <1>3, LeftFacts
<1>5. NULL \notin Buffers /\ o # NULL /\ NULL \notin Blocks
  BY DEF ConstantsOK, Buffers
<1>6. Rehoused(o, f[o], NULL, 0, 0, mm, mm2)
  <2>1. Inline(o, NULL = o, mm2)
    BY <1>4, <1>5 DEF Left, Inline
  <2> QED BY <1>4, <1>5, <2>1 DEF Left, Rehoused
<1>7. c \in Nat
  BY CountIsNat
<1>8. c2 = (c - Count(l[o])) + Count(0)
  BY <1>2, <1>7 DEF Count
<1> QED BY <1>1, <1>6, <1>8, RehousedGood

\* The elements move to a free block; w is what the block held before, the
\* new elements behind the old ones among it.
LEMMA MigrateGood ==
    ASSUME ConstantsOK, NEW f, NEW l, NEW e, NEW mm, NEW c, Good(f, l, e, mm, c),
           NEW o \in Vecs, f[o] # NULL, NEW b \in Blocks, mm[b] = << >>,
           NEW k \in Nat, l[o] <= k, NEW cap \in Nat, k <= cap, cap >= 1,
           NEW w \in Buffer(cap), \A i \in l[o] + 1 .. k : w[i] \in Full,
           ~TriviallyCopyable => \A i \in k + 1 .. cap : w[i] = Raw,
           NEW c2, c2 = (c - Count(l[o])) + Count(k)
    PROVE  Good([f EXCEPT ![o] = b], [l EXCEPT ![o] = k], [e EXCEPT ![o] = cap],
                Freed(Migrate([mm EXCEPT ![b] = w], f[o], l[o], b), o, f[o]), c2)
<1>1. PICK a, n : a = f[o] /\ n = l[o]
  OBVIOUS
<1>2. PICK mm1 : mm1 = [mm EXCEPT ![b] = w]
  OBVIOUS
<1>3. PICK y : y = [i \in DOMAIN mm1[b] |-> IF i <= n THEN mm1[a][i] ELSE mm1[b][i]]
  OBVIOUS
<1>4. PICK mm2 : mm2 = [mm1 EXCEPT ![b] = y]
  OBVIOUS
<1>5. PICK mm3 : mm3 = Freed(DestroyCells(mm2, a, n), o, a)
  OBVIOUS
<1>6. Migrate(mm1, a, n, b) = DestroyCells(mm2, a, n)
  BY <1>3, <1>4 DEF Migrate
<1>7. /\ a \in Buffers /\ a # NULL /\ e[o] \in Nat /\ (a = o \/ a \in Blocks) /\ n \in Nat
      /\ (a = o => e[o] = SvoCapacity) /\ (a \in Blocks => e[o] >= 1) /\ Fills(mm[a], n, e[o])
  BY <1>1, GoodMeans
<1>8. Memory(mm) /\ Inline(o, a = o, mm)
  BY <1>1 DEF Good
<1>9. /\ Vecs \cap Blocks = {} /\ NULL \notin Buffers /\ o # NULL /\ NULL \notin Blocks
      /\ b \in Buffers /\ o \in Buffers /\ o # b /\ o \notin Blocks
  BY DEF ConstantsOK, Buffers
<1>10. a # b
  <2>1. CASE a \in Blocks
    <3>1. mm[a] # << >>
      BY <1>7, <2>1, BlockNotEmpty DEF Fills
    <3> QED BY <3>1
  <2> QED BY <1>7, <1>9, <2>1
<1>11. Stored(mm, b, w, mm1)
  BY <1>2, <1>8, <1>9, StoredFacts
<1>12. Stored(mm1, b, y, mm2)
  <2>1. Memory(mm1)
    BY <1>11 DEF Stored
  <2> QED BY <1>4, <1>9, <2>1, StoredFacts
<1>13. /\ Memory(mm2) /\ mm2[b] = y
       /\ \A x \in Buffers : x # b => mm2[x] = mm[x]
  BY <1>11, <1>12 DEF Stored
<1>14. Fills(mm2[a], n, e[o]) /\ Inline(o, a = o, mm2)
  BY <1>7, <1>8, <1>9, <1>10, <1>13 DEF Inline
<1>15. Left(o, a, mm2, mm3)
  BY <1>5, <1>7, <1>13, <1>14, LeftFacts
<1>16. Fills(y, k, cap)
  <2>1. mm1[b] = w /\ mm1[a] = mm[a] /\ DOMAIN w = 1 .. cap
    BY <1>7, <1>10, <1>11 DEF Stored, Buffer
  <2>2. y = [i \in 1 .. cap |-> IF i <= n THEN mm[a][i] ELSE w[i]]
    BY <1>3, <2>1
  <2>3. ASSUME NEW i \in 1 .. n PROVE mm[a][i] \in Full
    BY <1>7 DEF Fills
  <2>4. ASSUME NEW i \in 1 .. cap PROVE y[i] \in Cells
    BY <1>7, <2>2, <2>3 DEF Full, Cells, Buffer
  <2>5. ASSUME NEW i \in 1 .. k PROVE y[i] \in Full
    <3>1. i \in 1 .. cap /\ n \in Nat
      BY <1>7
    <3>2. CASE i <= n
      BY <2>2, <2>3, <3>1, <3>2
    <3>3. CASE ~(i <= n)
      <4>1. i \in l[o] + 1 .. k
        BY <1>1, <3>1, <3>3
      <4> QED BY <2>2, <3>1, <3>3, <4>1
    <3> QED BY <3>2, <3>3
  <2>6. ASSUME ~TriviallyCopyable, NEW i \in k + 1 .. cap PROVE y[i] = Raw
    <3>1. i \in 1 .. cap /\ ~(i <= n)
      BY <1>1, <1>7
    <3> QED BY <2>2, <2>6, <3>1
  <2>7. y \in Buffer(cap)
    BY <2>2, <2>4 DEF Buffer
  <2> QED BY <2>5, <2>6, <2>7 DEF Fills
<1>17. mm3[b] = y
  BY <1>9, <1>10, <1>13, <1>15 DEF Left
<1>18. Housed(o, b, k, cap, mm3)
  BY <1>16, <1>17 DEF Housed, Fills
<1>19. Inline(o, b = o, mm3)
  BY <1>9, <1>15 DEF Left
<1>20. Rehoused(o, a, b, k, cap, mm, mm3)
  <2>1. \A x \in Buffers : x \notin {a, b, o} => mm3[x] = mm[x]
    BY <1>13, <1>15 DEF Left
  <2> QED BY <1>9, <1>15, <1>18, <1>19, <2>1 DEF Left, Rehoused
<1>21. Good([f EXCEPT ![o] = b], [l EXCEPT ![o] = k], [e EXCEPT ![o] = cap], mm3, c2)
  BY <1>1, <1>20, RehousedGood
<1> QED BY <1>1, <1>2, <1>5, <1>6, <1>21

\* A constructed vector takes over the block of another one.
LEMMA AdoptGood ==
    ASSUME ConstantsOK, NEW f, NEW l, NEW e, NEW mm, NEW c, Good(f, l, e, mm, c),
           NEW o \in Vecs, f[o] = NULL, NEW from \in Vecs, f[from] # NULL, f[from] # from
    PROVE  Good([f EXCEPT ![o] = f[from], ![from] = from], [l EXCEPT ![o] = l[from], ![from] = 0],
                [e EXCEPT ![o] = e[from], ![from] = SvoCapacity], mm, c)
<1>1. PICK f2, l2, e2 : /\ f2 = [f EXCEPT ![o] = f[from], ![from] = from]
                        /\ l2 = [l EXCEPT ![o] = l[from], ![from] = 0]
                        /\ e2 = [e EXCEPT ![o] = e[from], ![from] = SvoCapacity]
  OBVIOUS
<1>2. /\ f \in [Vecs -> Buffers \cup {NULL}] /\ l \in [Vecs -> Nat] /\ e \in [Vecs -> Nat]
      /\ Memory(mm)
      /\ \A p \in Vecs : f[p] = NULL => l[p] = 0
      /\ \A p \in Vecs : f[p] # NULL => Housed(p, f[p], l[p], e[p], mm)
      /\ \A p \in Vecs : Inline(p, f[p] = p, mm)
      /\ \A p, q \in Vecs : f[p] # NULL /\ f[p] = f[q] => p = q
      /\ \A x \in Blocks : mm[x] = << >> \/ \E p \in Vecs : f[p] = x
      /\ Counted(f, l, c)
  BY DEF Good
<1>3. /\ Vecs \cap Blocks = {} /\ NULL \notin Vecs /\ NULL \notin Blocks /\ SvoCapacity \in Nat
      /\ o # from /\ Vecs \subseteq Buffers
  BY DEF ConstantsOK, Buffers
<1>4. /\ f2 \in [Vecs -> Buffers \cup {NULL}] /\ l2 \in [Vecs -> Nat] /\ e2 \in [Vecs -> Nat]
      /\ f2[o] = f[from] /\ l2[o] = l[from] /\ e2[o] = e[from]
      /\ f2[from] = from /\ l2[from] = 0 /\ e2[from] = SvoCapacity
      /\ \A p \in Vecs \ {o, from} : f2[p] = f[p] /\ l2[p] = l[p] /\ e2[p] = e[p]
  <2>1. DOMAIN f = Vecs /\ DOMAIN l = Vecs /\ DOMAIN e = Vecs
    BY <1>2
  <2>2. f2 = [p \in Vecs |-> IF p = from THEN from ELSE IF p = o THEN f[from] ELSE f[p]]
    BY <1>1, <1>3, <2>1
  <2>3. l2 = [p \in Vecs |-> IF p = from THEN 0 ELSE IF p = o THEN l[from] ELSE l[p]]
    BY <1>1, <1>3, <2>1
  <2>4. e2 = [p \in Vecs |-> IF p = from THEN SvoCapacity ELSE IF p = o THEN e[from] ELSE e[p]]
    BY <1>1, <1>3, <2>1
  <2> QED BY <1>2, <1>3, <2>2, <2>3, <2>4
<1>5. f[from] \in Blocks /\ Housed(from, f[from], l[from], e[from], mm)
  BY <1>2 DEF Housed
<1>6. Inline(o, FALSE, mm) /\ Inline(from, FALSE, mm)
  BY <1>2, <1>3 DEF Inline
<1>7. ASSUME NEW p \in Vecs, f2[p] = NULL PROVE l2[p] = 0
  <2>1. p # o
    BY <1>4, <1>7
  <2>2. CASE p = from
    BY <1>4, <2>2
  <2>3. CASE p \in Vecs \ {o, from}
    BY <1>2, <1>4, <1>7, <2>3
  <2> QED BY <2>1, <2>2, <2>3
<1>8. ASSUME NEW p \in Vecs, f2[p] # NULL PROVE Housed(p, f2[p], l2[p], e2[p], mm)
  <2>1. CASE p = o
    <3>1. Housed(o, f[from], l[from], e[from], mm)
      BY <1>3, <1>5 DEF Housed
    <3> QED BY <1>4, <2>1, <3>1
  <2>2. CASE p = from
    <3>1. Housed(from, from, 0, SvoCapacity, mm)
      BY <1>3, <1>6 DEF Housed, Inline
    <3> QED BY <1>4, <2>2, <3>1
  <2>3. CASE p \in Vecs \ {o, from}
    BY <1>2, <1>4, <1>8, <2>3
  <2> QED BY <2>1, <2>2, <2>3
<1>9. ASSUME NEW p \in Vecs PROVE Inline(p, f2[p] = p, mm)
  <2>1. CASE p \in {o, from}
    BY <1>6, <2>1 DEF Inline
  <2>2. CASE p \notin {o, from}
    BY <1>2, <1>4, <2>2
  <2> QED BY <2>1, <2>2
<1>10. ASSUME NEW p \in Vecs, NEW q \in Vecs, f2[p] # NULL, f2[p] = f2[q] PROVE p = q
  <2>1. ASSUME NEW x \in Vecs \ {o, from} PROVE f2[x] # f2[o] /\ f2[x] # f2[from]
    <3>1. f2[x] = f[x] /\ f[x] # f[from]
      BY <1>2, <1>4, <2>1
    <3>2. f[x] # NULL => f[x] \in {x} \cup Blocks
      BY <1>2 DEF Housed
    <3>3. from \notin Blocks /\ from # NULL
      BY <1>3
    <3> QED BY <1>4, <2>1, <3>1, <3>2, <3>3
  <2>2. f2[o] # f2[from]
    BY <1>3, <1>4, <1>5
  <2>3. CASE p \in Vecs \ {o, from} /\ q \in Vecs \ {o, from}
    BY <1>2, <1>4, <1>10, <2>3
  <2> QED BY <1>10, <2>1, <2>2, <2>3
<1>11. ASSUME NEW x \in Blocks PROVE mm[x] = << >> \/ \E p \in Vecs : f2[p] = x
  <2>1. ASSUME NEW p \in Vecs, f[p] = x PROVE \E q \in Vecs : f2[q] = x
    <3>1. CASE p = from
      BY <1>4, <2>1, <3>1
    <3>2. CASE p # from
      BY <1>3, <1>4, <2>1, <3>2
    <3> QED BY <3>1, <3>2
  <2> QED BY <1>2, <2>1
<1>12. Counted(f2, l2, c)
  <2>1. \A x : Taken(x, 0) = {}
    BY DEF Taken
  <2>2. Taken(f[o], l[o]) = {} /\ Taken(f2[from], l2[from]) = {}
    BY <1>2, <1>4, <2>1
  <2>3. Taken(f2[o], l2[o]) = Taken(f[from], l[from])
    BY <1>4
  <2>4. \A p \in Vecs \ {o, from} : Taken(f2[p], l2[p]) = Taken(f[p], l[p])
    BY <1>4
  <2>5. AllTaken(f2, l2) = AllTaken(f, l)
    <3>1. ASSUME NEW x \in AllTaken(f2, l2) PROVE x \in AllTaken(f, l)
      <4>1. PICK p \in Vecs : x \in Taken(f2[p], l2[p])
        BY <3>1 DEF AllTaken
      <4>2. \E q \in Vecs : x \in Taken(f[q], l[q])
        BY <2>2, <2>3, <2>4, <4>1
      <4> QED BY <4>2 DEF AllTaken
    <3>2. ASSUME NEW x \in AllTaken(f, l) PROVE x \in AllTaken(f2, l2)
      <4>1. PICK p \in Vecs : x \in Taken(f[p], l[p])
        BY <3>2 DEF AllTaken
      <4>2. \E q \in Vecs : x \in Taken(f2[q], l2[q])
        BY <2>2, <2>3, <2>4, <4>1
      <4> QED BY <4>2 DEF AllTaken
    <3> QED BY <3>1, <3>2
  <2> QED BY <1>2, <2>5 DEF Counted
<1>13. Good(f2, l2, e2, mm, c)
  BY <1>2, <1>4, <1>7, <1>8, <1>9, <1>10, <1>11, <1>12 DEF Good
<1> QED BY <1>1, <1>13

\* An empty buffer filled with the first n elements of another.
LEMMA CopiedFills ==
    ASSUME NEW n \in Nat, NEW cap \in Nat, n <= cap, NEW y, Fills(y, 0, cap),
           NEW src, NEW cap0, Fills(src, n, cap0)
    PROVE  Fills([i \in DOMAIN y |-> IF i <= n THEN src[i] ELSE y[i]], n, cap)
<1>1. /\ y \in [1 .. cap -> Cells] /\ DOMAIN y = 1 .. cap
      /\ \A i \in 1 .. n : src[i] \in Full
      /\ ~TriviallyCopyable => \A i \in 1 .. cap : y[i] = Raw
  BY DEF Fills, Buffer
<1>2. PICK z : z = [i \in 1 .. cap |-> IF i <= n THEN src[i] ELSE y[i]]
  OBVIOUS
<1>3. Full \subseteq Cells
  BY DEF Full, Cells
<1>4. ASSUME NEW i \in 1 .. cap PROVE z[i] \in Cells
  <2>1. CASE i <= n
    <3>1. i \in 1 .. n
      BY <2>1
    <3> QED BY <1>1, <1>2, <1>3, <2>1, <3>1
  <2>2. CASE ~(i <= n)
    BY <1>1, <1>2, <2>2
  <2> QED BY <2>1, <2>2
<1>5. ASSUME NEW i \in 1 .. n PROVE z[i] \in Full
  BY <1>1, <1>2
<1>6. ASSUME ~TriviallyCopyable, NEW i \in n + 1 .. cap PROVE z[i] = Raw
  <2>1. i \in 1 .. cap /\ ~(i <= n)
    OBVIOUS
  <2> QED BY <1>1, <1>2, <1>6, <2>1
<1>7. z \in Buffer(cap)
  BY <1>2, <1>4 DEF Buffer
<1>8. Fills(z, n, cap)
  BY <1>5, <1>6, <1>7 DEF Fills
<1> QED BY <1>1, <1>2, <1>8

\* A constructed vector gets the elements of another one, between the inline
\* buffers: it is constructed, filled, and the other one emptied.
LEMMA InlineMoveGood ==
    ASSUME ConstantsOK, NEW f, NEW l, NEW e, NEW mm, NEW c, Good(f, l, e, mm, c),
           NEW o \in Vecs, f[o] = NULL, NEW from \in Vecs, f[from] # NULL, f[from] = from
    PROVE  Good([f EXCEPT ![o] = o, ![from] = from], [l EXCEPT ![o] = l[from], ![from] = 0],
                [e EXCEPT ![o] = SvoCapacity, ![from] = SvoCapacity],
                Migrate(mm, from, l[from], o), c)
<1>1. PICK n : n = l[from]
  OBVIOUS
<1>2. PICK f1, l1, e1 : /\ f1 = [f EXCEPT ![o] = o] /\ l1 = [l EXCEPT ![o] = 0]
                        /\ e1 = [e EXCEPT ![o] = SvoCapacity]
  OBVIOUS
<1>3. Good(f1, l1, e1, mm, c)
  BY <1>2, ConstructGood
<1>4. /\ f \in [Vecs -> Buffers \cup {NULL}] /\ l \in [Vecs -> Nat] /\ e \in [Vecs -> Nat]
      /\ Memory(mm) /\ Inline(o, FALSE, mm)
  <2>1. o # NULL
    BY DEF ConstantsOK
  <2> QED BY <2>1 DEF Good
<1>5. o # NULL /\ o # from /\ o \in Buffers /\ from \in Buffers /\ SvoCapacity \in Nat
  BY DEF ConstantsOK, Buffers
<1>6. /\ f1[o] = o /\ l1[o] = 0 /\ e1[o] = SvoCapacity
      /\ f1[from] = from /\ l1[from] = n /\ e1[from] = e[from]
  BY <1>1, <1>2, <1>4, <1>5
<1>7. e[from] = SvoCapacity /\ Fills(mm[from], n, SvoCapacity) /\ n \in Nat
  BY <1>1, GoodMeans
<1>8. PICK y : y = [i \in DOMAIN mm[o] |-> IF i <= n THEN mm[from][i] ELSE mm[o][i]]
  OBVIOUS
<1>9. Fills(y, n, SvoCapacity)
  <2>1. Fills(mm[o], 0, SvoCapacity)
    BY <1>4, <1>5 DEF Inline, Fills
  <2>2. n <= SvoCapacity
    BY <1>7 DEF Fills
  <2> QED BY <1>5, <1>7, <1>8, <2>1, <2>2, CopiedFills
<1>10. PICK mm2 : mm2 = [mm EXCEPT ![o] = y]
  OBVIOUS
<1>11. PICK l2, c1 : l2 = [l1 EXCEPT ![o] = n] /\ c1 = (c - Count(l1[o])) + Count(n)
  OBVIOUS
<1>12. Good(f1, l2, e1, mm2, c1)
  BY <1>3, <1>5, <1>6, <1>9, <1>10, <1>11, RefillGood
<1>13. Stored(mm, o, y, mm2)
  BY <1>4, <1>5, <1>10, StoredFacts
<1>14. mm2[from] = mm[from] /\ Memory(mm2)
  BY <1>5, <1>13 DEF Stored
<1>15. PICK z : z = [i \in DOMAIN mm2[from] |->
                       IF i <= n THEN Destroyed(mm2[from][i]) ELSE mm2[from][i]]
  OBVIOUS
<1>16. Fills(z, 0, SvoCapacity)
  BY <1>5, <1>7, <1>14, <1>15, DestroyedFills
<1>17. PICK mm3 : mm3 = [mm2 EXCEPT ![from] = z]
  OBVIOUS
<1>18. l2[from] = n
  BY <1>2, <1>4, <1>5, <1>6, <1>11
<1>19. c = (c1 - Count(l2[from])) + Count(0)
  <2>1. c \in Nat
    BY CountIsNat
  <2> QED BY <1>6, <1>7, <1>11, <1>18, <2>1 DEF Count
<1>20. Good(f1, [l2 EXCEPT ![from] = 0], e1, mm3, c)
  <2>1. f1[from] # NULL /\ e1[from] = SvoCapacity
    BY <1>6, <1>7
  <2>2. Fills(z, 0, e1[from])
    BY <1>16, <2>1
  <2>3. Good(f1, [l2 EXCEPT ![from] = 0], e1, [mm2 EXCEPT ![f1[from]] = z], c)
    BY <1>12, <1>19, <2>1, <2>2, RefillGood
  <2>4. f1[from] = from
    BY <1>6
  <2> QED BY <1>17, <2>3, <2>4
<1>21. Migrate(mm, from, n, o) = mm3
  BY <1>8, <1>10, <1>15, <1>17 DEF Migrate, DestroyCells
<1>22. [f EXCEPT ![o] = o, ![from] = from] = f1
  BY <1>2, <1>4, <1>5
<1>23. [l EXCEPT ![o] = n, ![from] = 0] = [l2 EXCEPT ![from] = 0]
  BY <1>2, <1>4, <1>5, <1>11
<1>24. [e EXCEPT ![o] = SvoCapacity, ![from] = SvoCapacity] = e1
  BY <1>2, <1>4, <1>5, <1>7
<1> QED BY <1>1, <1>20, <1>21, <1>22, <1>23, <1>24

-----------------------------------------------------------------------------
(* The actions.                                                            *)

\* Growing makes room for one more element.
LEMMA CapacityGrows ==
    ASSUME ConstantsOK, NEW cap \in Nat
    PROVE  ComputeNextCapacity(cap) \in Nat /\ ComputeNextCapacity(cap) > cap
<1>1. /\ SmallCapacity \in Nat \ {0} /\ FirstDynamic \in Nat /\ FirstDynamic >= SmallCapacity
      /\ DoublingLimit \in Nat /\ DoublingLimit >= 2
  BY DEF ConstantsOK
<1>2. CASE cap < SmallCapacity
  BY <1>1, <1>2 DEF ComputeNextCapacity
<1>3. CASE ~(cap < SmallCapacity) /\ cap < DoublingLimit
  BY <1>1, <1>3 DEF ComputeNextCapacity
<1>4. CASE ~(cap < SmallCapacity) /\ ~(cap < DoublingLimit)
  <2>1. PICK h \in Nat : h = cap \div 2
    OBVIOUS
  <2>2. h >= 1
    BY <1>1, <1>4, <2>1
  <2>3. ComputeNextCapacity(cap) = cap + h
    BY <1>4, <2>1 DEF ComputeNextCapacity
  <2> QED BY <2>2, <2>3
<1> QED BY <1>2, <1>3, <1>4

\* An argument is an object.
LEMMA ArgsValid ==
    ASSUME ConstantsOK, VInv, NEW r \in Args, IsArg(r)
    PROVE  /\ Read(mem, r) \in Full
           /\ r.b # NULL => \E p \in Alive : m_First[p] = r.b /\ r.i \in 1 .. m_Last[p]
<1>1. CASE r.b = NULL
  <2>1. r.v \in Vals
    <3>1. CASE r \in {[b |-> NULL, v |-> v, i |-> 0] : v \in Vals}
      BY <3>1
    <3>2. ASSUME NEW o \in Alive, NEW i \in 1 .. MaxCapacity, r = [b |-> m_First[o], v |-> Raw, i |-> i]
          PROVE  FALSE
      BY <1>1, <3>2 DEF Alive
    <3> QED BY <3>1, <3>2 DEF Args
  <2> QED BY <1>1, <2>1 DEF Read, Full
<1>2. CASE r.b # NULL
  <2>1. r.i \in 1 .. MaxCapacity
    <3>1. ASSUME NEW v \in Vals, r = [b |-> NULL, v |-> v, i |-> 0] PROVE FALSE
      BY <1>2, <3>1
    <3> QED BY <3>1 DEF Args
  <2>2. PICK p \in Alive : m_First[p] = r.b /\ r.i <= m_Last[p]
    BY <1>2 DEF IsArg
  <2>3. /\ m_Last[p] \in Nat /\ m_End[p] \in Nat
        /\ Fills(mem[r.b], m_Last[p], m_End[p])
    BY <2>2, GoodMeans DEF VInv, Alive
  <2>4. r.i \in 1 .. m_Last[p]
    BY <2>1, <2>2, <2>3 DEF ConstantsOK
  <2>5. mem[r.b][r.i] \in Full /\ r.i \in DOMAIN mem[r.b]
    BY <2>3, <2>4 DEF Fills, Buffer
  <2> QED BY <1>2, <2>2, <2>4, <2>5 DEF Read
<1> QED BY <1>1, <1>2

\* A consumed argument stays an object.
LEMMA AfterReadGood ==
    ASSUME ConstantsOK, VInv, NEW r \in Args, IsArg(r), NEW consumed
    PROVE  Good(m_First, m_Last, m_End, AfterRead(mem, r, consumed), objects)
<1>1. CASE consumed /\ r.b # NULL
  <2>1. PICK p \in Alive : m_First[p] = r.b /\ r.i \in 1 .. m_Last[p]
    BY <1>1, ArgsValid
  <2>2. p \in Vecs /\ m_First[p] # NULL
    BY <2>1 DEF Alive
  <2>3. PICK y : y = [mem[r.b] EXCEPT ![r.i] = LeftBehind(mem[r.b][r.i])]
    OBVIOUS
  <2>4. AfterRead(mem, r, consumed) = [mem EXCEPT ![r.b] = y]
    BY <1>1, <2>3 DEF AfterRead
  <2>5. /\ m_Last[p] \in Nat /\ m_End[p] \in Nat
        /\ Fills(mem[r.b], m_Last[p], m_End[p])
    BY <2>1, <2>2, GoodMeans DEF VInv
  <2>6. Fills(y, m_Last[p], m_End[p])
    <3>1. PICK x, n, cap : x = mem[r.b] /\ n = m_Last[p] /\ cap = m_End[p]
      OBVIOUS
    <3>2. /\ n \in Nat /\ cap \in Nat /\ n <= cap /\ x \in [1 .. cap -> Cells] /\ r.i \in 1 .. n
          /\ \A i \in 1 .. n : x[i] \in Full
          /\ ~TriviallyCopyable => \A i \in n + 1 .. cap : x[i] = Raw
      BY <2>1, <2>5, <3>1 DEF Fills, Buffer
    <3>3. LeftBehind(x[r.i]) \in Full /\ Full \subseteq Cells
      BY <3>2 DEF LeftBehind, Full, Cells
    <3>4. y \in [1 .. cap -> Cells] /\ y = [i \in 1 .. cap |-> IF i = r.i THEN LeftBehind(x[r.i]) ELSE x[i]]
      BY <2>3, <3>1, <3>2, <3>3
    <3>5. \A i \in 1 .. n : y[i] \in Full
      BY <3>2, <3>3, <3>4
    <3>6. \A i \in n + 1 .. cap : y[i] = x[i]
      BY <3>2, <3>4
    <3> QED BY <3>1, <3>2, <3>4, <3>5, <3>6 DEF Fills, Buffer
  <2>7. objects = (objects - Count(m_Last[p])) + Count(m_Last[p])
    <3>1. objects \in Nat
      BY CountIsNat DEF VInv
    <3> QED BY <2>5, <3>1 DEF Count
  <2>8. Good(m_First, [m_Last EXCEPT ![p] = m_Last[p]], m_End, [mem EXCEPT ![m_First[p]] = y], objects)
    BY <2>2, <2>6, <2>7, RefillGood DEF VInv
  <2>9. [m_Last EXCEPT ![p] = m_Last[p]] = m_Last
    BY DEF VInv, Good
  <2> QED BY <2>1, <2>4, <2>8, <2>9
<1>2. CASE ~(consumed /\ r.b # NULL)
  BY <1>2 DEF AfterRead, VInv
<1> QED BY <1>1, <1>2

LEMMA VectorsTyped == VInv => /\ m_First \in [Vecs -> Buffers \cup {NULL}]
                              /\ m_Last \in [Vecs -> Nat] /\ m_End \in [Vecs -> Nat]
                              /\ Memory(mem) /\ objects \in Nat
BY CountIsNat DEF VInv, Good

LEMMA ConstructInv ==
    ASSUME ConstantsOK, VInv, NEW o \in Vecs, Construct(o) PROVE VInv'
BY ConstructGood DEF VInv, Construct, SetVector

LEMMA ReleaseFreed == \A mm, o : Release(mm, o) = Freed(mm, o, m_First[o])
BY DEF Release, Freed, IsDynamic

LEMMA DestructInv ==
    ASSUME ConstantsOK, VInv, NEW o \in Alive, Destruct(o) PROVE VInv'
<1>1. o \in Vecs /\ m_First[o] # NULL
  BY DEF Alive
<1>2. Good([m_First EXCEPT ![o] = NULL], [m_Last EXCEPT ![o] = 0], [m_End EXCEPT ![o] = 0],
           Freed(DestroyCells(mem, m_First[o], m_Last[o]), o, m_First[o]),
           objects - Count(m_Last[o]))
  BY <1>1, DestructGood DEF VInv
<1> QED BY <1>2, ReleaseFreed DEF VInv, Destruct, SetVector

\* Emptying a vector.
LEMMA ClearGood ==
    ASSUME ConstantsOK, VInv, NEW o \in Alive
    PROVE  Good(m_First, [m_Last EXCEPT ![o] = 0], m_End,
                DestroyCells(mem, m_First[o], m_Last[o]), objects - Count(m_Last[o]))
<1>1. o \in Vecs /\ m_First[o] # NULL
  BY DEF Alive
<1>2. PICK y : y = [i \in DOMAIN mem[m_First[o]] |->
                      IF i <= m_Last[o] THEN Destroyed(mem[m_First[o]][i]) ELSE mem[m_First[o]][i]]
  OBVIOUS
<1>3. DestroyCells(mem, m_First[o], m_Last[o]) = [mem EXCEPT ![m_First[o]] = y]
  BY <1>2 DEF DestroyCells
<1>4. m_Last[o] \in Nat /\ m_End[o] \in Nat /\ Fills(mem[m_First[o]], m_Last[o], m_End[o])
  BY <1>1, GoodMeans DEF VInv
<1>5. Fills(y, 0, m_End[o])
  BY <1>2, <1>4, DestroyedFills
<1>6. objects - Count(m_Last[o]) = (objects - Count(m_Last[o])) + Count(0)
  BY <1>4, VectorsTyped DEF Count
<1>7. PICK c2 : c2 = objects - Count(m_Last[o])
  OBVIOUS
<1>8. Good(m_First, [m_Last EXCEPT ![o] = 0], m_End, [mem EXCEPT ![m_First[o]] = y], c2)
  BY <1>1, <1>5, <1>6, <1>7, RefillGood DEF VInv
<1> QED BY <1>3, <1>7, <1>8

LEMMA ClearInv ==
    ASSUME ConstantsOK, VInv, NEW o \in Alive, Clear(o) PROVE VInv'
BY ClearGood DEF VInv, Clear

LEMMA FreshCells ==
    ASSUME NEW cap \in Nat
    PROVE  RawCells(cap) \in Buffer(cap) /\ \A i \in 1 .. cap : RawCells(cap)[i] = Raw
BY DEF RawCells, Buffer, Cells

\* What Reserve leaves behind, with a free block b.
LEMMA ReservedGood ==
    ASSUME ConstantsOK, VInv, NEW o \in Alive, NEW b \in Free,
           NEW cap \in Nat, cap > m_End[o]
    PROVE  Good([m_First EXCEPT ![o] = b], m_Last, [m_End EXCEPT ![o] = cap],
                Reserved(o, mem, m_Last[o], b, cap), objects)
<1>1. o \in Vecs /\ m_First[o] # NULL /\ b \in Blocks /\ mem[b] = << >>
  BY DEF Alive, Free
<1>2. PICK k : k = m_Last[o]
  OBVIOUS
<1>3. k \in Nat /\ m_End[o] \in Nat /\ k <= m_End[o]
  BY <1>1, <1>2, GoodMeans DEF VInv, Fills
<1>4. k <= cap /\ cap >= 1 /\ \A i \in k + 1 .. k : FALSE
  BY <1>3
<1>5. PICK w : w = RawCells(cap)
  OBVIOUS
<1>6. w \in Buffer(cap) /\ \A i \in k + 1 .. cap : w[i] = Raw
  BY <1>3, <1>5, FreshCells
<1>7. objects = (objects - Count(k)) + Count(k)
  BY <1>3, VectorsTyped DEF Count
<1>8. Good([m_First EXCEPT ![o] = b], [m_Last EXCEPT ![o] = k], [m_End EXCEPT ![o] = cap],
           Freed(Migrate([mem EXCEPT ![b] = w], m_First[o], k, b), o, m_First[o]), objects)
  BY <1>1, <1>2, <1>3, <1>4, <1>6, <1>7, MigrateGood DEF VInv
<1>9. [m_Last EXCEPT ![o] = k] = m_Last
  BY <1>2, VectorsTyped
<1>10. Reserved(o, mem, k, b, cap)
         = Freed(Migrate([mem EXCEPT ![b] = w], m_First[o], k, b), o, m_First[o])
  BY <1>5, ReleaseFreed DEF Reserved, Allocate
<1> QED BY <1>2, <1>8, <1>9, <1>10

LEMMA VInvStutters == VInv /\ UNCHANGED vars => VInv'
BY DEF VInv, vars

LEMMA ReserveInv ==
    ASSUME ConstantsOK, VInv, NEW o \in Alive, NEW n \in Requests, Reserve(o, n) PROVE VInv'
<1>1. CASE UNCHANGED vars
  BY <1>1, VInvStutters
<1>2. CASE /\ n > m_End[o]
           /\ \E b \in Free : /\ mem' = Reserved(o, mem, m_Last[o], b, n)
                              /\ SetVector(o, b, m_Last[o], n)
           /\ UNCHANGED objects
  <2>1. PICK b \in Free : mem' = Reserved(o, mem, m_Last[o], b, n) /\ SetVector(o, b, m_Last[o], n)
    BY <1>2
  <2>2. n \in Nat
    BY DEF ConstantsOK
  <2>3. Good([m_First EXCEPT ![o] = b], m_Last, [m_End EXCEPT ![o] = n],
             Reserved(o, mem, m_Last[o], b, n), objects)
    BY <1>2, <2>2, ReservedGood
  <2>4. m_Last' = m_Last
    BY <2>1, VectorsTyped DEF SetVector
  <2> QED BY <1>2, <2>1, <2>3, <2>4 DEF VInv, SetVector
<1> QED BY <1>1, <1>2 DEF Reserve, Fails

LEMMA EmplaceInPlaceInv ==
    ASSUME ConstantsOK, VInv, NEW o \in Alive, NEW r \in Args, IsArg(r), NEW consumed,
           EmplaceInPlace(o, r, consumed)
    PROVE  VInv'
<1>1. PICK mm, n, a, x : /\ mm = AfterRead(mem, r, consumed) /\ n = m_Last[o] /\ a = m_First[o]
                         /\ x = Read(mem, r)
  OBVIOUS
<1>2. Good(m_First, m_Last, m_End, mm, objects) /\ x \in Full
  BY <1>1, AfterReadGood, ArgsValid
<1>3. o \in Vecs /\ a # NULL
  BY <1>1 DEF Alive
<1>4. n \in Nat /\ m_End[o] \in Nat /\ Fills(mm[a], n, m_End[o]) /\ n < m_End[o]
  BY <1>1, <1>2, <1>3, GoodMeans DEF EmplaceInPlace
<1>5. PICK y : y = [mm[a] EXCEPT ![n + 1] = x]
  OBVIOUS
<1>6. Fills(y, n + 1, m_End[o])
  <2>1. PICK z, cap : z = mm[a] /\ cap = m_End[o]
    OBVIOUS
  <2>2. /\ n \in Nat /\ cap \in Nat /\ n < cap /\ z \in [1 .. cap -> Cells]
        /\ \A i \in 1 .. n : z[i] \in Full
        /\ ~TriviallyCopyable => \A i \in n + 1 .. cap : z[i] = Raw
    BY <1>4, <2>1 DEF Fills, Buffer
  <2>3. Full \subseteq Cells
    BY DEF Full, Cells
  <2>4. y \in [1 .. cap -> Cells] /\ y = [i \in 1 .. cap |-> IF i = n + 1 THEN x ELSE z[i]]
    BY <1>2, <1>5, <2>1, <2>2, <2>3
  <2>5. \A i \in 1 .. n + 1 : y[i] \in Full
    BY <1>2, <2>2, <2>4
  <2>6. \A i \in (n + 1) + 1 .. cap : y[i] = z[i] /\ i \in n + 1 .. cap
    BY <2>2, <2>4
  <2>7. n + 1 \in Nat /\ n + 1 <= cap
    BY <2>2
  <2>8. ~TriviallyCopyable => \A i \in (n + 1) + 1 .. cap : y[i] = Raw
    BY <2>2, <2>6
  <2> QED BY <2>1, <2>4, <2>5, <2>7, <2>8 DEF Fills, Buffer
<1>7. PICK c2 : c2 = objects + Count(1)
  OBVIOUS
<1>8. c2 = (objects - Count(m_Last[o])) + Count(n + 1)
  BY <1>1, <1>4, <1>7, VectorsTyped DEF Count
<1>9. Good(m_First, [m_Last EXCEPT ![o] = n + 1], m_End, [mm EXCEPT ![m_First[o]] = y], c2)
  BY <1>1, <1>2, <1>3, <1>6, <1>8, RefillGood
<1>10. mem' = [mm EXCEPT ![m_First[o]] = y]
  BY <1>1, <1>5 DEF EmplaceInPlace
<1>11. /\ m_First' = m_First /\ m_Last' = [m_Last EXCEPT ![o] = n + 1] /\ m_End' = m_End
       /\ objects' = c2
  BY <1>1, <1>7 DEF EmplaceInPlace
<1> QED BY <1>9, <1>10, <1>11 DEF VInv

LEMMA GrowAndEmplaceInv ==
    ASSUME ConstantsOK, VInv, NEW o \in Alive, NEW r \in Args, IsArg(r), NEW consumed,
           GrowAndEmplace(o, r, consumed)
    PROVE  VInv'
<1>1. PICK mm, n, a, x : /\ mm = AfterRead(mem, r, consumed) /\ n = m_Last[o] /\ a = m_First[o]
                         /\ x = Read(mem, r)
  OBVIOUS
<1>2. Good(m_First, m_Last, m_End, mm, objects) /\ x \in Full
  BY <1>1, AfterReadGood, ArgsValid
<1>3. o \in Vecs /\ a # NULL
  BY <1>1 DEF Alive
<1>4. n \in Nat /\ m_End[o] \in Nat /\ n <= m_End[o]
  BY <1>1, <1>2, <1>3, GoodMeans DEF Fills
<1>5. PICK cap \in Nat : cap = ComputeNextCapacity(m_End[o]) /\ n + 1 <= cap /\ cap >= 1
  BY <1>4, CapacityGrows
<1>6. PICK b \in Free :
         /\ mem' = Release(Migrate([Allocate(mm, b, cap) EXCEPT ![b][n + 1] = x], a, n, b), o)
         /\ SetVector(o, b, n + 1, cap)
  BY <1>1, <1>5 DEF GrowAndEmplace
<1>7. b \in Blocks /\ mem[b] = << >> /\ b \in Buffers
  BY DEF Free, Buffers
<1>8. mm[b] = << >>
  <2>1. CASE consumed /\ r.b # NULL
    <3>1. PICK p \in Alive : m_First[p] = r.b /\ r.i \in 1 .. m_Last[p]
      BY <2>1, ArgsValid
    <3>2. /\ Fills(mem[r.b], m_Last[p], m_End[p]) /\ m_Last[p] \in Nat /\ m_End[p] \in Nat
          /\ r.b \in Blocks => m_End[p] >= 1
      BY <3>1, GoodMeans DEF VInv, Alive
    <3>3. r.b # b
      BY <1>7, <3>2, BlockNotEmpty DEF Fills
    <3> QED BY <1>1, <1>7, <3>3, VectorsTyped DEF AfterRead, Memory
  <2> QED BY <1>1, <1>7, <2>1 DEF AfterRead
<1>9. PICK w : w = [RawCells(cap) EXCEPT ![n + 1] = x]
  OBVIOUS
<1>10. w \in Buffer(cap) /\ w[n + 1] = x /\ \A i \in (n + 1) + 1 .. cap : w[i] = Raw
  <2>1. Full \subseteq Cells
    BY DEF Full, Cells
  <2>2. w = [i \in 1 .. cap |-> IF i = n + 1 THEN x ELSE Raw]
    BY <1>9 DEF RawCells
  <2> QED BY <1>2, <1>4, <1>5, <2>1, <2>2 DEF Buffer, Cells
<1>11. \A i \in n + 1 .. n + 1 : w[i] \in Full
  BY <1>2, <1>4, <1>10
<1>12. [Allocate(mm, b, cap) EXCEPT ![b][n + 1] = x] = [mm EXCEPT ![b] = w]
  BY <1>2, <1>7, <1>9 DEF Allocate, Good, Memory
<1>13. PICK c2 : c2 = objects + Count(1)
  OBVIOUS
<1>14. c2 = (objects - Count(m_Last[o])) + Count(n + 1)
  BY <1>1, <1>4, <1>13, VectorsTyped DEF Count
<1>15. PICK k \in Nat : k = n + 1
  BY <1>4
<1>16. Good([m_First EXCEPT ![o] = b], [m_Last EXCEPT ![o] = k], [m_End EXCEPT ![o] = cap],
            Freed(Migrate([mm EXCEPT ![b] = w], m_First[o], m_Last[o], b), o, m_First[o]), c2)
  <2>1. m_Last[o] <= k /\ k <= cap
    BY <1>1, <1>4, <1>5, <1>15
  <2>2. \A i \in m_Last[o] + 1 .. k : w[i] \in Full
    BY <1>1, <1>11, <1>15
  <2>3. \A i \in k + 1 .. cap : w[i] = Raw
    BY <1>10, <1>15
  <2> QED BY <1>1, <1>2, <1>3, <1>5, <1>7, <1>8, <1>10, <1>14, <1>15, <2>1, <2>2, <2>3, MigrateGood
<1>17. mem' = Freed(Migrate([mm EXCEPT ![b] = w], m_First[o], m_Last[o], b), o, m_First[o])
  BY <1>1, <1>6, <1>12, ReleaseFreed
<1>18. objects' = c2
  BY <1>13 DEF GrowAndEmplace
<1> QED BY <1>6, <1>15, <1>16, <1>17, <1>18 DEF VInv, SetVector

\* The elements from index on move up by one, and x takes their place.
Shifted(y, index, x, n) ==
    [i \in DOMAIN y |-> IF i = index THEN x
                        ELSE IF i \in index + 1 .. n + 1 THEN y[i - 1] ELSE y[i]]

LEMMA ShiftedFills ==
    ASSUME NEW cap \in Nat, NEW n \in Nat, n < cap, NEW index \in 1 .. n + 1, NEW x \in Full,
           NEW y, Fills(y, n, cap)
    PROVE  Fills(Shifted(y, index, x, n), n + 1, cap)
<1>1. PICK z : z = Shifted(y, index, x, n)
  OBVIOUS
<1>2. /\ y \in [1 .. cap -> Cells] /\ DOMAIN y = 1 .. cap
      /\ \A i \in 1 .. n : y[i] \in Full
      /\ ~TriviallyCopyable => \A i \in n + 1 .. cap : y[i] = Raw
  BY DEF Fills, Buffer
<1>3. z = [i \in 1 .. cap |-> IF i = index THEN x
                              ELSE IF i \in index + 1 .. n + 1 THEN y[i - 1] ELSE y[i]]
  BY <1>1, <1>2 DEF Shifted
<1>4. Full \subseteq Cells
  BY DEF Full, Cells
<1>5. ASSUME NEW i \in 1 .. n + 1 PROVE z[i] \in Full
  <2>1. i \in 1 .. cap
    OBVIOUS
  <2>2. CASE i = index
    BY <1>3, <2>1, <2>2
  <2>3. CASE i \in index + 1 .. n + 1
    <3>1. i - 1 \in 1 .. n /\ i # index
      BY <2>3
    <3> QED BY <1>2, <1>3, <2>1, <2>3, <3>1
  <2>4. CASE i < index
    <3>1. i \in 1 .. n /\ i # index /\ i \notin index + 1 .. n + 1
      BY <2>4
    <3> QED BY <1>2, <1>3, <2>1, <3>1
  <2> QED BY <2>2, <2>3, <2>4
<1>6. ASSUME NEW i \in (n + 1) + 1 .. cap PROVE z[i] = y[i] /\ i \in n + 1 .. cap /\ i \in 1 .. cap
  <2>1. i \in 1 .. cap /\ i # index /\ i \notin index + 1 .. n + 1 /\ i \in n + 1 .. cap
    OBVIOUS
  <2> QED BY <1>3, <2>1
<1>7. ASSUME NEW i \in 1 .. cap PROVE z[i] \in Cells
  <2>1. i \in 1 .. n + 1 \/ i \in (n + 1) + 1 .. cap
    OBVIOUS
  <2> QED BY <1>2, <1>4, <1>5, <1>6, <2>1
<1>8. z \in Buffer(cap)
  BY <1>3, <1>7 DEF Buffer
<1>9. n + 1 \in Nat /\ n + 1 <= cap
  OBVIOUS
<1>10. ~TriviallyCopyable => \A i \in (n + 1) + 1 .. cap : z[i] = Raw
  BY <1>2, <1>6
<1> QED BY <1>1, <1>5, <1>8, <1>9, <1>10 DEF Fills

LEMMA ShiftAndPutInv ==
    ASSUME ConstantsOK, VInv, NEW o \in Alive, NEW index \in 1 .. m_Last[o] + 1, NEW x \in Full,
           NEW mm, NEW b, b # NULL, NEW cap \in Nat, m_Last[o] < cap,
           Good([m_First EXCEPT ![o] = b], m_Last, [m_End EXCEPT ![o] = cap], mm, objects),
           ShiftAndPut(o, index, x, mm, b, cap)
    PROVE  VInv'
<1>1. PICK f, e, n : /\ f = [m_First EXCEPT ![o] = b] /\ e = [m_End EXCEPT ![o] = cap]
                     /\ n = m_Last[o]
  OBVIOUS
<1>2. o \in Vecs
  BY DEF Alive
<1>3. f[o] = b /\ e[o] = cap /\ n \in Nat
  BY <1>1, <1>2, VectorsTyped
<1>4. Good(f, m_Last, e, mm, objects)
  BY <1>1
<1>5. Fills(mm[b], n, cap)
  <2>1. f[o] # NULL
    BY <1>3
  <2>2. Fills(mm[f[o]], m_Last[o], e[o])
    BY <1>2, <1>4, <2>1, GoodMeans
  <2> QED BY <1>1, <1>3, <2>2
<1>6. PICK y : y = Shifted(mm[b], index, x, n)
  OBVIOUS
<1>7. Fills(y, n + 1, cap)
  BY <1>1, <1>3, <1>5, <1>6, ShiftedFills
<1>8. PICK c2 : c2 = objects + Count(1)
  OBVIOUS
<1>9. c2 = (objects - Count(m_Last[o])) + Count(n + 1)
  BY <1>1, <1>3, <1>8, VectorsTyped DEF Count
<1>10. Good(f, [m_Last EXCEPT ![o] = n + 1], e, [mm EXCEPT ![f[o]] = y], c2)
  BY <1>2, <1>3, <1>4, <1>7, <1>9, RefillGood
<1>11. mem' = [mm EXCEPT ![f[o]] = y]
  BY <1>1, <1>3, <1>6 DEF ShiftAndPut, Shifted
<1>12. /\ m_First' = f /\ m_Last' = [m_Last EXCEPT ![o] = n + 1] /\ m_End' = e
       /\ objects' = c2
  BY <1>1, <1>8 DEF ShiftAndPut, SetVector
<1> QED BY <1>10, <1>11, <1>12 DEF VInv

LEMMA InsertInv ==
    ASSUME ConstantsOK, VInv, NEW o \in Alive, NEW index \in 1 .. MaxCapacity + 1,
           NEW r \in Args, IsArg(r), Insert(o, index, r)
    PROVE  VInv'
<1>1. o \in Vecs /\ m_First[o] # NULL
  BY DEF Alive
<1>2. m_Last[o] \in Nat /\ m_End[o] \in Nat
  BY <1>1, VectorsTyped
<1>3. PICK x \in Full : x = Read(mem, r)
  BY ArgsValid
<1>4. CASE UNCHANGED vars
  BY <1>4, VInvStutters
<1>5. CASE /\ index <= m_Last[o] + 1 /\ m_Last[o] < m_End[o]
           /\ ShiftAndPut(o, index, x, mem, m_First[o], m_End[o])
  <2>1. [m_First EXCEPT ![o] = m_First[o]] = m_First /\ [m_End EXCEPT ![o] = m_End[o]] = m_End
    BY VectorsTyped
  <2>2. Good([m_First EXCEPT ![o] = m_First[o]], m_Last, [m_End EXCEPT ![o] = m_End[o]], mem, objects)
    BY <2>1 DEF VInv
  <2>3. index \in 1 .. m_Last[o] + 1
    BY <1>2, <1>5 DEF ConstantsOK
  <2> QED BY <1>1, <1>2, <1>5, <2>2, <2>3, ShiftAndPutInv
<1>6. CASE /\ index <= m_Last[o] + 1 /\ m_Last[o] >= m_End[o]
           /\ \E b \in Free :
                LET cap == ComputeNextCapacity(m_End[o])
                    mm  == Reserved(o, mem, m_Last[o], b, cap)
                IN ShiftAndPut(o, index, x, mm, b, cap)
  <2>1. PICK cap \in Nat : cap = ComputeNextCapacity(m_End[o]) /\ cap > m_End[o]
    BY <1>2, CapacityGrows
  <2>2. PICK b \in Free : ShiftAndPut(o, index, x, Reserved(o, mem, m_Last[o], b, cap), b, cap)
    BY <1>6, <2>1
  <2>3. Good([m_First EXCEPT ![o] = b], m_Last, [m_End EXCEPT ![o] = cap],
             Reserved(o, mem, m_Last[o], b, cap), objects)
    BY <2>1, ReservedGood
  <2>4. b # NULL
    BY DEF Free, ConstantsOK
  <2>5. m_Last[o] < cap
    BY <1>1, <1>2, <2>1, GoodMeans DEF VInv, Fills
  <2>6. index \in 1 .. m_Last[o] + 1
    BY <1>2, <1>6 DEF ConstantsOK
  <2> QED BY <2>2, <2>3, <2>4, <2>5, <2>6, ShiftAndPutInv
<1> QED BY <1>3, <1>4, <1>5, <1>6 DEF Insert, Fails

\* An empty vector gets copies of n elements of another one.
LEMMA CopyGood ==
    ASSUME ConstantsOK, NEW f, NEW l, NEW e, NEW mm, NEW c, Good(f, l, e, mm, c),
           NEW to \in Vecs, f[to] # NULL, l[to] = 0,
           NEW n \in Nat, n <= e[to], NEW src, NEW cap0, Fills(src, n, cap0)
    PROVE  Good(f, [l EXCEPT ![to] = n], e,
                [mm EXCEPT ![f[to]] = [i \in DOMAIN @ |-> IF i <= n THEN src[i] ELSE @[i]]],
                c + Count(n))
<1>1. PICK y : y = [i \in DOMAIN mm[f[to]] |-> IF i <= n THEN src[i] ELSE mm[f[to]][i]]
  OBVIOUS
<1>2. Fills(mm[f[to]], 0, e[to]) /\ e[to] \in Nat
  BY GoodMeans
<1>3. Fills(y, n, e[to])
  BY <1>1, <1>2, CopiedFills
<1>4. PICK c2 : c2 = c + Count(n)
  OBVIOUS
<1>5. c2 = (c - Count(l[to])) + Count(n)
  <2>1. c \in Nat
    BY CountIsNat
  <2> QED BY <1>4, <2>1 DEF Count
<1>6. Good(f, [l EXCEPT ![to] = n], e, [mm EXCEPT ![f[to]] = y], c2)
  BY <1>3, <1>5, RefillGood
<1> QED BY <1>1, <1>4, <1>6

LEMMA CloneInv ==
    ASSUME ConstantsOK, VInv, NEW o \in Alive, NEW to \in Alive, Clone(o, to) PROVE VInv'
<1>1. PICK mm : mm = DestroyCells(mem, m_First[to], m_Last[to])
  OBVIOUS
<1>2. PICK l1, c1, n, a : /\ l1 = [m_Last EXCEPT ![to] = 0] /\ c1 = objects - Count(m_Last[to])
                          /\ n = m_Last[o] /\ a = m_First[to]
  OBVIOUS
<1>3. Good(m_First, l1, m_End, mm, c1)
  BY <1>1, <1>2, ClearGood
<1>4. o \in Vecs /\ to \in Vecs /\ m_First[o] # NULL /\ a # NULL /\ m_First[to] # NULL
  BY <1>2 DEF Alive
<1>5. PICK src : src = mem[m_First[o]]
  OBVIOUS
<1>6. Fills(src, n, m_End[o]) /\ n \in Nat /\ m_End[to] \in Nat
  BY <1>2, <1>4, <1>5, GoodMeans DEF VInv
<1>7. l1[to] = 0 /\ [l1 EXCEPT ![to] = n] = [m_Last EXCEPT ![to] = n]
  BY <1>2, <1>4, VectorsTyped
<1>8. CASE UNCHANGED vars
  BY <1>8, VInvStutters
<1>9. CASE n <= m_End[to] /\ CloneInto(o, to, mm, a, m_End[to])
  <2>1. Good(m_First, [l1 EXCEPT ![to] = n], m_End,
             [mm EXCEPT ![m_First[to]] = [i \in DOMAIN @ |-> IF i <= n THEN src[i] ELSE @[i]]],
             c1 + Count(n))
    <3>1. n <= m_End[to]
      BY <1>9
    <3> QED BY <1>3, <1>4, <1>6, <1>7, <3>1, CopyGood
  <2>2. mem' = [mm EXCEPT ![m_First[to]] = [i \in DOMAIN @ |-> IF i <= n THEN src[i] ELSE @[i]]]
    BY <1>2, <1>5, <1>9 DEF CloneInto
  <2>3. m_First' = m_First /\ m_Last' = [l1 EXCEPT ![to] = n] /\ m_End' = m_End
    BY <1>2, <1>7, <1>9, VectorsTyped DEF CloneInto, SetVector
  <2>4. objects' = c1 + Count(n)
    BY <1>2, <1>9 DEF CloneInto
  <2> QED BY <2>1, <2>2, <2>3, <2>4 DEF VInv
<1>10. CASE /\ n > m_End[to]
            /\ \E b \in Free : CloneInto(o, to, Reserved(to, mm, 0, b, n), b, n)
  <2>1. PICK b \in Free : CloneInto(o, to, Reserved(to, mm, 0, b, n), b, n)
    BY <1>10
  <2>2. PICK w : w = RawCells(n)
    OBVIOUS
  <2>3. PICK mm2 : mm2 = Freed(Migrate([mm EXCEPT ![b] = w], a, 0, b), to, a)
    OBVIOUS
  <2>4. Reserved(to, mm, 0, b, n) = mm2
    BY <1>2, <2>2, <2>3, ReleaseFreed DEF Reserved, Allocate
  <2>5. b \in Blocks /\ mem[b] = << >> /\ b \in Buffers /\ b # NULL
    BY DEF Free, Buffers, ConstantsOK
  <2>6. mm[b] = << >>
    <3>1. /\ a \in Buffers /\ Fills(mem[a], m_Last[to], m_End[to])
          /\ a \in Blocks => m_End[to] >= 1
      BY <1>2, <1>4, GoodMeans DEF VInv
    <3>2. a # b
      BY <1>6, <2>5, <3>1, BlockNotEmpty DEF Fills
    <3> QED BY <1>1, <1>2, <2>5, <3>2, VectorsTyped DEF DestroyCells, Memory
  <2>7. w \in Buffer(n) /\ \A i \in 1 .. n : w[i] = Raw
    BY <1>6, <2>2, FreshCells
  <2>8. PICK f2, e2 : f2 = [m_First EXCEPT ![to] = b] /\ e2 = [m_End EXCEPT ![to] = n]
    OBVIOUS
  <2>9. Good(f2, [l1 EXCEPT ![to] = 0], e2, mm2, c1)
    <3>1. n >= 1 /\ 0 <= n
      BY <1>6, <1>10
    <3>2. c1 = (c1 - Count(l1[to])) + Count(0)
      <4>1. c1 \in Nat
        BY <1>3, CountIsNat
      <4> QED BY <1>7, <4>1 DEF Count
    <3>3. /\ l1[to] <= 0 /\ \A i \in l1[to] + 1 .. 0 : w[i] \in Full
          /\ \A i \in 0 + 1 .. n : w[i] = Raw
      BY <1>7, <2>7
    <3>4. PICK k \in Nat : k = 0
      OBVIOUS
    <3>5. Good([m_First EXCEPT ![to] = b], [l1 EXCEPT ![to] = k], [m_End EXCEPT ![to] = n],
               Freed(Migrate([mm EXCEPT ![b] = w], m_First[to], l1[to], b), to, m_First[to]), c1)
      <4>1. c1 = (c1 - Count(l1[to])) + Count(k) /\ l1[to] <= k /\ k <= n
        BY <3>1, <3>2, <3>3, <3>4
      <4>2. /\ \A i \in l1[to] + 1 .. k : w[i] \in Full
            /\ \A i \in k + 1 .. n : w[i] = Raw
        BY <3>3, <3>4
      <4> QED BY <1>3, <1>4, <1>6, <2>5, <2>6, <2>7, <3>1, <4>1, <4>2, MigrateGood
    <3> QED BY <1>2, <1>7, <2>3, <2>8, <3>4, <3>5
  <2>10. [l1 EXCEPT ![to] = 0] = l1
    BY <1>2, VectorsTyped
  <2>11. f2[to] = b /\ e2[to] = n
    BY <1>4, <2>8, VectorsTyped
  <2>12. Good(f2, [l1 EXCEPT ![to] = n], e2,
              [mm2 EXCEPT ![f2[to]] = [i \in DOMAIN @ |-> IF i <= n THEN src[i] ELSE @[i]]],
              c1 + Count(n))
    <3>1. Good(f2, l1, e2, mm2, c1) /\ f2[to] # NULL /\ n <= e2[to]
      BY <1>6, <2>5, <2>9, <2>10, <2>11
    <3> QED BY <1>4, <1>6, <1>7, <3>1, CopyGood
  <2>13. mem' = [mm2 EXCEPT ![f2[to]] = [i \in DOMAIN @ |-> IF i <= n THEN src[i] ELSE @[i]]]
    BY <1>2, <1>5, <2>1, <2>4, <2>11 DEF CloneInto
  <2>14. m_First' = f2 /\ m_Last' = [l1 EXCEPT ![to] = n] /\ m_End' = e2
    BY <1>2, <1>7, <2>1, <2>8 DEF CloneInto, SetVector
  <2>15. objects' = c1 + Count(n)
    BY <1>2, <2>1 DEF CloneInto
  <2> QED BY <2>12, <2>13, <2>14, <2>15 DEF VInv
<1>11. CASE Clear(to)
  BY <1>11, ClearInv
<1> QED BY <1>1, <1>2, <1>8, <1>9, <1>10, <1>11 DEF Clone

LEMMA TakeOverInv ==
    ASSUME ConstantsOK, VInv, NEW o \in Vecs, NEW from \in Alive, o # from,
           NEW mm, NEW c, NEW q \in Nat,
           Good([m_First EXCEPT ![o] = NULL], [m_Last EXCEPT ![o] = 0], [m_End EXCEPT ![o] = q], mm, c),
           TakeOver(o, from, mm), objects' = c
    PROVE  VInv'
<1>1. PICK f, l, e : /\ f = [m_First EXCEPT ![o] = NULL] /\ l = [m_Last EXCEPT ![o] = 0]
                     /\ e = [m_End EXCEPT ![o] = q]
  OBVIOUS
<1>2. from \in Vecs /\ m_First[from] # NULL
  BY DEF Alive
<1>3. f[o] = NULL /\ f[from] = m_First[from] /\ l[from] = m_Last[from] /\ e[from] = m_End[from]
  BY <1>1, <1>2, VectorsTyped
<1>4. Good(f, l, e, mm, c)
  BY <1>1
<1>5. CASE IsDynamic(from)
  <2>1. Good([f EXCEPT ![o] = f[from], ![from] = from], [l EXCEPT ![o] = l[from], ![from] = 0],
             [e EXCEPT ![o] = e[from], ![from] = SvoCapacity], mm, c)
    BY <1>2, <1>3, <1>4, <1>5, AdoptGood DEF IsDynamic
  <2>2. mem' = mm
    BY <1>5 DEF TakeOver
  <2>3. m_First' = [f EXCEPT ![o] = f[from], ![from] = from]
    BY <1>1, <1>2, <1>3, <1>5, VectorsTyped DEF TakeOver
  <2>4. m_Last' = [l EXCEPT ![o] = l[from], ![from] = 0]
    BY <1>1, <1>2, <1>3, <1>5, VectorsTyped DEF TakeOver
  <2>5. m_End' = [e EXCEPT ![o] = e[from], ![from] = SvoCapacity]
    BY <1>1, <1>2, <1>3, <1>5, VectorsTyped DEF TakeOver
  <2> QED BY <2>1, <2>2, <2>3, <2>4, <2>5 DEF VInv
<1>6. CASE ~IsDynamic(from)
  <2>1. Good([f EXCEPT ![o] = o, ![from] = from], [l EXCEPT ![o] = l[from], ![from] = 0],
             [e EXCEPT ![o] = SvoCapacity, ![from] = SvoCapacity],
             Migrate(mm, from, l[from], o), c)
    BY <1>2, <1>3, <1>4, <1>6, InlineMoveGood DEF IsDynamic
  <2>2. mem' = Migrate(mm, from, l[from], o)
    BY <1>3, <1>6 DEF TakeOver
  <2>3. m_First' = [f EXCEPT ![o] = o, ![from] = from]
    BY <1>1, <1>2, <1>3, <1>6, VectorsTyped DEF TakeOver
  <2>4. m_Last' = [l EXCEPT ![o] = l[from], ![from] = 0]
    BY <1>1, <1>2, <1>3, <1>6, VectorsTyped DEF TakeOver
  <2>5. m_End' = [e EXCEPT ![o] = SvoCapacity, ![from] = SvoCapacity]
    BY <1>1, <1>2, <1>3, <1>6, VectorsTyped DEF TakeOver
  <2> QED BY <2>1, <2>2, <2>3, <2>4, <2>5 DEF VInv
<1> QED BY <1>5, <1>6

LEMMA MoveConstructInv ==
    ASSUME ConstantsOK, VInv, NEW o \in Vecs \ Alive, NEW from \in Alive, MoveConstruct(o, from)
    PROVE  VInv'
<1>1. m_First[o] = NULL /\ m_Last[o] = 0
  BY DEF MoveConstruct, VInv, Good
<1>2. PICK q \in Nat : q = m_End[o]
  BY VectorsTyped
<1>3. /\ [m_First EXCEPT ![o] = NULL] = m_First /\ [m_Last EXCEPT ![o] = 0] = m_Last
      /\ [m_End EXCEPT ![o] = q] = m_End
  BY <1>1, <1>2, VectorsTyped
<1>4. Good([m_First EXCEPT ![o] = NULL], [m_Last EXCEPT ![o] = 0], [m_End EXCEPT ![o] = q],
           mem, objects)
  BY <1>3 DEF VInv
<1>5. TakeOver(o, from, mem) /\ objects' = objects /\ o # from
  BY DEF MoveConstruct
<1> QED BY <1>2, <1>4, <1>5, TakeOverInv

LEMMA MoveAssignInv ==
    ASSUME ConstantsOK, VInv, NEW o \in Alive, NEW from \in Alive, MoveAssign(o, from)
    PROVE  VInv'
<1>1. CASE UNCHANGED vars
  BY <1>1, VInvStutters
<1>2. CASE ~UNCHANGED vars
  <2>1. PICK mm, c : /\ mm = Freed(DestroyCells(mem, m_First[o], m_Last[o]), o, m_First[o])
                     /\ c = objects - Count(m_Last[o])
    OBVIOUS
  <2>2. o # from /\ TakeOver(o, from, mm) /\ objects' = c
    BY <1>2, <2>1, ReleaseFreed DEF MoveAssign
  <2>3. o \in Vecs /\ m_First[o] # NULL
    BY DEF Alive
  <2>4. Good([m_First EXCEPT ![o] = NULL], [m_Last EXCEPT ![o] = 0], [m_End EXCEPT ![o] = 0], mm, c)
    BY <2>1, <2>3, DestructGood DEF VInv
  <2> QED BY <2>2, <2>3, <2>4, TakeOverInv
<1> QED BY <1>1, <1>2

-----------------------------------------------------------------------------
(* The specification.                                                      *)

\* The invariant, of well chosen constants; kept together for the modules
\* that instantiate this one.
LEMMA InitVInv == ConstantsOK /\ Init => VInv
<1> SUFFICES ASSUME ConstantsOK, Init PROVE VInv
  OBVIOUS
<1>1. /\ Vecs \cap Blocks = {} /\ NULL \notin Vecs \cup Blocks /\ SvoCapacity \in Nat
  BY DEF ConstantsOK
<1>2. /\ m_First \in [Vecs -> Buffers \cup {NULL}] /\ m_Last \in [Vecs -> Nat]
      /\ m_End \in [Vecs -> Nat] /\ \A o \in Vecs : m_First[o] = NULL /\ m_Last[o] = 0
  BY DEF Init
<1>3. /\ Memory(mem) /\ \A o \in Vecs : mem[o] = RawCells(SvoCapacity)
      /\ \A b \in Blocks : mem[b] = << >>
  BY <1>1 DEF Init, Memory, Buffers
<1>4. \A o \in Vecs : Inline(o, m_First[o] = o, mem)
  BY <1>1, <1>3, FreshCells DEF Inline
<1>5. Counted(m_First, m_Last, objects)
  <2>1. AllTaken(m_First, m_Last) = {}
    <3>1. \A x : Taken(x, 0) = {}
      BY DEF Taken
    <3> QED BY <1>2, <3>1 DEF AllTaken
  <2> QED BY <2>1, FS_EmptySet DEF Counted, Init
<1>6. \A o \in Vecs : o # NULL
  BY <1>1
<1> QED BY <1>2, <1>3, <1>4, <1>5, <1>6 DEF VInv, Good

LEMMA NextVInv == ConstantsOK /\ VInv /\ [Next]_vars => VInv'
<1> SUFFICES ASSUME ConstantsOK, VInv, [Next]_vars PROVE VInv'
  OBVIOUS
<1>1. CASE UNCHANGED vars
  BY <1>1, VInvStutters
<1>2. ASSUME NEW o \in Vecs \ Alive, Construct(o) PROVE VInv'
  BY <1>2, ConstructInv
<1>3. ASSUME NEW o \in Vecs \ Alive, NEW from \in Alive, MoveConstruct(o, from) PROVE VInv'
  BY <1>3, MoveConstructInv
<1>4. ASSUME NEW o \in Alive, Destruct(o) PROVE VInv'
  BY <1>4, DestructInv
<1>5. ASSUME NEW o \in Alive, Clear(o) PROVE VInv'
  BY <1>5, ClearInv
<1>6. ASSUME NEW o \in Alive, NEW n \in Requests, Reserve(o, n) PROVE VInv'
  BY <1>6, ReserveInv
<1>7. ASSUME NEW o \in Alive, NEW r \in Args, IsArg(r), NEW consumed \in BOOLEAN,
             EmplaceBack(o, r, consumed)
      PROVE  VInv'
  <2>1. CASE EmplaceInPlace(o, r, consumed)
    BY <1>7, <2>1, EmplaceInPlaceInv
  <2>2. CASE GrowAndEmplace(o, r, consumed)
    BY <1>7, <2>2, GrowAndEmplaceInv
  <2> QED BY <1>7, <2>1, <2>2, VInvStutters DEF EmplaceBack, Fails
<1>8. ASSUME NEW o \in Alive, NEW r \in Args, IsArg(r), NEW i \in 1 .. MaxCapacity + 1, Insert(o, i, r)
      PROVE  VInv'
  BY <1>8, InsertInv
<1>9. ASSUME NEW o \in Alive, NEW p \in Alive, Clone(o, p) PROVE VInv'
  BY <1>9, CloneInv
<1>10. ASSUME NEW o \in Alive, NEW p \in Alive, MoveAssign(o, p) PROVE VInv'
  BY <1>10, MoveAssignInv
<1> QED BY <1>1, <1>2, <1>3, <1>4, <1>5, <1>6, <1>7, <1>8, <1>9, <1>10 DEF Next

LEMMA VectorTypes == ConstantsOK /\ VInv => TypeOK
<1> SUFFICES ASSUME ConstantsOK, VInv PROVE TypeOK
  OBVIOUS
<1>1. ASSUME NEW o \in Alive, NEW i \in 1 .. m_Last[o] PROVE Elements(o)[i] \in Vals \cup {Moved}
  <2>1. PICK s, n, cap : s = mem[m_First[o]] /\ n = m_Last[o] /\ cap = m_End[o]
    OBVIOUS
  <2>2. n \in Nat /\ cap \in Nat /\ Fills(s, n, cap)
    BY <2>1, GoodMeans DEF VInv, Alive
  <2>3. s \in [1 .. cap -> Cells] /\ n <= cap /\ \A j \in 1 .. n : s[j] \in Full
    BY <2>2 DEF Fills, Buffer
  <2>4. s \in Seq(Cells) /\ Len(s) = cap
    BY <2>2, <2>3
  <2>5. SubSeq(s, 1, n)[i] = s[i]
    BY <1>1, <2>1, <2>2, <2>3, <2>4
  <2> QED BY <1>1, <2>1, <2>3, <2>5 DEF Elements, Full
<1> QED BY <1>1, VectorsTyped DEF TypeOK

LEMMA VectorStorage == ConstantsOK /\ VInv => StorageOwned
<1> SUFFICES ASSUME ConstantsOK, VInv PROVE StorageOwned
  OBVIOUS
<1>1. ASSUME NEW b \in Blocks \ Free PROVE Cardinality({o \in Alive : m_First[o] = b}) = 1
  <2>1. PICK o \in Vecs : m_First[o] = b
    BY <1>1 DEF VInv, Good, Free
  <2>2. b # NULL
    BY DEF ConstantsOK
  <2>3. \A p \in Vecs : m_First[p] = b => p = o
    BY <2>1, <2>2 DEF VInv, Good
  <2>4. {p \in Alive : m_First[p] = b} = {o}
    BY <2>1, <2>2, <2>3 DEF Alive
  <2> QED BY <2>4, FS_Singleton
<1>2. ASSUME NEW o \in Alive
      PROVE  /\ m_First[o] \in {o} \cup (Blocks \ Free)
             /\ m_Last[o] <= m_End[o] /\ m_End[o] = Len(mem[m_First[o]])
  <2>1. PICK s, n, cap, a : s = mem[a] /\ n = m_Last[o] /\ cap = m_End[o] /\ a = m_First[o]
    OBVIOUS
  <2>2. /\ n \in Nat /\ cap \in Nat /\ Fills(s, n, cap) /\ (a = o \/ a \in Blocks)
        /\ (a \in Blocks => cap >= 1)
    BY <2>1, GoodMeans DEF VInv, Alive
  <2>3. s \in [1 .. cap -> Cells] /\ n <= cap /\ s \in Buffer(cap)
    BY <2>2 DEF Fills, Buffer
  <2>4. Len(s) = cap
    BY <2>2, <2>3
  <2>5. a \in Blocks => a \notin Free
    BY <2>1, <2>2, <2>3, BlockNotEmpty DEF Free
  <2> QED BY <2>1, <2>2, <2>3, <2>4, <2>5
<1> QED BY <1>1, <1>2 DEF StorageOwned

LEMMA VectorObjects == ConstantsOK /\ VInv => ObjectsExact
<1> SUFFICES ASSUME ConstantsOK, VInv, ~TriviallyCopyable PROVE ObjectsExact
  BY DEF ObjectsExact
<1>1. PICK elements : elements = UNION {{<< m_First[o], i >> : i \in 1 .. m_Last[o]} : o \in Alive}
  OBVIOUS
<1>2. \A b, i : << b, i >> \in elements <=> \E o \in Alive : m_First[o] = b /\ i \in 1 .. m_Last[o]
  BY <1>1
<1>3. elements = AllTaken(m_First, m_Last)
  <2>1. elements = UNION {Taken(m_First[o], m_Last[o]) : o \in Alive}
    BY <1>1 DEF Taken
  <2>2. ASSUME NEW o \in Vecs, o \notin Alive PROVE Taken(m_First[o], m_Last[o]) = {}
    <3>1. m_Last[o] = 0
      BY <2>2 DEF VInv, Good, Alive
    <3> QED BY <3>1 DEF Taken
  <2>3. Alive \subseteq Vecs
    BY DEF Alive
  <2> QED BY <2>1, <2>2, <2>3 DEF AllTaken
<1>4. objects = Cardinality(elements)
  BY <1>3 DEF VInv, Good, Counted
<1>5. Raw \notin Full
  BY DEF ConstantsOK, Full
<1>6. ASSUME NEW b \in Buffers, NEW i \in DOMAIN mem[b]
      PROVE  mem[b][i] # Raw <=> << b, i >> \in elements
  <2>1. CASE \E o \in Alive : m_First[o] = b
    <3>1. PICK o \in Alive : m_First[o] = b
      BY <2>1
    <3>2. m_Last[o] \in Nat /\ m_End[o] \in Nat /\ Fills(mem[b], m_Last[o], m_End[o])
      BY <3>1, GoodMeans DEF VInv, Alive
    <3>3. \A p \in Alive : m_First[p] = b => p = o
      BY <3>1 DEF VInv, Good, Alive
    <3>4. << b, i >> \in elements <=> i \in 1 .. m_Last[o]
      BY <1>2, <3>1, <3>3
    <3>5. i \in 1 .. m_End[o] /\ m_Last[o] <= m_End[o]
      BY <1>6, <3>2 DEF Fills, Buffer
    <3>6. CASE i \in 1 .. m_Last[o]
      <4>1. mem[b][i] \in Full
        BY <3>2, <3>6 DEF Fills
      <4> QED BY <1>5, <3>4, <3>6, <4>1
    <3>7. CASE i \notin 1 .. m_Last[o]
      <4>1. i \in m_Last[o] + 1 .. m_End[o]
        BY <3>2, <3>5, <3>7
      <4>2. mem[b][i] = Raw
        BY <3>2, <4>1 DEF Fills
      <4> QED BY <3>4, <3>7, <4>2
    <3> QED BY <3>6, <3>7
  <2>2. CASE ~\E o \in Alive : m_First[o] = b
    <3>1. << b, i >> \notin elements
      BY <1>2, <2>2
    <3>2. CASE b \in Vecs
      <4>1. m_First[b] # b
        BY <2>2, <3>2 DEF Alive, ConstantsOK
      <4>2. mem[b] \in Buffer(SvoCapacity) /\ \A j \in 1 .. SvoCapacity : mem[b][j] = Raw
        BY <3>2, <4>1 DEF VInv, Good, Inline
      <4> QED BY <1>6, <3>1, <4>2 DEF Buffer
    <3>3. CASE b \in Blocks
      <4>1. b # NULL
        BY <3>3 DEF ConstantsOK
      <4>2. mem[b] = << >>
        BY <2>2, <3>3, <4>1 DEF VInv, Good, Alive
      <4> QED BY <1>6, <4>2
    <3> QED BY <3>2, <3>3 DEF Buffers
  <2> QED BY <2>1, <2>2
<1> QED BY <1>1, <1>4, <1>6 DEF ObjectsExact

\* Of constants as ConstantsOK asks for, every vector's idea of its storage
\* fits it, through growth, failed allocations, clones and moves: the types
\* hold, and every pool block that is not free has exactly one owner.
THEOREM VectorsStorageOwned == ConstantsOK /\ Spec => [](TypeOK /\ StorageOwned)
<1>1. ConstantsOK /\ Init => VInv
  BY InitVInv
<1>2. ConstantsOK /\ VInv /\ [Next]_vars => VInv'
  BY NextVInv
<1>3. ConstantsOK /\ VInv => TypeOK /\ StorageOwned
  BY VectorTypes, VectorStorage
<1>4. ConstantsOK => ConstantsOK'
  BY DEF ConstantsOK
<1> QED BY <1>1, <1>2, <1>3, <1>4, PTL DEF Spec

\* The objects that were constructed and not destroyed are exactly the
\* elements of the vectors, through the same operations.
THEOREM VectorsObjectsExact == ConstantsOK /\ Spec => []ObjectsExact
<1>1. ConstantsOK /\ Init => VInv
  BY InitVInv
<1>2. ConstantsOK /\ VInv /\ [Next]_vars => VInv'
  BY NextVInv
<1>3. ConstantsOK /\ VInv => ObjectsExact
  BY VectorObjects
<1>4. ConstantsOK => ConstantsOK'
  BY DEF ConstantsOK
<1> QED BY <1>1, <1>2, <1>3, <1>4, PTL DEF Spec

-----------------------------------------------------------------------------
(* The vectors as sequences.                                               *)

\* Of buffers f, sizes l and memory mm, the elements of every vector.
Rows(f, l, mm) == [o \in Vecs |-> [i \in 1 .. l[o] |-> mm[f[o]][i]]]

\* x gets e at position i, as SequencesExt defines it.
InsertedAt(x, i, e) == SubSeq(x, 1, i - 1) \o << e >> \o SubSeq(x, i, Len(x))

\* The caller's values and the elements of the sequences x.
Held(x) == Vals \cup UNION {{x[p][i] : i \in DOMAIN x[p]} : p \in Vecs}

\* What SequenceAbs allows a step to do, from the sequences x to y.
Appends(x, y) ==
    \E o \in Vecs : \E v \in Held(x) : y = [x EXCEPT ![o] = Append(x[o], v)]
AppendsMoved(x, y) ==
    \E o, p \in Vecs : \E i \in DOMAIN x[p] : \E z :
      /\ z = [x EXCEPT ![p] = [x[p] EXCEPT ![i] = Moved]]
      /\ y = [z EXCEPT ![o] = Append(z[o], x[p][i])]
Inserts(x, y) ==
    \E o \in Vecs : \E v \in Held(x) : \E i \in 1 .. Len(x[o]) + 1 :
      y = [x EXCEPT ![o] = InsertedAt(x[o], i, v)]
Moves(x, y) ==
    \E o, p \in Vecs : o # p /\ y = [x EXCEPT ![o] = x[p], ![p] = << >>]
Clones(x, y) == \E o, p \in Vecs : y = [x EXCEPT ![p] = x[o]]
Clears(x, y) == \E o \in Vecs : y = [x EXCEPT ![o] = << >>]

SequenceStep(x, y) ==
    \/ y = x
    \/ Appends(x, y) \/ AppendsMoved(x, y) \/ Inserts(x, y)
    \/ Moves(x, y) \/ Clones(x, y) \/ Clears(x, y)

\* Element i of p was moved from; a value is put behind the elements of o.
ShellLeft(x, p, i, z) == z = [x EXCEPT ![p] = [x[p] EXCEPT ![i] = Moved]]
PutBehind(z, o, v, y) == y = [z EXCEPT ![o] = Append(z[o], v)]

LEMMA MovedAppend ==
    ASSUME NEW x, NEW y, NEW z, NEW o \in Vecs, NEW p \in Vecs, NEW i, i \in DOMAIN x[p],
           ShellLeft(x, p, i, z), PutBehind(z, o, x[p][i], y)
    PROVE  AppendsMoved(x, y)
<1>1. \E w : /\ w = [x EXCEPT ![p] = [x[p] EXCEPT ![i] = Moved]]
             /\ y = [w EXCEPT ![o] = Append(w[o], x[p][i])]
  BY DEF ShellLeft, PutBehind
<1> QED BY <1>1, Zenon DEF AppendsMoved

LEMMA AppendedRow ==
    ASSUME NEW S, NEW n \in Nat, NEW a, \A i \in 1 .. n : a[i] \in S, NEW v \in S,
           NEW y, \A i \in 1 .. n : y[i] = a[i], y[n + 1] = v
    PROVE  [i \in 1 .. n + 1 |-> y[i]] = Append([i \in 1 .. n |-> a[i]], v)
<1>1. PICK s : s = [i \in 1 .. n |-> a[i]]
  OBVIOUS
<1>2. s \in Seq(S) /\ Len(s) = n /\ \A i \in 1 .. n : s[i] = a[i]
  BY <1>1
<1>3. PICK t : t = Append(s, v)
  OBVIOUS
<1>4. /\ t \in Seq(S) /\ Len(t) = n + 1 /\ t[n + 1] = v
      /\ \A i \in 1 .. n : t[i] = s[i]
  BY <1>2, <1>3
<1>5. t = [i \in 1 .. n + 1 |-> t[i]]
  BY <1>4
<1>6. \A i \in 1 .. n + 1 : i \in 1 .. n \/ i = n + 1
  OBVIOUS
<1>7. \A i \in 1 .. n + 1 : t[i] = y[i]
  BY <1>2, <1>4, <1>6
<1> QED BY <1>1, <1>3, <1>5, <1>7

\* Row y has the n elements of a, and v at position k before the others.
PutAt(a, n, k, v, y) ==
    /\ y[k] = v /\ \A i \in 1 .. k - 1 : y[i] = a[i]
    /\ \A i \in k + 1 .. n + 1 : y[i] = a[i - 1]
IsInserted(a, n, k, v, y) ==
    [i \in 1 .. n + 1 |-> y[i]] = InsertedAt([i \in 1 .. n |-> a[i]], k, v)

LEMMA InsertedRow ==
    ASSUME NEW S, NEW n \in Nat, NEW a, \A i \in 1 .. n : a[i] \in S, NEW v \in S,
           NEW k \in 1 .. n + 1, NEW y, PutAt(a, n, k, v, y)
    PROVE  IsInserted(a, n, k, v, y)
<1>0. /\ y[k] = v /\ \A i \in 1 .. k - 1 : y[i] = a[i]
      /\ \A i \in k + 1 .. n + 1 : y[i] = a[i - 1]
  BY DEF PutAt
<1>1. PICK s : s = [i \in 1 .. n |-> a[i]]
  OBVIOUS
<1>2. s \in Seq(S) /\ Len(s) = n /\ \A i \in 1 .. n : s[i] = a[i]
  BY <1>1
<1>3. PICK u, w : u = SubSeq(s, 1, k - 1) /\ w = SubSeq(s, k, n)
  OBVIOUS
<1>4. u \in Seq(S) /\ Len(u) = k - 1 /\ \A i \in 1 .. k - 1 : u[i] = s[i]
  BY <1>2, <1>3
<1>m. PICK m \in Nat : n + 1 = k + m
  <2>1. (n + 1) - k \in Nat /\ n + 1 = k + ((n + 1) - k)
    OBVIOUS
  <2> QED BY <2>1
<1>5. w \in Seq(S) /\ Len(w) = m /\ \A i \in 1 .. m : w[i] = s[(k + i) - 1]
  BY <1>2, <1>3, <1>m
<1>6. PICK u2 : u2 = u \o << v >>
  OBVIOUS
<1>7. /\ u2 \in Seq(S) /\ Len(u2) = k /\ u2[k] = v /\ \A i \in 1 .. k - 1 : u2[i] = u[i]
  BY <1>4, <1>6
<1>8. PICK t : t = u2 \o w
  OBVIOUS
<1>9. /\ t \in Seq(S) /\ Len(t) = k + m /\ \A i \in 1 .. k : t[i] = u2[i]
      /\ \A i \in 1 .. m : t[k + i] = w[i]
  <2>1. /\ u2 \o w \in Seq(S) /\ Len(u2 \o w) = Len(u2) + Len(w)
        /\ \A i \in 1 .. Len(u2) + Len(w) :
             (u2 \o w)[i] = IF i <= Len(u2) THEN u2[i] ELSE w[i - Len(u2)]
    BY <1>5, <1>7, ConcatProperties
  <2>2. /\ t \in Seq(S) /\ Len(t) = k + m
        /\ \A i \in 1 .. k + m : t[i] = IF i <= k THEN u2[i] ELSE w[i - k]
    BY <1>5, <1>7, <1>8, <2>1
  <2>3. ASSUME NEW i \in 1 .. m PROVE k + i \in 1 .. k + m /\ ~(k + i <= k) /\ (k + i) - k = i
    OBVIOUS
  <2>4. \A i \in 1 .. k : i \in 1 .. k + m /\ i <= k
    OBVIOUS
  <2> QED BY <2>2, <2>3, <2>4
<1>10. t = [i \in 1 .. n + 1 |-> t[i]]
  BY <1>m, <1>9
<1>11. ASSUME NEW i \in 1 .. n + 1 PROVE t[i] = y[i]
  <2>1. CASE i \in 1 .. k - 1
    <3>1. t[i] = u2[i] /\ u2[i] = u[i] /\ u[i] = s[i] /\ s[i] = a[i]
      BY <1>2, <1>4, <1>7, <1>9, <2>1
    <3> QED BY <1>0, <2>1, <3>1
  <2>2. CASE i = k
    BY <1>0, <1>7, <1>9, <2>2
  <2>3. CASE i \in k + 1 .. n + 1
    <3>1. PICK j \in 1 .. m : i = k + j
      <4>1. i - k \in 1 .. m /\ i = k + (i - k)
        BY <1>m, <2>3
      <4> QED BY <4>1
    <3>2. t[i] = w[j] /\ w[j] = s[(k + j) - 1]
      BY <1>5, <1>9, <3>1
    <3>3. (k + j) - 1 = i - 1 /\ i - 1 \in 1 .. n
      BY <1>m, <3>1
    <3>4. y[i] = a[i - 1]
      BY <1>0, <2>3
    <3> QED BY <1>2, <3>2, <3>3, <3>4
  <2> QED BY <2>1, <2>2, <2>3
<1>12. InsertedAt(s, k, v) = t
  BY <1>2, <1>3, <1>6, <1>8 DEF InsertedAt
<1> QED BY <1>1, <1>10, <1>11, <1>12 DEF IsInserted

LEMMA InsertsOne ==
    ASSUME NEW x, NEW y, NEW o \in Vecs, NEW v \in Held(x), NEW i \in 1 .. Len(x[o]) + 1,
           y = [x EXCEPT ![o] = InsertedAt(x[o], i, v)]
    PROVE  Inserts(x, y)
BY Zenon DEF Inserts

\* From mm to mm2, only the buffer of vector o, its inline buffer and b, NULL
\* or a free block, may have changed.
Touches(f, o, b, mm, mm2) ==
    /\ b = NULL \/ (b \in Blocks /\ mm[b] = << >>)
    /\ \A x \in Buffers : x \in {f[o], o, b} \/ mm2[x] = mm[x]

\* Writing the buffers of vector o, its own inline one, or a free block does
\* not disturb the elements of another vector.
LEMMA RowKept ==
    ASSUME ConstantsOK, NEW f, NEW l, NEW e, NEW mm, NEW c, Good(f, l, e, mm, c),
           NEW o \in Vecs, NEW b, NEW mm2, Touches(f, o, b, mm, mm2),
           NEW q \in Vecs, q # o, NEW i \in 1 .. l[q]
    PROVE  f[q] # NULL /\ mm2[f[q]] = mm[f[q]]
<1>1. f[q] # NULL
  BY DEF Good
<1>2. /\ f[q] \in Buffers /\ e[q] \in Nat /\ (f[q] = q \/ f[q] \in Blocks)
      /\ (f[q] \in Blocks => e[q] >= 1) /\ Fills(mm[f[q]], l[q], e[q])
  BY <1>1, GoodMeans
<1>3. f[q] # f[o]
  BY <1>1 DEF Good
<1>4. f[q] # o
  BY <1>2 DEF ConstantsOK
<1>5. f[q] # b
  <2>1. f[q] \in Blocks => mm[f[q]] # << >>
    BY <1>2, BlockNotEmpty DEF Fills
  <2> QED BY <1>1, <2>1 DEF Touches
<1> QED BY <1>1, <1>2, <1>3, <1>4, <1>5 DEF Touches


\* Vector o has k elements in buffer a afterwards, and the others what they had.
Replaced(f, l, o, a, k, mm, mm2) ==
    Rows([f EXCEPT ![o] = a], [l EXCEPT ![o] = k], mm2)
      = [Rows(f, l, mm) EXCEPT ![o] = [i \in 1 .. k |-> mm2[a][i]]]

LEMMA RowReplaced ==
    ASSUME ConstantsOK, NEW f, NEW l, NEW e, NEW mm, NEW c, Good(f, l, e, mm, c),
           NEW o \in Vecs, NEW b, NEW mm2, Touches(f, o, b, mm, mm2),
           NEW a, NEW k
    PROVE  Replaced(f, l, o, a, k, mm, mm2)
<1>s. PICK s : s = [i \in 1 .. k |-> mm2[a][i]]
  OBVIOUS
<1>1. f \in [Vecs -> Buffers \cup {NULL}] /\ l \in [Vecs -> Nat]
  BY DEF Good
<1>0. PICK f2, l2 : f2 = [f EXCEPT ![o] = a] /\ l2 = [l EXCEPT ![o] = k]
  OBVIOUS
<1>2. PICK x, y : x = Rows(f, l, mm) /\ y = Rows(f2, l2, mm2)
  OBVIOUS
<1>3. f2[o] = a /\ l2[o] = k /\ \A q \in Vecs : q # o => f2[q] = f[q] /\ l2[q] = l[q]
  BY <1>0, <1>1
<1>4. y[o] = s
  BY <1>s, <1>2, <1>3 DEF Rows
<1>5. ASSUME NEW q \in Vecs, q # o PROVE y[q] = x[q]
  <2>1. ASSUME NEW i \in 1 .. l[q] PROVE mm2[f[q]][i] = mm[f[q]][i]
    BY <1>5, RowKept
  <2> QED BY <1>2, <1>3, <1>5, <2>1 DEF Rows
<1>6. x = [q \in Vecs |-> x[q]] /\ y = [q \in Vecs |-> y[q]]
  BY <1>2 DEF Rows
<1>7. y = [x EXCEPT ![o] = s]
  BY <1>4, <1>5, <1>6
<1> QED BY <1>s, <1>0, <1>2, <1>7 DEF Replaced

\* The vectors' contents are these rows.
LEMMA ContentsAreRows == ConstantsOK /\ VInv => Contents = Rows(m_First, m_Last, mem)
<1> SUFFICES ASSUME ConstantsOK, VInv PROVE Contents = Rows(m_First, m_Last, mem)
  OBVIOUS
<1>1. ASSUME NEW o \in Vecs, o \in Alive
      PROVE  Elements(o) = [i \in 1 .. m_Last[o] |-> mem[m_First[o]][i]]
  <2>1. PICK s, n, cap : s = mem[m_First[o]] /\ n = m_Last[o] /\ cap = m_End[o]
    OBVIOUS
  <2>2. n \in Nat /\ cap \in Nat /\ Fills(s, n, cap)
    BY <1>1, <2>1, GoodMeans DEF VInv, Alive
  <2>3. s \in [1 .. cap -> Cells] /\ n <= cap
    BY <2>2 DEF Fills, Buffer
  <2>4. s \in Seq(Cells) /\ Len(s) = cap
    BY <2>2, <2>3
  <2>5. PICK t : t = SubSeq(s, 1, n)
    OBVIOUS
  <2>6. t \in Seq(Cells) /\ Len(t) = n /\ \A i \in 1 .. n : t[i] = s[i]
    BY <2>2, <2>3, <2>4, <2>5
  <2>7. t = [i \in 1 .. n |-> s[i]]
    BY <2>6
  <2> QED BY <2>1, <2>5, <2>7 DEF Elements
<1>2. ASSUME NEW o \in Vecs, o \notin Alive PROVE << >> = [i \in 1 .. m_Last[o] |-> mem[m_First[o]][i]]
  <2>1. m_Last[o] = 0
    BY <1>2 DEF VInv, Good, Alive
  <2> QED BY <2>1
<1> QED BY <1>1, <1>2 DEF Contents, Rows

\* The memory parts of the operations, cell by cell.
LEMMA DestroyedOnly ==
    ASSUME NEW mm, Memory(mm), NEW b \in Buffers, NEW n
    PROVE  /\ Memory(DestroyCells(mm, b, n))
           /\ \A x \in Buffers : x # b => DestroyCells(mm, b, n)[x] = mm[x]
           /\ DOMAIN DestroyCells(mm, b, n)[b] = DOMAIN mm[b]
<1>1. PICK y : y = [i \in DOMAIN mm[b] |-> IF i <= n THEN Destroyed(mm[b][i]) ELSE mm[b][i]]
  OBVIOUS
<1>2. DestroyCells(mm, b, n) = [mm EXCEPT ![b] = y]
  BY <1>1 DEF DestroyCells
<1>3. Stored(mm, b, y, DestroyCells(mm, b, n))
  <2>1. Stored(mm, b, y, [mm EXCEPT ![b] = y])
    BY StoredFacts
  <2> QED BY <1>2, <2>1
<1> QED BY <1>1, <1>3 DEF Stored

LEMMA FreedOnly ==
    ASSUME NEW mm, Memory(mm), NEW a \in Buffers, NEW o
    PROVE  Memory(Freed(mm, o, a)) /\ \A x \in Buffers : x # a => Freed(mm, o, a)[x] = mm[x]
<1>1. CASE a # o
  <2>1. Stored(mm, a, << >>, [mm EXCEPT ![a] = << >>])
    BY StoredFacts
  <2> QED BY <1>1, <2>1 DEF Freed, Stored
<1>2. CASE a = o
  BY <1>2 DEF Freed
<1> QED BY <1>1, <1>2

\* mm2 is mm with n cells moved from buffer a to the new cells w of buffer b.
GrownTo(mm, a, b, n, w, mm2) ==
    /\ Memory(mm2) /\ \A x \in Buffers : x \in {a, b} \/ mm2[x] = mm[x]
    /\ mm2[b] = [i \in DOMAIN w |-> IF i <= n THEN mm[a][i] ELSE w[i]]

LEMMA MigratedCells ==
    ASSUME NEW mm, Memory(mm), NEW a \in Buffers, NEW b \in Buffers, a # b, NEW n
    PROVE  GrownTo(mm, a, b, n, mm[b], Migrate(mm, a, n, b))
<1>1. PICK y : y = [i \in DOMAIN mm[b] |-> IF i <= n THEN mm[a][i] ELSE mm[b][i]]
  OBVIOUS
<1>2. PICK m1 : m1 = [mm EXCEPT ![b] = y]
  OBVIOUS
<1>3. Stored(mm, b, y, m1)
  BY <1>2, StoredFacts
<1>4. Memory(m1) /\ m1[b] = y /\ \A x \in Buffers : x # b => m1[x] = mm[x]
  BY <1>3 DEF Stored
<1>5. Migrate(mm, a, n, b) = DestroyCells(m1, a, n)
  BY <1>1, <1>2 DEF Migrate
<1>6. Memory(DestroyCells(m1, a, n)) /\ \A x \in Buffers : x # a => DestroyCells(m1, a, n)[x] = m1[x]
  BY <1>4, DestroyedOnly
<1> QED BY <1>1, <1>4, <1>5, <1>6 DEF GrownTo

LEMMA GrownCells ==
    ASSUME NEW mm, Memory(mm), NEW a \in Buffers, NEW b \in Buffers, a # b, NEW n, NEW w, NEW o
    PROVE  GrownTo(mm, a, b, n, w, Freed(Migrate([mm EXCEPT ![b] = w], a, n, b), o, a))
<1>0. PICK mm2 : mm2 = Freed(Migrate([mm EXCEPT ![b] = w], a, n, b), o, a)
  OBVIOUS
<1>1. PICK m1 : m1 = [mm EXCEPT ![b] = w]
  OBVIOUS
<1>2. Stored(mm, b, w, m1)
  BY <1>1, StoredFacts
<1>3. Memory(m1) /\ m1[b] = w /\ \A x \in Buffers : x # b => m1[x] = mm[x]
  BY <1>2 DEF Stored
<1>4. PICK m2 : m2 = Migrate(m1, a, n, b)
  OBVIOUS
<1>5. /\ Memory(m2) /\ \A x \in Buffers : x \in {a, b} \/ m2[x] = m1[x]
      /\ m2[b] = [i \in DOMAIN m1[b] |-> IF i <= n THEN m1[a][i] ELSE m1[b][i]]
  BY <1>3, <1>4, MigratedCells DEF GrownTo
<1>6. Memory(mm2) /\ \A x \in Buffers : x # a => mm2[x] = m2[x]
  <2>1. mm2 = Freed(m2, o, a)
    BY <1>0, <1>1, <1>4
  <2>2. Memory(Freed(m2, o, a)) /\ \A x \in Buffers : x # a => Freed(m2, o, a)[x] = m2[x]
    BY <1>5, FreedOnly
  <2> QED BY <2>1, <2>2
<1> QED BY <1>0, <1>3, <1>5, <1>6 DEF GrownTo

\* A step takes the sequences to ones that SequenceAbs allows next.
Steps == SequenceStep(Rows(m_First, m_Last, mem), Rows(m_First', m_Last', mem'))

LEMMA StutterSteps == UNCHANGED vars => Steps
BY DEF Steps, SequenceStep, vars

\* A vector is constructed, cleared or destructed.
LEMMA EmptiedSteps ==
    ASSUME ConstantsOK, VInv, NEW o \in Vecs, NEW a,
           \A x \in Buffers : x \in {m_First[o], o} \/ mem'[x] = mem[x],
           m_First' = [m_First EXCEPT ![o] = a], m_Last' = [m_Last EXCEPT ![o] = 0]
    PROVE  Steps
<1>1. PICK x, y, s : /\ x = Rows(m_First, m_Last, mem) /\ y = Rows(m_First', m_Last', mem')
                     /\ s = [i \in 1 .. 0 |-> mem'[a][i]]
  OBVIOUS
<1>2. y = [x EXCEPT ![o] = s]
  <2>0. PICK mm2, k : mm2 = mem' /\ k = 0
    OBVIOUS
  <2>1. Touches(m_First, o, NULL, mem, mm2) /\ s = [i \in 1 .. k |-> mm2[a][i]]
    BY <1>1, <2>0 DEF Touches
  <2>2. Replaced(m_First, m_Last, o, a, k, mem, mm2)
    BY <2>1, RowReplaced DEF VInv
  <2> QED BY <1>1, <2>0, <2>1, <2>2 DEF Replaced
<1>3. s = << >>
  BY <1>1
<1>4. y = [x EXCEPT ![o] = << >>]
  BY <1>2, <1>3
<1>5. SequenceStep(x, y)
  BY <1>4 DEF SequenceStep, Clears
<1> QED BY <1>1, <1>5 DEF Steps

LEMMA ConstructSteps ==
    ASSUME ConstantsOK, VInv, NEW o \in Vecs, Construct(o) PROVE Steps
BY EmptiedSteps DEF Construct, SetVector

LEMMA DestroyedOf ==
    ASSUME ConstantsOK, VInv, NEW o \in Alive
    PROVE  /\ o \in Vecs /\ m_First[o] \in Buffers
           /\ Memory(DestroyCells(mem, m_First[o], m_Last[o]))
           /\ \A x \in Buffers :
                x # m_First[o] => DestroyCells(mem, m_First[o], m_Last[o])[x] = mem[x]
           /\ DOMAIN DestroyCells(mem, m_First[o], m_Last[o])[m_First[o]] = DOMAIN mem[m_First[o]]
<1>1. o \in Vecs /\ m_First[o] # NULL
  BY DEF Alive
<1>2. m_First[o] \in Buffers /\ Memory(mem)
  BY <1>1, GoodMeans, VectorsTyped DEF VInv
<1> QED BY <1>1, <1>2, DestroyedOnly

LEMMA ClearSteps ==
    ASSUME ConstantsOK, VInv, NEW o \in Alive, Clear(o) PROVE Steps
<1>1. o \in Vecs /\ \A x \in Buffers : x # m_First[o] => mem'[x] = mem[x]
  BY DestroyedOf DEF Clear
<1>2. m_First' = [m_First EXCEPT ![o] = m_First[o]] /\ m_Last' = [m_Last EXCEPT ![o] = 0]
  BY VectorsTyped DEF Clear
<1> QED BY <1>1, <1>2, EmptiedSteps

LEMMA DestructSteps ==
    ASSUME ConstantsOK, VInv, NEW o \in Alive, Destruct(o) PROVE Steps
<1>1. PICK mm, a : mm = DestroyCells(mem, m_First[o], m_Last[o]) /\ a = m_First[o]
  OBVIOUS
<1>2. o \in Vecs /\ a \in Buffers /\ Memory(mm) /\ \A x \in Buffers : x # a => mm[x] = mem[x]
  BY <1>1, DestroyedOf
<1>3. mem' = Freed(mm, o, a)
  BY <1>1, ReleaseFreed DEF Destruct
<1>4. \A x \in Buffers : x # a => mem'[x] = mem[x]
  BY <1>2, <1>3, FreedOnly
<1>5. m_First' = [m_First EXCEPT ![o] = NULL] /\ m_Last' = [m_Last EXCEPT ![o] = 0]
  BY DEF Destruct, SetVector
<1> QED BY <1>1, <1>2, <1>4, <1>5, EmptiedSteps

\* What Reserve copies to the free block b.
LEMMA ReservedCells ==
    ASSUME ConstantsOK, VInv, NEW o \in Alive, NEW b \in Free, NEW cap \in Nat, NEW n \in Nat,
           n <= cap, NEW mm, Memory(mm), NEW mm2, mm2 = Reserved(o, mm, n, b, cap)
    PROVE  /\ b \in Blocks /\ mem[b] = << >> /\ b # m_First[o]
           /\ \A x \in Buffers : x \in {m_First[o], b} \/ mm2[x] = mm[x]
           /\ Memory(mm2) /\ DOMAIN mm2[b] = 1 .. cap
           /\ \A i \in 1 .. n : mm2[b][i] = mm[m_First[o]][i]
<1>1. o \in Vecs /\ m_First[o] # NULL /\ b \in Blocks /\ mem[b] = << >> /\ b \in Buffers
  BY DEF Alive, Free, Buffers
<1>2. PICK a, w : a = m_First[o] /\ w = RawCells(cap)
  OBVIOUS
<1>3. /\ a \in Buffers /\ m_End[o] \in Nat /\ Fills(mem[a], m_Last[o], m_End[o])
      /\ a \in Blocks => m_End[o] >= 1
  BY <1>1, <1>2, GoodMeans DEF VInv
<1>4. a # b
  BY <1>1, <1>3, BlockNotEmpty DEF Fills
<1>5. mm2 = Freed(Migrate([mm EXCEPT ![b] = w], a, n, b), o, a)
  BY <1>2, ReleaseFreed DEF Reserved, Allocate
<1>6. /\ Memory(mm2) /\ \A x \in Buffers : x \in {a, b} \/ mm2[x] = mm[x]
      /\ mm2[b] = [i \in DOMAIN w |-> IF i <= n THEN mm[a][i] ELSE w[i]]
  <2>1. GrownTo(mm, a, b, n, w, Freed(Migrate([mm EXCEPT ![b] = w], a, n, b), o, a))
    BY <1>1, <1>3, <1>4, GrownCells
  <2> QED BY <1>5, <2>1 DEF GrownTo
<1>7. DOMAIN w = 1 .. cap
  BY <1>2 DEF RawCells
<1>8. DOMAIN mm2[b] = 1 .. cap /\ \A i \in 1 .. n : mm2[b][i] = mm[a][i]
  BY <1>6, <1>7
<1> QED BY <1>1, <1>2, <1>4, <1>6, <1>8

LEMMA ReserveSteps ==
    ASSUME ConstantsOK, VInv, NEW o \in Alive, NEW n \in Requests, Reserve(o, n) PROVE Steps
<1>1. CASE UNCHANGED vars
  BY <1>1, StutterSteps
<1>2. CASE /\ n > m_End[o]
           /\ \E b \in Free : /\ mem' = Reserved(o, mem, m_Last[o], b, n)
                              /\ SetVector(o, b, m_Last[o], n)
  <2>1. PICK b \in Free : mem' = Reserved(o, mem, m_Last[o], b, n) /\ SetVector(o, b, m_Last[o], n)
    BY <1>2
  <2>2. o \in Vecs /\ m_First[o] # NULL
    BY DEF Alive
  <2>3. PICK k \in Nat : k = m_Last[o] /\ n \in Nat /\ k <= n
    <3>1. m_Last[o] \in Nat /\ m_End[o] \in Nat /\ m_Last[o] <= m_End[o] /\ n \in Nat
      BY <2>2, GoodMeans DEF VInv, Fills, ConstantsOK
    <3> QED BY <1>2, <3>1
  <2>4. /\ b \in Blocks /\ mem[b] = << >>
        /\ \A x \in Buffers : x \in {m_First[o], b} \/ mem'[x] = mem[x]
        /\ \A i \in 1 .. k : mem'[b][i] = mem[m_First[o]][i]
    <3>1. Memory(mem) /\ mem' = Reserved(o, mem, k, b, n)
      BY <2>1, <2>3, VectorsTyped
    <3> QED BY <2>3, <3>1, ReservedCells
  <2>5. PICK x, y, s : /\ x = Rows(m_First, m_Last, mem) /\ y = Rows(m_First', m_Last', mem')
                       /\ s = [i \in 1 .. k |-> mem'[b][i]]
    OBVIOUS
  <2>6. m_First' = [m_First EXCEPT ![o] = b] /\ m_Last' = [m_Last EXCEPT ![o] = k]
    BY <2>1, <2>3 DEF SetVector
  <2>7. y = [x EXCEPT ![o] = s]
    <3>0. PICK mm2 : mm2 = mem'
      OBVIOUS
    <3>1. Touches(m_First, o, b, mem, mm2) /\ s = [i \in 1 .. k |-> mm2[b][i]]
      BY <2>4, <2>5, <3>0 DEF Touches
    <3>2. Replaced(m_First, m_Last, o, b, k, mem, mm2)
      BY <2>2, <3>1, RowReplaced DEF VInv
    <3> QED BY <2>5, <2>6, <3>0, <3>1, <3>2 DEF Replaced
  <2>8. s = x[o] /\ x = [q \in Vecs |-> x[q]]
    BY <2>2, <2>3, <2>4, <2>5 DEF Rows
  <2>9. y = x
    BY <2>2, <2>7, <2>8
  <2> QED BY <2>5, <2>9 DEF Steps, SequenceStep
<1> QED BY <1>1, <1>2 DEF Reserve, Fails

-----------------------------------------------------------------------------
(* Elements are added.                                                     *)

LEMMA ArgHeld ==
    ASSUME ConstantsOK, VInv, NEW r \in Args, IsArg(r), NEW x, x = Rows(m_First, m_Last, mem)
    PROVE  /\ Read(mem, r) \in Held(x)
           /\ r.b # NULL => \E p \in Vecs : /\ m_First[p] = r.b /\ m_First[p] # NULL
                                            /\ r.i \in 1 .. m_Last[p]
                                            /\ Read(mem, r) = x[p][r.i] /\ x[p][r.i] \in Full
<1>1. CASE r.b = NULL
  <2>1. r.v \in Vals
    <3>1. CASE r \in {[b |-> NULL, v |-> v, i |-> 0] : v \in Vals}
      BY <3>1
    <3>2. ASSUME NEW o \in Alive, NEW i \in 1 .. MaxCapacity, r = [b |-> m_First[o], v |-> Raw, i |-> i]
          PROVE  FALSE
      BY <1>1, <3>2 DEF Alive
    <3> QED BY <3>1, <3>2 DEF Args
  <2> QED BY <1>1, <2>1 DEF Read, Held
<1>2. CASE r.b # NULL
  <2>1. PICK p \in Alive : m_First[p] = r.b /\ r.i \in 1 .. m_Last[p]
    BY <1>2, ArgsValid
  <2>2. p \in Vecs /\ m_First[p] # NULL
    BY <2>1 DEF Alive
  <2>3. Fills(mem[r.b], m_Last[p], m_End[p])
    BY <2>1, <2>2, GoodMeans DEF VInv
  <2>4. r.i \in DOMAIN mem[r.b] /\ mem[r.b][r.i] \in Full
    <3>1. PICK u, n, cap, j : u = mem[r.b] /\ n = m_Last[p] /\ cap = m_End[p] /\ j = r.i
      OBVIOUS
    <3>2. n \in Nat /\ cap \in Nat /\ n <= cap /\ u \in [1 .. cap -> Cells] /\ j \in 1 .. n
          /\ \A i \in 1 .. n : u[i] \in Full
      BY <2>1, <2>2, <2>3, <3>1, VectorsTyped DEF Fills, Buffer
    <3>3. j \in DOMAIN u /\ u[j] \in Full
      BY <3>2
    <3> QED BY <3>1, <3>3
  <2>5. x[p] = [i \in 1 .. m_Last[p] |-> mem[m_First[p]][i]]
    BY <2>2 DEF Rows
  <2>6. x[p][r.i] = mem[r.b][r.i] /\ r.i \in DOMAIN x[p]
    BY <2>1, <2>5
  <2>7. Read(mem, r) = x[p][r.i]
    BY <1>2, <2>4, <2>6 DEF Read
  <2>8. x[p][r.i] \in Held(x)
    BY <2>2, <2>6 DEF Held
  <2> QED BY <2>1, <2>2, <2>4, <2>6, <2>7, <2>8
<1> QED BY <1>1, <1>2

\* One more element at the end, whatever buffer they are in then, from a
\* memory in which the argument was already consumed.
AppendedTo(f, l, o, a, n, v, mm, mm2) ==
    Rows([f EXCEPT ![o] = a], [l EXCEPT ![o] = n + 1], mm2)
      = [Rows(f, l, mm) EXCEPT ![o] = Append(Rows(f, l, mm)[o], v)]

LEMMA RowAppended ==
    ASSUME ConstantsOK, NEW f, NEW l, NEW e, NEW mm, NEW c, Good(f, l, e, mm, c),
           NEW o \in Vecs, f[o] # NULL, NEW b, NEW mm2, Touches(f, o, b, mm, mm2),
           NEW a, NEW n, n = l[o], NEW v \in Full, mm2[a][n + 1] = v,
           \A i \in 1 .. n : mm2[a][i] = mm[f[o]][i]
    PROVE  AppendedTo(f, l, o, a, n, v, mm, mm2)
<1>z. PICK z : z = Rows(f, l, mm)
  OBVIOUS
<1>1. n \in Nat /\ Fills(mm[f[o]], n, e[o])
  BY GoodMeans
<1>2. PICK y, u, k, s : y = mm2[a] /\ u = mm[f[o]] /\ k = n + 1 /\ s = [i \in 1 .. k |-> mm2[a][i]]
  OBVIOUS
<1>3. Rows([f EXCEPT ![o] = a], [l EXCEPT ![o] = k], mm2) = [Rows(f, l, mm) EXCEPT ![o] = s]
  <2>1. Replaced(f, l, o, a, k, mm, mm2)
    BY RowReplaced
  <2> QED BY <1>2, <2>1 DEF Replaced
<1>4. \A i \in 1 .. n : u[i] \in Full
  BY <1>1, <1>2 DEF Fills
<1>5. \A i \in 1 .. n : y[i] = u[i]
  BY <1>2
<1>6. [i \in 1 .. n + 1 |-> y[i]] = Append([i \in 1 .. n |-> u[i]], v)
  BY <1>1, <1>2, <1>4, <1>5, AppendedRow
<1>7. z[o] = [i \in 1 .. n |-> u[i]]
  BY <1>z, <1>2 DEF Rows
<1>8. s = Append(z[o], v)
  BY <1>2, <1>6, <1>7
<1> QED BY <1>z, <1>2, <1>3, <1>8 DEF AppendedTo

\* The argument is consumed and its value appended: what SequenceAbs calls
\* AAppend, or AAppendMoved of an element that is left as a shell.
LEMMA ArgAppended ==
    ASSUME ConstantsOK, VInv, NEW r \in Args, IsArg(r), NEW consumed, NEW o \in Vecs,
           NEW mm, mm = AfterRead(mem, r, consumed), NEW v, v = Read(mem, r),
           NEW x, x = Rows(m_First, m_Last, mem), NEW z, z = Rows(m_First, m_Last, mm),
           NEW y, y = [z EXCEPT ![o] = Append(z[o], v)]
    PROVE  SequenceStep(x, y)
<1>1. CASE mm = mem
  <2>1. v \in Held(x) /\ z = x
    BY <1>1, ArgHeld
  <2> QED BY <2>1 DEF SequenceStep, Appends
<1>2. CASE consumed /\ r.b # NULL
  <2>1. PICK p \in Vecs : /\ m_First[p] = r.b /\ m_First[p] # NULL /\ r.i \in 1 .. m_Last[p]
                          /\ v = x[p][r.i]
    BY <1>2, ArgHeld
  <2>2. PICK a, u, i, n : a = r.b /\ u = mem[a] /\ i = r.i /\ n = m_Last[p]
    OBVIOUS
  <2>3. a \in Buffers /\ Fills(u, n, m_End[p]) /\ Memory(mem) /\ n \in Nat /\ m_End[p] \in Nat
    BY <2>1, <2>2, GoodMeans, VectorsTyped DEF VInv
  <2>4. PICK w : w = [u EXCEPT ![i] = LeftBehind(u[i])]
    OBVIOUS
  <2>5. mm = [mem EXCEPT ![a] = w]
    BY <1>2, <2>2, <2>4 DEF AfterRead
  <2>6. u = [j \in 1 .. m_End[p] |-> u[j]] /\ i \in 1 .. n /\ n <= m_End[p]
    BY <2>1, <2>2, <2>3 DEF Fills, Buffer
  <2>7. CASE TriviallyCopyable
    <3>1. w = u
      BY <2>4, <2>6, <2>7 DEF LeftBehind
    <3>2. mm = mem
      BY <2>2, <2>3, <2>5, <3>1 DEF Memory
    <3> QED BY <1>1, <3>2
  <2>8. CASE ~TriviallyCopyable
    <3>1. w = [u EXCEPT ![i] = Moved]
      BY <2>4, <2>8 DEF LeftBehind
    <3>2. Stored(mem, a, w, mm)
      <4>1. Stored(mem, a, w, [mem EXCEPT ![a] = w])
        BY <2>3, StoredFacts
      <4> QED BY <2>5, <4>1
    <3>3. Touches(m_First, p, NULL, mem, mm) /\ mm[a] = w
      BY <2>1, <2>2, <3>2 DEF Touches, Stored
    <3>4. PICK s : s = [j \in 1 .. n |-> mm[a][j]]
      OBVIOUS
    <3>5. Rows([m_First EXCEPT ![p] = a], [m_Last EXCEPT ![p] = n], mm)
            = [Rows(m_First, m_Last, mem) EXCEPT ![p] = s]
      <4>1. Replaced(m_First, m_Last, p, a, n, mem, mm)
        BY <3>3, RowReplaced DEF VInv
      <4> QED BY <3>4, <4>1 DEF Replaced
    <3>6. [m_First EXCEPT ![p] = a] = m_First /\ [m_Last EXCEPT ![p] = n] = m_Last
      BY <2>1, <2>2, VectorsTyped
    <3>7. z = [x EXCEPT ![p] = s]
      BY <3>5, <3>6
    <3>8. x[p] = [j \in 1 .. n |-> u[j]]
      BY <2>1, <2>2 DEF Rows
    <3>9. s = [x[p] EXCEPT ![i] = Moved]
      <4>1. DOMAIN u = 1 .. m_End[p] /\ \A j \in 1 .. n : j \in 1 .. m_End[p]
        BY <2>3, <2>6
      <4>2. \A j \in 1 .. n : w[j] = IF j = i THEN Moved ELSE u[j]
        BY <3>1, <4>1
      <4>3. s = [j \in 1 .. n |-> w[j]]
        BY <3>3, <3>4
      <4> HIDE DEF LeftBehind
      <4>4. [x[p] EXCEPT ![i] = Moved] = [j \in 1 .. n |-> IF j = i THEN Moved ELSE u[j]]
        BY <2>6, <3>8
      <4> QED BY <4>2, <4>3, <4>4
    <3>10. i \in DOMAIN x[p] /\ v = x[p][i]
      BY <2>1, <2>2, <2>6, <3>8
    <3>11. ShellLeft(x, p, i, z)
      BY <3>7, <3>9 DEF ShellLeft
    <3>12. PutBehind(z, o, x[p][i], y)
      BY <3>10 DEF PutBehind
    <3>13. AppendsMoved(x, y)
      BY <2>1, <3>10, <3>11, <3>12, MovedAppend
    <3> QED BY <3>13 DEF SequenceStep
  <2> QED BY <2>7, <2>8
<1>3. CASE ~(consumed /\ r.b # NULL)
  BY <1>1, <1>3 DEF AfterRead
<1> QED BY <1>2, <1>3


LEMMA EmplaceInPlaceSteps ==
    ASSUME ConstantsOK, VInv, NEW o \in Alive, NEW r \in Args, IsArg(r), NEW consumed,
           EmplaceInPlace(o, r, consumed)
    PROVE  Steps
<1>1. PICK mm, n, a, v : /\ mm = AfterRead(mem, r, consumed) /\ n = m_Last[o] /\ a = m_First[o]
                         /\ v = Read(mem, r)
  OBVIOUS
<1>2. Good(m_First, m_Last, m_End, mm, objects) /\ v \in Full
  BY <1>1, AfterReadGood, ArgsValid
<1>3. o \in Vecs /\ a # NULL /\ m_First[o] # NULL
  BY <1>1 DEF Alive
<1>4. /\ n \in Nat /\ m_End[o] \in Nat /\ Fills(mm[a], n, m_End[o]) /\ n < m_End[o]
      /\ a \in Buffers /\ Memory(mm)
  <2>1. /\ m_First[o] \in Buffers /\ m_Last[o] \in Nat /\ m_End[o] \in Nat
        /\ Fills(mm[m_First[o]], m_Last[o], m_End[o])
    BY <1>2, <1>3, GoodMeans
  <2>2. Memory(mm)
    BY <1>2 DEF Good
  <2>3. m_Last[o] < m_End[o]
    BY DEF EmplaceInPlace
  <2> QED BY <1>1, <2>1, <2>2, <2>3
<1>5. PICK w, mm2 : w = [mm[a] EXCEPT ![n + 1] = v] /\ mm2 = [mm EXCEPT ![a] = w]
  OBVIOUS
<1>6. w[n + 1] = v /\ \A i \in 1 .. n : w[i] = mm[a][i]
  <2>1. n + 1 \in 1 .. m_End[o] /\ \A i \in 1 .. n : i # n + 1 /\ i \in 1 .. m_End[o]
    BY <1>4
  <2>2. DOMAIN mm[a] = 1 .. m_End[o]
    BY <1>4 DEF Fills, Buffer
  <2> QED BY <1>5, <2>1, <2>2
<1>7. Stored(mm, a, w, mm2)
  <2>1. Stored(mm, a, w, [mm EXCEPT ![a] = w])
    BY <1>4, StoredFacts
  <2> QED BY <1>5, <2>1
<1>8. mm2[a] = w /\ Touches(m_First, o, NULL, mm, mm2)
  BY <1>1, <1>7 DEF Stored, Touches
<1>9. PICK x, z, y : /\ x = Rows(m_First, m_Last, mem) /\ z = Rows(m_First, m_Last, mm)
                     /\ y = [z EXCEPT ![o] = Append(z[o], v)]
  OBVIOUS
<1>10. Rows([m_First EXCEPT ![o] = a], [m_Last EXCEPT ![o] = n + 1], mm2) = y
  <2>1. mm2[a][n + 1] = v /\ \A i \in 1 .. n : mm2[a][i] = mm[m_First[o]][i]
    BY <1>1, <1>6, <1>8
  <2>2. AppendedTo(m_First, m_Last, o, a, n, v, mm, mm2)
    BY <1>1, <1>2, <1>3, <1>8, <2>1, RowAppended
  <2> QED BY <1>9, <2>2 DEF AppendedTo
<1>11. m_First' = [m_First EXCEPT ![o] = a] /\ m_Last' = [m_Last EXCEPT ![o] = n + 1] /\ mem' = mm2
  BY <1>1, <1>5, VectorsTyped DEF EmplaceInPlace
<1>12. SequenceStep(x, y)
  BY <1>1, <1>3, <1>9, ArgAppended
<1> QED BY <1>9, <1>10, <1>11, <1>12 DEF Steps

LEMMA GrowAndEmplaceSteps ==
    ASSUME ConstantsOK, VInv, NEW o \in Alive, NEW r \in Args, IsArg(r), NEW consumed,
           GrowAndEmplace(o, r, consumed)
    PROVE  Steps
<1>1. PICK mm, n, a, v : /\ mm = AfterRead(mem, r, consumed) /\ n = m_Last[o] /\ a = m_First[o]
                         /\ v = Read(mem, r)
  OBVIOUS
<1>2. Good(m_First, m_Last, m_End, mm, objects) /\ v \in Full
  BY <1>1, AfterReadGood, ArgsValid
<1>3. o \in Vecs /\ a # NULL /\ m_First[o] # NULL
  BY <1>1 DEF Alive
<1>4. /\ n \in Nat /\ m_End[o] \in Nat /\ Fills(mm[a], n, m_End[o]) /\ n <= m_End[o]
      /\ a \in Buffers /\ Memory(mm) /\ (a \in Blocks => m_End[o] >= 1)
  <2>1. /\ m_First[o] \in Buffers /\ m_Last[o] \in Nat /\ m_End[o] \in Nat
        /\ (m_First[o] \in Blocks => m_End[o] >= 1)
        /\ Fills(mm[m_First[o]], m_Last[o], m_End[o])
    BY <1>2, <1>3, GoodMeans
  <2>2. Memory(mm)
    BY <1>2 DEF Good
  <2>3. m_Last[o] <= m_End[o]
    BY <2>1 DEF Fills
  <2> QED BY <1>1, <2>1, <2>2, <2>3
<1>5. PICK cap \in Nat : cap = ComputeNextCapacity(m_End[o]) /\ n + 1 <= cap
  BY <1>4, CapacityGrows
<1>6. PICK b \in Free :
         /\ mem' = Release(Migrate([Allocate(mm, b, cap) EXCEPT ![b][n + 1] = v], a, n, b), o)
         /\ SetVector(o, b, n + 1, cap)
  BY <1>1, <1>5 DEF GrowAndEmplace
<1>7. b \in Blocks /\ mem[b] = << >> /\ b \in Buffers
  BY DEF Free, Buffers
<1>8. mm[b] = << >>
  <2>1. CASE consumed /\ r.b # NULL
    <3>1. PICK p \in Alive : m_First[p] = r.b /\ r.i \in 1 .. m_Last[p]
      BY <2>1, ArgsValid
    <3>2. /\ Fills(mem[r.b], m_Last[p], m_End[p]) /\ m_Last[p] \in Nat /\ m_End[p] \in Nat
          /\ r.b \in Blocks => m_End[p] >= 1
      BY <3>1, GoodMeans DEF VInv, Alive
    <3>3. r.b # b
      BY <1>7, <3>2, BlockNotEmpty DEF Fills
    <3> QED BY <1>1, <1>7, <3>3, VectorsTyped DEF AfterRead, Memory
  <2> QED BY <1>1, <1>7, <2>1 DEF AfterRead
<1>9. a # b
  BY <1>4, <1>7, <1>8, BlockNotEmpty DEF Fills
<1>10. PICK w : w = [RawCells(cap) EXCEPT ![n + 1] = v]
  OBVIOUS
<1>11. DOMAIN w = 1 .. cap /\ w[n + 1] = v /\ n + 1 \in 1 .. cap /\ \A i \in 1 .. n : i \in 1 .. cap
  BY <1>4, <1>5, <1>10 DEF RawCells
<1>12. [Allocate(mm, b, cap) EXCEPT ![b][n + 1] = v] = [mm EXCEPT ![b] = w]
  BY <1>2, <1>7, <1>10 DEF Allocate, Good, Memory
<1>13. PICK mm2 : mm2 = Freed(Migrate([mm EXCEPT ![b] = w], a, n, b), o, a)
  OBVIOUS
<1>14. GrownTo(mm, a, b, n, w, mm2)
  <2>1. GrownTo(mm, a, b, n, w, Freed(Migrate([mm EXCEPT ![b] = w], a, n, b), o, a))
    BY <1>4, <1>7, <1>9, GrownCells
  <2> QED BY <1>13, <2>1
<1>15. /\ \A x \in Buffers : x \in {a, b} \/ mm2[x] = mm[x]
       /\ mm2[b] = [i \in 1 .. cap |-> IF i <= n THEN mm[a][i] ELSE w[i]]
  BY <1>11, <1>14 DEF GrownTo
<1>16. mm2[b][n + 1] = v /\ \A i \in 1 .. n : mm2[b][i] = mm[m_First[o]][i]
  <2>1. ~(n + 1 <= n) /\ \A i \in 1 .. n : i <= n
    BY <1>4
  <2> QED BY <1>1, <1>11, <1>15, <2>1
<1>17. Touches(m_First, o, b, mm, mm2)
  BY <1>1, <1>7, <1>8, <1>15 DEF Touches
<1>18. PICK x, z, y : /\ x = Rows(m_First, m_Last, mem) /\ z = Rows(m_First, m_Last, mm)
                      /\ y = [z EXCEPT ![o] = Append(z[o], v)]
  OBVIOUS
<1>19. AppendedTo(m_First, m_Last, o, b, n, v, mm, mm2)
  BY <1>1, <1>2, <1>3, <1>16, <1>17, RowAppended
<1>20. m_First' = [m_First EXCEPT ![o] = b] /\ m_Last' = [m_Last EXCEPT ![o] = n + 1]
  BY <1>6 DEF SetVector
<1>21. mem' = mm2
  BY <1>1, <1>6, <1>12, <1>13, ReleaseFreed
<1>22. SequenceStep(x, y)
  BY <1>1, <1>3, <1>18, ArgAppended
<1> QED BY <1>18, <1>19, <1>20, <1>21, <1>22 DEF Steps, AppendedTo

\* The second half of Insert, after the elements are in buffer b.
LEMMA ShiftAndPutSteps ==
    ASSUME ConstantsOK, VInv, NEW o \in Alive, NEW index \in 1 .. m_Last[o] + 1, NEW v \in Full,
           v \in Held(Rows(m_First, m_Last, mem)), NEW mm, Memory(mm), NEW b \in Buffers,
           NEW h, Touches(m_First, o, h, mem, mm), b \in {m_First[o], h},
           \A i \in 1 .. m_Last[o] : mm[b][i] = mem[m_First[o]][i],
           NEW cap \in Nat, m_Last[o] < cap, DOMAIN mm[b] = 1 .. cap,
           ShiftAndPut(o, index, v, mm, b, cap)
    PROVE  Steps
<1>1. PICK n, u, w, mm2 : /\ n = m_Last[o] /\ u = mem[m_First[o]]
                          /\ w = Shifted(mm[b], index, v, n) /\ mm2 = [mm EXCEPT ![b] = w]
  OBVIOUS
<1>2. o \in Vecs /\ m_First[o] # NULL
  BY DEF Alive
<1>3. n \in Nat /\ Fills(u, n, m_End[o])
  BY <1>1, <1>2, GoodMeans DEF VInv
<1>4. \A i \in 1 .. n : mm[b][i] = u[i] /\ u[i] \in Full
  BY <1>1, <1>3 DEF Fills
<1>5. n < cap /\ index \in 1 .. n + 1 /\ index \in Nat
  BY <1>1, <1>3
<1>6. w[index] = v
  <2>1. index \in 1 .. cap
    BY <1>3, <1>5
  <2> QED BY <1>1, <2>1 DEF Shifted
<1>7. ASSUME NEW i \in 1 .. index - 1 PROVE w[i] = u[i]
  <2>1. i \in 1 .. cap /\ i \in 1 .. n /\ i # index /\ i \notin index + 1 .. n + 1
    BY <1>3, <1>5
  <2> QED BY <1>1, <1>4, <2>1 DEF Shifted
<1>8. ASSUME NEW i \in index + 1 .. n + 1 PROVE w[i] = u[i - 1]
  <2>1. i \in 1 .. cap /\ i - 1 \in 1 .. n /\ i # index
    BY <1>3, <1>5
  <2> QED BY <1>1, <1>4, <2>1 DEF Shifted
<1>9. mem' = mm2
  BY <1>1 DEF ShiftAndPut, Shifted
<1>10. m_First' = [m_First EXCEPT ![o] = b] /\ m_Last' = [m_Last EXCEPT ![o] = n + 1]
  BY <1>1 DEF ShiftAndPut, SetVector
<1>11. Stored(mm, b, w, mm2)
  <2>1. Stored(mm, b, w, [mm EXCEPT ![b] = w])
    BY StoredFacts
  <2> QED BY <1>1, <2>1
<1>12. mm2[b] = w /\ Touches(m_First, o, h, mem, mm2)
  BY <1>11 DEF Stored, Touches
<1>13. PICK x, y, k, s : /\ x = Rows(m_First, m_Last, mem) /\ y = Rows(m_First', m_Last', mem')
                         /\ k = n + 1 /\ s = [i \in 1 .. k |-> w[i]]
  OBVIOUS
<1>14. y = [x EXCEPT ![o] = s]
  <2>1. Replaced(m_First, m_Last, o, b, k, mem, mm2)
    BY <1>2, <1>12, RowReplaced DEF VInv
  <2> QED BY <1>9, <1>10, <1>12, <1>13, <2>1 DEF Replaced
<1>15. IsInserted(u, n, index, v, w)
  <2>1. PutAt(u, n, index, v, w)
    BY <1>6, <1>7, <1>8 DEF PutAt
  <2>2. \A i \in 1 .. n : u[i] \in Full
    BY <1>4
  <2> QED BY <1>3, <1>5, <2>1, <2>2, InsertedRow
<1>16. x[o] = [i \in 1 .. n |-> u[i]]
  BY <1>1, <1>2, <1>13 DEF Rows
<1>17. Len(x[o]) = n
  BY <1>3, <1>16
<1>18. y = [x EXCEPT ![o] = InsertedAt(x[o], index, v)]
  BY <1>13, <1>14, <1>15, <1>16 DEF IsInserted
<1>19. Inserts(x, y)
  <2>1. v \in Held(x) /\ index \in 1 .. Len(x[o]) + 1
    BY <1>5, <1>13, <1>17
  <2> QED BY <1>2, <1>18, <2>1, InsertsOne
<1> QED BY <1>13, <1>19 DEF Steps, SequenceStep

LEMMA InsertSteps ==
    ASSUME ConstantsOK, VInv, NEW o \in Alive, NEW index \in 1 .. MaxCapacity + 1,
           NEW r \in Args, IsArg(r), Insert(o, index, r)
    PROVE  Steps
<1>1. o \in Vecs /\ m_First[o] # NULL
  BY DEF Alive
<1>2. /\ m_Last[o] \in Nat /\ m_End[o] \in Nat /\ m_First[o] \in Buffers /\ Memory(mem)
      /\ Fills(mem[m_First[o]], m_Last[o], m_End[o])
  BY <1>1, VectorsTyped, GoodMeans DEF VInv
<1>3. PICK v \in Full : v = Read(mem, r) /\ v \in Held(Rows(m_First, m_Last, mem))
  BY ArgsValid, ArgHeld
<1>4. CASE UNCHANGED vars
  BY <1>4, StutterSteps
<1>5. CASE /\ index <= m_Last[o] + 1 /\ m_Last[o] < m_End[o]
           /\ ShiftAndPut(o, index, v, mem, m_First[o], m_End[o])
  <2>1. Touches(m_First, o, NULL, mem, mem)
    BY DEF Touches
  <2>2. index \in 1 .. m_Last[o] + 1
    BY <1>2, <1>5 DEF ConstantsOK
  <2>3. DOMAIN mem[m_First[o]] = 1 .. m_End[o]
    BY <1>2 DEF Fills, Buffer
  <2> QED BY <1>2, <1>3, <1>5, <2>1, <2>2, <2>3, ShiftAndPutSteps
<1>6. CASE /\ index <= m_Last[o] + 1 /\ m_Last[o] >= m_End[o]
           /\ \E b \in Free :
                LET cap == ComputeNextCapacity(m_End[o])
                    mm  == Reserved(o, mem, m_Last[o], b, cap)
                IN ShiftAndPut(o, index, v, mm, b, cap)
  <2>1. PICK cap \in Nat : cap = ComputeNextCapacity(m_End[o]) /\ cap > m_End[o]
    BY <1>2, CapacityGrows
  <2>2. PICK b \in Free : ShiftAndPut(o, index, v, Reserved(o, mem, m_Last[o], b, cap), b, cap)
    BY <1>6, <2>1
  <2>3. PICK mm, n : n = m_Last[o] /\ mm = Reserved(o, mem, n, b, cap)
    OBVIOUS
  <2>4. n \in Nat /\ n <= cap /\ n < cap
    BY <1>2, <2>1, <2>3 DEF Fills
  <2>5. /\ b \in Blocks /\ mem[b] = << >>
        /\ \A x \in Buffers : x \in {m_First[o], b} \/ mm[x] = mem[x]
        /\ Memory(mm) /\ DOMAIN mm[b] = 1 .. cap
        /\ \A i \in 1 .. n : mm[b][i] = mem[m_First[o]][i]
    BY <1>2, <2>3, <2>4, ReservedCells
  <2>6. Touches(m_First, o, b, mem, mm) /\ b \in Buffers
    BY <2>5 DEF Touches, Buffers
  <2>7. index \in 1 .. m_Last[o] + 1
    BY <1>2, <1>6 DEF ConstantsOK
  <2>8. ShiftAndPut(o, index, v, mm, b, cap) /\ m_Last[o] < cap
    BY <2>2, <2>3, <2>4
  <2>9. \A i \in 1 .. m_Last[o] : mm[b][i] = mem[m_First[o]][i]
    BY <2>3, <2>5
  <2> QED BY <1>3, <2>5, <2>6, <2>7, <2>8, <2>9, ShiftAndPutSteps
<1> QED BY <1>3, <1>4, <1>5, <1>6 DEF Insert, Fails

-----------------------------------------------------------------------------
(* Vectors are copied and moved.                                           *)

LEMMA CloneIntoSteps ==
    ASSUME ConstantsOK, VInv, NEW o \in Alive, NEW to \in Alive, NEW mm, Memory(mm),
           NEW b \in Buffers, NEW h, Touches(m_First, to, h, mem, mm), b \in {m_First[to], h},
           NEW cap \in Nat, m_Last[o] <= cap, DOMAIN mm[b] = 1 .. cap,
           CloneInto(o, to, mm, b, cap)
    PROVE  Steps
<1>1. PICK n, u, w, mm2 : /\ n = m_Last[o] /\ u = mem[m_First[o]]
                          /\ w = [i \in DOMAIN mm[b] |-> IF i <= n THEN u[i] ELSE mm[b][i]]
                          /\ mm2 = [mm EXCEPT ![b] = w]
  OBVIOUS
<1>2. o \in Vecs /\ to \in Vecs /\ n \in Nat /\ n <= cap
  BY <1>1, VectorsTyped DEF Alive
<1>3. \A i \in 1 .. n : w[i] = u[i]
  <2>1. \A i \in 1 .. n : i \in 1 .. cap /\ i <= n
    BY <1>2
  <2> QED BY <1>1, <2>1
<1>4. mem' = mm2
  BY <1>1 DEF CloneInto
<1>5. m_First' = [m_First EXCEPT ![to] = b] /\ m_Last' = [m_Last EXCEPT ![to] = n]
  BY <1>1 DEF CloneInto, SetVector
<1>6. Stored(mm, b, w, mm2)
  <2>1. Stored(mm, b, w, [mm EXCEPT ![b] = w])
    BY StoredFacts
  <2> QED BY <1>1, <2>1
<1>7. mm2[b] = w /\ Touches(m_First, to, h, mem, mm2)
  BY <1>6 DEF Stored, Touches
<1>8. PICK x, y, s : /\ x = Rows(m_First, m_Last, mem) /\ y = Rows(m_First', m_Last', mem')
                     /\ s = [i \in 1 .. n |-> w[i]]
  OBVIOUS
<1>9. y = [x EXCEPT ![to] = s]
  <2>1. Replaced(m_First, m_Last, to, b, n, mem, mm2)
    BY <1>2, <1>7, RowReplaced DEF VInv
  <2> QED BY <1>4, <1>5, <1>7, <1>8, <2>1 DEF Replaced
<1>10. s = x[o]
  <2>1. x[o] = [i \in 1 .. n |-> u[i]]
    BY <1>1, <1>2, <1>8 DEF Rows
  <2> QED BY <1>3, <1>8, <2>1
<1>11. Clones(x, y)
  BY <1>2, <1>9, <1>10 DEF Clones
<1> QED BY <1>8, <1>11 DEF Steps, SequenceStep

LEMMA CloneSteps ==
    ASSUME ConstantsOK, VInv, NEW o \in Alive, NEW to \in Alive, Clone(o, to) PROVE Steps
<1>1. PICK mm, a, n : mm = DestroyCells(mem, a, m_Last[to]) /\ a = m_First[to] /\ n = m_Last[o]
  OBVIOUS
<1>2. /\ to \in Vecs /\ a \in Buffers /\ Memory(mm) /\ \A x \in Buffers : x # a => mm[x] = mem[x]
      /\ DOMAIN mm[a] = DOMAIN mem[a]
  BY <1>1, DestroyedOf
<1>3. o \in Vecs /\ n \in Nat /\ m_End[to] \in Nat /\ DOMAIN mem[a] = 1 .. m_End[to]
  BY <1>1, <1>2, VectorsTyped, GoodMeans DEF VInv, Fills, Buffer, Alive
<1>4. CASE UNCHANGED vars
  BY <1>4, StutterSteps
<1>5. CASE n <= m_End[to] /\ CloneInto(o, to, mm, a, m_End[to])
  <2>1. Touches(m_First, to, NULL, mem, mm)
    BY <1>1, <1>2 DEF Touches
  <2> QED BY <1>1, <1>2, <1>3, <1>5, <2>1, CloneIntoSteps
<1>6. CASE \E b \in Free : CloneInto(o, to, Reserved(to, mm, 0, b, n), b, n)
  <2>1. PICK b \in Free : CloneInto(o, to, Reserved(to, mm, 0, b, n), b, n)
    BY <1>6
  <2>2. PICK k, mm2 : k = 0 /\ mm2 = Reserved(to, mm, k, b, n)
    OBVIOUS
  <2>3. k \in Nat /\ k <= n
    BY <1>3, <2>2
  <2>4. /\ b \in Blocks /\ mem[b] = << >>
        /\ \A x \in Buffers : x \in {m_First[to], b} \/ mm2[x] = mm[x]
        /\ Memory(mm2) /\ DOMAIN mm2[b] = 1 .. n
    BY <1>2, <1>3, <2>2, <2>3, ReservedCells
  <2>5. Touches(m_First, to, b, mem, mm2) /\ b \in Buffers
    BY <1>1, <1>2, <2>4 DEF Touches, Buffers
  <2>6. m_Last[o] <= n
    BY <1>1, <1>3
  <2>7. CloneInto(o, to, mm2, b, n)
    BY <2>1, <2>2
  <2> QED BY <1>3, <2>4, <2>5, <2>6, <2>7, CloneIntoSteps
<1>7. CASE Clear(to)
  BY <1>7, ClearSteps
<1> QED BY <1>1, <1>4, <1>5, <1>6, <1>7 DEF Clone

LEMMA MovesOne ==
    ASSUME NEW x, NEW y, NEW o \in Vecs, NEW p \in Vecs, o # p,
           y = [x EXCEPT ![o] = x[p], ![p] = << >>]
    PROVE  Moves(x, y)
BY Zenon DEF Moves

\* What o had is gone from mm, and its own buffer is ready.
LEMMA TakeOverSteps ==
    ASSUME ConstantsOK, VInv, NEW o \in Vecs, NEW from \in Alive, o # from, NEW mm, Memory(mm),
           \A x \in Buffers : x \in {m_First[o], o} \/ mm[x] = mem[x],
           DOMAIN mm[o] = 1 .. SvoCapacity, TakeOver(o, from, mm)
    PROVE  Steps
<1>1. PICK n, a, u : n = m_Last[from] /\ a = m_First[from] /\ u = mem[a]
  OBVIOUS
<1>2. /\ from \in Vecs /\ a # NULL /\ a \in Buffers /\ n \in Nat /\ (a = from \/ a \in Blocks)
      /\ Fills(u, n, m_End[from]) /\ (a = from => m_End[from] = SvoCapacity)
  BY <1>1, GoodMeans DEF VInv, Alive
<1>3. a # m_First[o] /\ a # o
  BY <1>1, <1>2 DEF VInv, Good, ConstantsOK
<1>4. mm[a] = u
  BY <1>1, <1>2, <1>3
<1>5. PICK b, mm2 : b = (IF IsDynamic(from) THEN a ELSE o) /\ mm2 = mem'
  OBVIOUS
<1>6. /\ \A i \in 1 .. n : mm2[b][i] = u[i]
      /\ \A x \in Buffers : x \in {m_First[o], o, a} \/ mm2[x] = mem[x]
  <2>1. CASE IsDynamic(from)
    BY <1>4, <1>5, <2>1 DEF TakeOver
  <2>2. CASE ~IsDynamic(from)
    <3>1. a = from /\ b = o /\ mm2 = Migrate(mm, a, n, o)
      BY <1>1, <1>5, <2>2 DEF TakeOver, IsDynamic
    <3>2. o \in Buffers
      BY DEF Buffers
    <3>3. /\ \A x \in Buffers : x \in {a, o} \/ mm2[x] = mm[x]
          /\ mm2[o] = [i \in DOMAIN mm[o] |-> IF i <= n THEN mm[a][i] ELSE mm[o][i]]
      <4>1. GrownTo(mm, a, o, n, mm[o], Migrate(mm, a, n, o))
        BY <1>2, <1>3, <3>2, MigratedCells
      <4> QED BY <3>1, <4>1 DEF GrownTo
    <3>4. n <= SvoCapacity /\ SvoCapacity \in Nat
      BY <1>2, <3>1 DEF Fills, ConstantsOK
    <3>5. \A i \in 1 .. n : i \in 1 .. SvoCapacity /\ i <= n
      BY <1>2, <3>4
    <3>6. \A i \in 1 .. n : mm2[b][i] = u[i]
      BY <1>4, <3>1, <3>3, <3>5
    <3> QED BY <3>3, <3>6
  <2> QED BY <2>1, <2>2
<1>7. PICK f, l : f = m_First' /\ l = m_Last'
  OBVIOUS
<1>8. /\ f[o] = b /\ f[from] = from /\ l[o] = n /\ l[from] = 0
      /\ \A q \in Vecs : q \notin {o, from} => f[q] = m_First[q] /\ l[q] = m_Last[q]
  BY <1>1, <1>2, <1>5, <1>7, VectorsTyped DEF TakeOver
<1>9. PICK x, y : x = Rows(m_First, m_Last, mem) /\ y = Rows(f, l, mm2)
  OBVIOUS
<1>10. y[o] = x[from]
  BY <1>1, <1>2, <1>6, <1>8, <1>9 DEF Rows
<1>11. y[from] = << >>
  <2>1. y[from] = [i \in 1 .. 0 |-> mm2[from][i]]
    BY <1>2, <1>8, <1>9 DEF Rows
  <2> QED BY <2>1
<1>12. ASSUME NEW q \in Vecs, q \notin {o, from} PROVE y[q] = x[q]
  <2>1. ASSUME NEW i \in 1 .. m_Last[q] PROVE mm2[m_First[q]] = mem[m_First[q]]
    <3>1. m_First[q] # NULL
      BY <2>1 DEF VInv, Good
    <3>2. m_First[q] \in Buffers /\ (m_First[q] = q \/ m_First[q] \in Blocks)
      BY <3>1, GoodMeans DEF VInv
    <3>3. m_First[q] \notin {m_First[o], o, a}
      BY <1>1, <1>2, <1>12, <3>1, <3>2 DEF VInv, Good, ConstantsOK
    <3> QED BY <1>6, <3>2, <3>3
  <2> QED BY <1>8, <1>9, <1>12, <2>1 DEF Rows
<1>13. x = [q \in Vecs |-> x[q]] /\ y = [q \in Vecs |-> y[q]]
  BY <1>9 DEF Rows
<1>14. y = [x EXCEPT ![o] = x[from], ![from] = << >>]
  BY <1>2, <1>10, <1>11, <1>12, <1>13
<1>15. Moves(x, y)
  BY <1>2, <1>14, MovesOne
<1> QED BY <1>5, <1>7, <1>9, <1>15 DEF Steps, SequenceStep

LEMMA MoveConstructSteps ==
    ASSUME ConstantsOK, VInv, NEW o \in Vecs \ Alive, NEW from \in Alive, MoveConstruct(o, from)
    PROVE  Steps
<1>1. Memory(mem) /\ TakeOver(o, from, mem) /\ o # from
  BY VectorsTyped DEF MoveConstruct, Alive
<1>2. DOMAIN mem[o] = 1 .. SvoCapacity
  BY DEF VInv, Good, Inline, Buffer
<1> QED BY <1>1, <1>2, TakeOverSteps

LEMMA MoveAssignSteps ==
    ASSUME ConstantsOK, VInv, NEW o \in Alive, NEW from \in Alive, MoveAssign(o, from)
    PROVE  Steps
<1>1. CASE UNCHANGED vars
  BY <1>1, StutterSteps
<1>2. CASE ~UNCHANGED vars
  <2>1. PICK m1, a, mm : /\ m1 = DestroyCells(mem, m_First[o], m_Last[o]) /\ a = m_First[o]
                         /\ mm = Freed(m1, o, a)
    OBVIOUS
  <2>2. o # from /\ TakeOver(o, from, mm)
    BY <1>2, <2>1, ReleaseFreed DEF MoveAssign
  <2>3. /\ o \in Vecs /\ a \in Buffers /\ Memory(m1) /\ \A x \in Buffers : x # a => m1[x] = mem[x]
        /\ DOMAIN m1[a] = DOMAIN mem[a]
    BY <2>1, DestroyedOf
  <2>4. Memory(mm) /\ \A x \in Buffers : x # a => mm[x] = m1[x]
    BY <2>1, <2>3, FreedOnly
  <2>5. DOMAIN mem[o] = 1 .. SvoCapacity /\ o \in Buffers
    BY <2>3 DEF VInv, Good, Inline, Buffer, Buffers
  <2>6. DOMAIN mm[o] = 1 .. SvoCapacity
    <3>1. CASE a = o
      BY <2>1, <2>3, <2>5, <3>1 DEF Freed
    <3>2. CASE a # o
      BY <2>3, <2>4, <2>5, <3>2
    <3> QED BY <3>1, <3>2
  <2> QED BY <2>1, <2>2, <2>3, <2>4, <2>6, TakeOverSteps
<1> QED BY <1>1, <1>2

\* Every step of the vectors is one of SequenceAbs.
LEMMA NextSteps == ConstantsOK /\ VInv /\ [Next]_vars => Steps
<1> SUFFICES ASSUME ConstantsOK, VInv, [Next]_vars PROVE Steps
  OBVIOUS
<1>1. CASE UNCHANGED vars
  BY <1>1, StutterSteps
<1>2. ASSUME NEW o \in Vecs \ Alive, Construct(o) PROVE Steps
  BY <1>2, ConstructSteps
<1>3. ASSUME NEW o \in Vecs \ Alive, NEW from \in Alive, MoveConstruct(o, from) PROVE Steps
  BY <1>3, MoveConstructSteps
<1>4. ASSUME NEW o \in Alive, Destruct(o) PROVE Steps
  BY <1>4, DestructSteps
<1>5. ASSUME NEW o \in Alive, Clear(o) PROVE Steps
  BY <1>5, ClearSteps
<1>6. ASSUME NEW o \in Alive, NEW n \in Requests, Reserve(o, n) PROVE Steps
  BY <1>6, ReserveSteps
<1>7. ASSUME NEW o \in Alive, NEW r \in Args, IsArg(r), NEW consumed \in BOOLEAN,
             EmplaceBack(o, r, consumed)
      PROVE  Steps
  <2>1. CASE EmplaceInPlace(o, r, consumed)
    BY <1>7, <2>1, EmplaceInPlaceSteps
  <2>2. CASE GrowAndEmplace(o, r, consumed)
    BY <1>7, <2>2, GrowAndEmplaceSteps
  <2> QED BY <1>7, <2>1, <2>2, StutterSteps DEF EmplaceBack, Fails
<1>8. ASSUME NEW o \in Alive, NEW r \in Args, IsArg(r), NEW i \in 1 .. MaxCapacity + 1, Insert(o, i, r)
      PROVE  Steps
  BY <1>8, InsertSteps
<1>9. ASSUME NEW o \in Alive, NEW p \in Alive, Clone(o, p) PROVE Steps
  BY <1>9, CloneSteps
<1>10. ASSUME NEW o \in Alive, NEW p \in Alive, MoveAssign(o, p) PROVE Steps
  BY <1>10, MoveAssignSteps
<1> QED BY <1>1, <1>2, <1>3, <1>4, <1>5, <1>6, <1>7, <1>8, <1>9, <1>10 DEF Next

\* The same of the contents the refinement is stated with.
LEMMA ContentsSteps ==
    ConstantsOK /\ VInv /\ [Next]_vars => SequenceStep(Contents, Contents')
<1>1. ConstantsOK /\ VInv => Contents = Rows(m_First, m_Last, mem)
  BY ContentsAreRows
<1>2. (ConstantsOK /\ VInv => Contents = Rows(m_First, m_Last, mem))'
  BY ContentsAreRows, PTL
<1>3. ConstantsOK' /\ VInv' => Contents' = Rows(m_First', m_Last', mem')
  BY <1>2 DEF Rows
<1>4. ConstantsOK => ConstantsOK'
  BY DEF ConstantsOK
<1> QED BY <1>1, <1>3, <1>4, NextVInv, NextSteps DEF Steps

LEMMA InitContents == ConstantsOK /\ Init => Contents = [o \in Vecs |-> << >>]
BY DEF Init, Contents, Alive

-----------------------------------------------------------------------------
(* The vectors implement the sequences of SequenceAbs.                     *)

AsSequences == INSTANCE SequenceAbs WITH Objects <- Vecs, content <- Contents

LEMMA StepsOfSequences == SequenceStep(Contents, Contents') => [AsSequences!ANext]_Contents
<1> SUFFICES ASSUME SequenceStep(Contents, Contents'), ~UNCHANGED Contents PROVE AsSequences!ANext
  OBVIOUS
<1>1. PICK x, y : x = Contents /\ y = Contents'
  OBVIOUS
<1>2. Held(x) = AsSequences!Copied
  BY <1>1 DEF Held, AsSequences!Copied, AsSequences!ToSet
<1>3. CASE Appends(x, y)
  <2>1. PICK o \in Vecs, v \in Held(x) : y = [x EXCEPT ![o] = Append(x[o], v)]
    BY <1>3 DEF Appends
  <2>2. AsSequences!AAppend(o, v)
    BY <1>1, <2>1 DEF AsSequences!AAppend
  <2> QED BY <1>2, <2>1, <2>2, Zenon DEF AsSequences!ANext
<1>4. CASE AppendsMoved(x, y)
  <2>0. PICK o \in Vecs, p \in Vecs : \E i \in DOMAIN x[p] : \E z :
          /\ z = [x EXCEPT ![p] = [x[p] EXCEPT ![i] = Moved]]
          /\ y = [z EXCEPT ![o] = Append(z[o], x[p][i])]
    BY <1>4, Zenon DEF AppendsMoved
  <2>e. PICK i \in DOMAIN x[p] : \E z :
          /\ z = [x EXCEPT ![p] = [x[p] EXCEPT ![i] = Moved]]
          /\ y = [z EXCEPT ![o] = Append(z[o], x[p][i])]
    BY <2>0, Zenon
  <2>1. PICK z :
          /\ z = [x EXCEPT ![p] = [x[p] EXCEPT ![i] = Moved]]
          /\ y = [z EXCEPT ![o] = Append(z[o], x[p][i])]
    BY <2>e, Zenon
  <2>2. AsSequences!AAppendMoved(o, p, i)
    BY <1>1, <2>1 DEF AsSequences!AAppendMoved
  <2>3. i \in DOMAIN Contents[p]
    BY <1>1, <2>1
  <2> QED BY <2>1, <2>2, <2>3, Zenon DEF AsSequences!ANext
<1>5. CASE Inserts(x, y)
  <2>1. PICK o, v, i :
          /\ o \in Vecs /\ v \in Held(x) /\ i \in 1 .. Len(x[o]) + 1
          /\ y = [x EXCEPT ![o] = InsertedAt(x[o], i, v)]
    BY <1>5 DEF Inserts
  <2>2. i \in 1 .. Len(Contents[o]) + 1
    BY <1>1, <2>1
  <2>3. AsSequences!AInsert(o, i, v)
    BY <1>1, <2>1, <2>2 DEF AsSequences!AInsert, AsSequences!InsertAt, InsertedAt
  <2> QED BY <1>2, <2>1, <2>2, <2>3, Zenon DEF AsSequences!ANext
<1>6. CASE Moves(x, y)
  <2>1. PICK o \in Vecs, p \in Vecs : o # p /\ y = [x EXCEPT ![o] = x[p], ![p] = << >>]
    BY <1>6 DEF Moves
  <2>2. AsSequences!AMove(o, p)
    BY <1>1, <2>1 DEF AsSequences!AMove
  <2> QED BY <2>1, <2>2, Zenon DEF AsSequences!ANext
<1>7. CASE Clones(x, y)
  <2>1. PICK o \in Vecs, p \in Vecs : y = [x EXCEPT ![p] = x[o]]
    BY <1>7 DEF Clones
  <2>2. AsSequences!AClone(o, p)
    BY <1>1, <2>1 DEF AsSequences!AClone
  <2> QED BY <2>1, <2>2, Zenon DEF AsSequences!ANext
<1>8. CASE Clears(x, y)
  <2>1. PICK o \in Vecs : y = [x EXCEPT ![o] = << >>]
    BY <1>8 DEF Clears
  <2>2. AsSequences!AClear(o)
    BY <1>1, <2>1 DEF AsSequences!AClear
  <2> QED BY <2>1, <2>2, Zenon DEF AsSequences!ANext
<1>9. CASE y = x
  BY <1>1, <1>9
<1> QED BY <1>1, <1>3, <1>4, <1>5, <1>6, <1>7, <1>8, <1>9 DEF SequenceStep

\* Every operation of the vectors, through growth, failed allocations and
\* arguments that are elements of the vector itself, does to their sequences
\* what SequenceAbs says of it, for every capacity the constants allow.
THEOREM VectorsImplementSequences == ConstantsOK /\ Spec => AsSequences!ASpec
<1>1. ConstantsOK /\ Init => VInv /\ AsSequences!AInit
  BY InitVInv, InitContents DEF AsSequences!AInit
<1>2. ConstantsOK /\ VInv /\ [Next]_vars => VInv'
  BY NextVInv
<1>3. ConstantsOK /\ VInv /\ [Next]_vars => [AsSequences!ANext]_Contents
  BY ContentsSteps, StepsOfSequences
<1>4. ConstantsOK => ConstantsOK'
  BY DEF ConstantsOK
<1> QED BY <1>1, <1>2, <1>3, <1>4, PTL DEF Spec, AsSequences!ASpec
===============================================================================

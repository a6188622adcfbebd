-------------------------- MODULE KFlatHashMap_proofs --------------------------
(***************************************************************************)
(* Proofs about KFlatHashMap, for every hash function, table size and      *)
(* number of keys, maps and blocks: the load limit and Reserve; then the   *)
(* tables: probing reaches every slot and finds every element, no block is *)
(* leaked or owned twice, and the table implements a map.                  *)
(***************************************************************************)
EXTENDS KFlatHashMap, TLAPS, FiniteSetTheorems, WellFoundedInduction

\* The load limit of a map is that of its capacity.
Limits ==
    \A o \in Maps :
      \/ map[o].m_Ctrl = NULL /\ map[o].m_Capacity = 0 /\ map[o].m_MaxLoad = 0
      \/ map[o].m_Capacity >= 4 /\ map[o].m_MaxLoad = MaxLoad(map[o].m_Capacity)

\* A rebuild under way makes room for one more element at least, and for
\* all that Reserve asked for; after it the pending key fits.
Growing ==
    /\ run.pc = "rehash" =>
         /\ run.capacity >= 4
         /\ MaxLoad(run.capacity) > map[run.on].m_MaxLoad
         /\ run.call.op = "reserve" => MaxLoad(run.capacity) >= run.call.need
    /\ run.pc = "place" =>
         map[run.on].m_Size < map[run.on].m_MaxLoad

LInv == TypeOK /\ LoadLimit /\ Limits /\ Growing

-----------------------------------------------------------------------------
\* The limit is below the capacity, and doubling the capacity raises it.
LEMMA MaxLoadFacts ==
    ASSUME NEW c \in Nat, c >= 4
    PROVE  MaxLoad(c) \in Nat /\ MaxLoad(c) < c /\ MaxLoad(2 * c) > MaxLoad(c)
BY DEF MaxLoad

\* Reserve's scaling by 10/7 undoes the rounding of the load limit.
LEMMA ReserveSuffices ==
    ASSUME NEW n \in Nat, NEW c \in Nat, c >= ReserveTarget(n)
    PROVE  MaxLoad(c) >= n
BY DEF MaxLoad, ReserveTarget

-----------------------------------------------------------------------------
LEMMA InitLInv == Init => LInv
BY DEF Init, LInv, TypeOK, LoadLimit, Limits, Growing, Unbuilt, Idle, Fields

\* What a map has after its size has grown by one.
LEMMA SizeGrown ==
    ASSUME TypeOK, NEW o \in Maps,
           map' = [map EXCEPT ![o].m_Size = @ + 1]
    PROVE  /\ map' \in [Maps -> Fields]
           /\ \A q \in Maps :
                /\ map'[q].m_Ctrl = map[q].m_Ctrl
                /\ map'[q].m_Capacity = map[q].m_Capacity
                /\ map'[q].m_MaxLoad = map[q].m_MaxLoad
                /\ map'[q].m_Size = IF q = o THEN map[o].m_Size + 1
                                    ELSE map[q].m_Size
BY DEF TypeOK, Fields

LEMMA InsertStep ==
    ASSUME LInv, NEW o \in Maps, NEW key, NEW val, Insert(o, key, val),
           map[o].m_Size < map[o].m_MaxLoad
    PROVE  LInv'
<1>1. /\ map' = [map EXCEPT ![o].m_Size = @ + 1]
      /\ run' = Idle /\ pool' = pool
  BY DEF Insert
<1>2. TypeOK BY DEF LInv
<1>3. TypeOK' BY <1>1, <1>2, SizeGrown DEF TypeOK
<1>4. \A q \in Maps : map[q].m_Size \in Nat /\ map[q].m_MaxLoad \in Nat
  BY <1>2 DEF TypeOK, Fields
<1>5. LoadLimit' BY <1>1, <1>2, <1>4, SizeGrown DEF LInv, LoadLimit
<1>6. Limits' BY <1>1, <1>2, SizeGrown DEF LInv, Limits
<1>7. Growing' BY <1>1 DEF Growing, Idle
<1> QED BY <1>3, <1>5, <1>6, <1>7 DEF LInv

\* Rehash is called with a capacity whose limit exceeds the present one.
LEMMA RehashBeginsStep ==
    ASSUME LInv, NEW o \in Maps, NEW c, NEW call \in Calls,
           RehashBegins(o, c, call), MaxLoad(c) > map[o].m_MaxLoad,
           call.op = "reserve" => MaxLoad(c) >= call.need
    PROVE  LInv'
<1>1. c \in Nat /\ c >= 4
  BY CapacityAssumption, GroupAssumption DEF RehashBegins
<1>2. PICK a \in Blocks \ pool :
        /\ pool' = pool \cup {a}
        /\ run' = [pc |-> "rehash", on |-> o, to |-> a, capacity |-> c,
                   index |-> 0, call |-> call]
  BY DEF RehashBegins
<1>3. map' = map BY DEF RehashBegins
<1>4. TypeOK' BY <1>1, <1>2, <1>3 DEF LInv, TypeOK
<1>5. LoadLimit' /\ Limits' BY <1>3 DEF LInv, LoadLimit, Limits
<1>6. Growing' BY <1>1, <1>2, <1>3 DEF Growing
<1> QED BY <1>4, <1>5, <1>6 DEF LInv

LEMMA MigrateStep ==
    ASSUME LInv, Migrate
    PROVE  LInv'
<1>1. PICK i \in Pending : run' = [run EXCEPT !.index = i + 1]
  BY DEF Migrate, MigrateToMask
<1>2. run.pc = "rehash" /\ map' = map /\ pool' = pool
  BY DEF Migrate, MigrateToMask
<1>3. run \in [pc : {"rehash"}, on : Maps, to : Blocks, capacity : Nat,
               index : Nat, call : Calls]
  BY <1>2 DEF LInv, TypeOK, Idle
<1>4. i \in Nat
  <2>1. map[run.on].m_Capacity \in Nat BY <1>3 DEF LInv, TypeOK, Fields
  <2> QED BY <2>1 DEF Pending, Occupied
<1>5. /\ run'.pc = "rehash" /\ run'.on = run.on /\ run'.to = run.to
      /\ run'.capacity = run.capacity /\ run'.call = run.call
      /\ run' \in [pc : {"rehash"}, on : Maps, to : Blocks, capacity : Nat,
                   index : Nat, call : Calls]
  BY <1>1, <1>3, <1>4
<1>6. TypeOK' BY <1>2, <1>5 DEF LInv, TypeOK
<1>7. LoadLimit' /\ Limits' BY <1>2 DEF LInv, LoadLimit, Limits
<1>8. Growing' BY <1>2, <1>5 DEF LInv, Growing
<1> QED BY <1>6, <1>7, <1>8 DEF LInv

LEMMA RehashEndsStep ==
    ASSUME LInv, RehashEnds
    PROVE  LInv' /\ map'[run.on].m_MaxLoad = MaxLoad(run.capacity)
<1> DEFINE built == [m_Ctrl |-> run.to, m_Capacity |-> run.capacity,
                     m_Size |-> map[run.on].m_Size,
                     m_MaxLoad |-> MaxLoad(run.capacity),
                     m_GroupMask |-> GroupMask(run.capacity)]
<1>1. run.pc = "rehash" /\ map' = [map EXCEPT ![run.on] = built]
  BY DEF RehashEnds
<1>2. run \in [pc : {"rehash"}, on : Maps, to : Blocks, capacity : Nat,
               index : Nat, call : Calls]
  BY <1>1 DEF LInv, TypeOK, Idle
<1>3. /\ MaxLoad(run.capacity) \in Nat
      /\ MaxLoad(run.capacity) < run.capacity /\ run.capacity >= 4
      /\ MaxLoad(run.capacity) > map[run.on].m_MaxLoad
  BY <1>1, <1>2, MaxLoadFacts DEF LInv, Growing
<1>4. map \in [Maps -> Fields] /\ map[run.on] \in Fields
  BY <1>2 DEF LInv, TypeOK
<1>5. built \in Fields BY <1>2, <1>3, <1>4, GroupAssumption DEF Fields, GroupMask
<1>6. map' \in [Maps -> Fields]
      /\ \A q \in Maps : map'[q] = IF q = run.on THEN built ELSE map[q]
  BY <1>1, <1>2, <1>4, <1>5
<1>7. run' \in {Idle} \cup [pc : {"place"}, on : Maps, call : Calls]
      /\ (run'.pc = "place" => run'.on = run.on)
  <2>1. CASE run.call.op = "emplace"
    <3>1. run' = [pc |-> "place", on |-> run.on, call |-> run.call]
      BY <2>1 DEF RehashEnds
    <3>2. run.on \in Maps /\ run.call \in Calls BY <1>2
    <3> QED BY <3>1, <3>2
  <2>2. CASE run.call.op # "emplace"
    <3>1. run' = Idle BY <2>2 DEF RehashEnds
    <3> QED BY <3>1 DEF Idle
  <2> QED BY <2>1, <2>2
<1>8. TypeOK' BY <1>6, <1>7 DEF LInv, TypeOK, RehashEnds
<1>9. map[run.on].m_Size \in Nat /\ map[run.on].m_MaxLoad \in Nat
      /\ map[run.on].m_Size <= map[run.on].m_MaxLoad
  BY <1>2, <1>4 DEF LInv, LoadLimit, Fields
<1>10. /\ built.m_Size < built.m_MaxLoad /\ built.m_Size <= built.m_MaxLoad
       /\ built.m_MaxLoad < built.m_Capacity
  BY <1>3, <1>9
<1>11. LoadLimit'
  <2>1. \A q \in Maps : /\ map'[q].m_Size <= map'[q].m_MaxLoad
                        /\ map'[q].m_Ctrl # NULL
                             => map'[q].m_MaxLoad < map'[q].m_Capacity
    <3> HIDE DEF built
    <3> QED BY <1>6, <1>10 DEF LInv, LoadLimit
  <2> QED BY <2>1 DEF LoadLimit
<1>12. Limits' BY <1>3, <1>6 DEF LInv, Limits
<1>13. Growing' BY <1>2, <1>6, <1>7, <1>10 DEF Growing, Idle
<1> QED BY <1>2, <1>6, <1>8, <1>11, <1>12, <1>13 DEF LInv

\* Clear, destruction and moves leave every map with fields it, or another
\* map, had before, or with those of a new map.
LEMMA ResetStep ==
    ASSUME LInv, run = Idle, run' = Idle, pool' \subseteq Blocks,
           map' \in [Maps -> Fields],
           \A q \in Maps :
             \/ map'[q] = Unbuilt
             \/ \E x \in Maps : /\ map'[q].m_Ctrl = map[x].m_Ctrl
                                /\ map'[q].m_Capacity = map[x].m_Capacity
                                /\ map'[q].m_MaxLoad = map[x].m_MaxLoad
                                /\ map'[q].m_Size \in {0, map[x].m_Size}
    PROVE  LInv'
<1>1. \A q \in Maps : map[q].m_Size \in Nat /\ map[q].m_MaxLoad \in Nat
  BY DEF LInv, TypeOK, Fields
<1>2. TypeOK' BY DEF TypeOK
<1>3. LoadLimit' BY <1>1 DEF LInv, LoadLimit, Unbuilt
<1>4. Limits' BY DEF LInv, Limits, Unbuilt
<1>5. Growing' BY DEF Growing, Idle
<1> QED BY <1>2, <1>3, <1>4, <1>5 DEF LInv

LEMMA EmplaceStep ==
    ASSUME LInv, NEW o \in Maps, Emplace(o)
    PROVE  LInv'
<1>1. PICK key \in Keys, val \in Vals :
        EmplaceNothing(o, key) \/ EmplaceInPlace(o, key, val)
        \/ EmplaceGrowing(o, key, val)
  BY DEF Emplace
<1>2. /\ map[o].m_Size \in Nat /\ map[o].m_MaxLoad \in Nat
      /\ map[o].m_Capacity \in Nat
  BY DEF LInv, TypeOK, Fields
<1>3. CASE EmplaceNothing(o, key)
  <2>1. UNCHANGED vars BY <1>3 DEF EmplaceNothing
  <2> QED BY <2>1 DEF vars, LInv, TypeOK, LoadLimit, Limits, Growing
<1>4. CASE EmplaceInPlace(o, key, val)
  <2>1. Insert(o, key, val) /\ map[o].m_Size < map[o].m_MaxLoad
    BY <1>2, <1>4 DEF EmplaceInPlace, IsFull
  <2> QED BY <2>1, InsertStep
<1>5. CASE EmplaceGrowing(o, key, val)
  <2> DEFINE c == IF map[o].m_Capacity = 0 THEN FirstCapacity
                  ELSE 2 * map[o].m_Capacity
             call == [op |-> "emplace", key |-> key, val |-> val]
  <2>1. RehashBegins(o, c, call) BY <1>5 DEF EmplaceGrowing
  <2>2. call \in Calls /\ call.op # "reserve" BY DEF Calls
  <2>3. MaxLoad(c) > map[o].m_MaxLoad
    <3>1. CASE map[o].m_Capacity = 0
      <4>1. map[o].m_MaxLoad = 0 BY <3>1 DEF LInv, Limits
      <4>2. MaxLoad(FirstCapacity) > 0 BY GroupAssumption DEF MaxLoad
      <4> QED BY <3>1, <4>1, <4>2
    <3>2. CASE map[o].m_Capacity # 0
      <4>1. /\ map[o].m_Capacity >= 4
            /\ map[o].m_MaxLoad = MaxLoad(map[o].m_Capacity)
        BY <3>2 DEF LInv, Limits
      <4>2. MaxLoad(2 * map[o].m_Capacity) > MaxLoad(map[o].m_Capacity)
        BY <1>2, <4>1, MaxLoadFacts
      <4> QED BY <3>2, <4>1, <4>2
    <3> QED BY <3>1, <3>2
  <2> HIDE DEF c, call
  <2> QED BY <2>1, <2>2, <2>3, RehashBeginsStep
<1> QED BY <1>1, <1>3, <1>4, <1>5

LEMMA ReserveStep ==
    ASSUME LInv, NEW o \in Maps, Reserve(o)
    PROVE  LInv'
<1>1. PICK n \in Requests : ReserveNothing(o, n) \/ ReserveGrowing(o, n)
  BY DEF Reserve
<1>2. CASE ReserveNothing(o, n)
  <2>1. UNCHANGED vars BY <1>2 DEF ReserveNothing
  <2> QED BY <2>1 DEF vars, LInv, TypeOK, LoadLimit, Limits, Growing
<1>3. CASE ReserveGrowing(o, n)
  <2> DEFINE call == [op |-> "reserve", need |-> n]
  <2>1. PICK c \in Capacities : IsReserveCapacity(c, n)
                                /\ RehashBegins(o, c, call)
    BY <1>3 DEF ReserveGrowing
  <2>2. n \in Nat /\ c \in Nat BY RequestAssumption, CapacityAssumption
  <2>3. MaxLoad(c) >= n /\ MaxLoad(c) \in Nat
    <3>1. MaxLoad(c) >= n BY <2>1, <2>2, ReserveSuffices DEF IsReserveCapacity
    <3>2. c >= 4 BY CapacityAssumption, GroupAssumption
    <3> QED BY <2>2, <3>1, <3>2, MaxLoadFacts
  <2>4. n > map[o].m_MaxLoad /\ map[o].m_MaxLoad \in Nat
    BY <1>3 DEF ReserveGrowing, LInv, TypeOK, Fields
  <2>5. MaxLoad(c) > map[o].m_MaxLoad BY <2>2, <2>3, <2>4
  <2>6. call \in Calls /\ call.need = n BY <2>2 DEF Calls
  <2> HIDE DEF call
  <2> QED BY <2>1, <2>3, <2>5, <2>6, RehashBeginsStep
<1> QED BY <1>1, <1>2, <1>3

LEMMA MoveStep ==
    ASSUME LInv, NEW o \in Maps, NEW from \in Maps, MoveAssign(o, from)
    PROVE  LInv'
<1>1. /\ run = Idle /\ run' = Idle /\ o # from
      /\ map' = [map EXCEPT ![o] = map[from], ![from] = Unbuilt]
  BY DEF MoveAssign
<1>2. pool' \subseteq Blocks BY DEF MoveAssign, Release, LInv, TypeOK
<1>3. map \in [Maps -> Fields] /\ Unbuilt \in Fields
  BY DEF LInv, TypeOK, Fields, Unbuilt
<1>4. map' \in [Maps -> Fields]
      /\ \A q \in Maps : map'[q] = IF q = from THEN Unbuilt
                                   ELSE IF q = o THEN map[from] ELSE map[q]
  BY <1>1, <1>3
<1>5. \A q \in Maps : map'[q] = Unbuilt \/ \E x \in Maps : map'[q] = map[x]
  BY <1>4
<1> QED BY <1>1, <1>2, <1>4, <1>5, ResetStep

LEMMA ClearStep ==
    ASSUME LInv, NEW o \in Maps, Clear(o) \/ Destroy(o)
    PROVE  LInv'
<1>1. map \in [Maps -> Fields] BY DEF LInv, TypeOK
<1>2. CASE Clear(o)
  <2>1. /\ run = Idle /\ run' = Idle /\ pool' = pool
        /\ map' = [map EXCEPT ![o].m_Size = 0]
    BY <1>2 DEF Clear
  <2>2. pool' \subseteq Blocks BY <2>1 DEF LInv, TypeOK
  <2>3. map' \in [Maps -> Fields] BY <1>1, <2>1 DEF Fields
  <2>4. \A q \in Maps : /\ map'[q].m_Ctrl = map[q].m_Ctrl
                        /\ map'[q].m_Capacity = map[q].m_Capacity
                        /\ map'[q].m_MaxLoad = map[q].m_MaxLoad
                        /\ map'[q].m_Size \in {0, map[q].m_Size}
    BY <1>1, <2>1 DEF Fields
  <2> QED BY <2>1, <2>2, <2>3, <2>4, ResetStep
<1>3. CASE Destroy(o)
  <2>1. /\ run = Idle /\ run' = Idle
        /\ map' = [map EXCEPT ![o] = Unbuilt]
    BY <1>3 DEF Destroy
  <2>2. pool' \subseteq Blocks BY <1>3 DEF Destroy, Release, LInv, TypeOK
  <2>3. Unbuilt \in Fields BY DEF Fields, Unbuilt
  <2>4. map' \in [Maps -> Fields]
        /\ \A q \in Maps : map'[q] = IF q = o THEN Unbuilt ELSE map[q]
    BY <1>1, <2>1, <2>3
  <2> QED BY <2>1, <2>2, <2>4, ResetStep
<1> QED BY <1>2, <1>3

LEMMA PlaceStep ==
    ASSUME LInv, EmplaceAfterRehash
    PROVE  LInv'
<1>1. run.pc = "place" /\ Insert(run.on, run.call.key, run.call.val)
  BY DEF EmplaceAfterRehash
<1>2. run.on \in Maps BY <1>1 DEF LInv, TypeOK, Idle
<1>3. map[run.on].m_Size < map[run.on].m_MaxLoad BY <1>1 DEF LInv, Growing
<1> QED BY <1>1, <1>2, <1>3, InsertStep

LEMMA StepLInv == LInv /\ [Next]_vars => LInv'
<1> SUFFICES ASSUME LInv, [Next]_vars PROVE LInv' OBVIOUS
<1>1. CASE UNCHANGED vars
  BY <1>1 DEF vars, LInv, TypeOK, LoadLimit, Limits, Growing
<1>2. ASSUME NEW o \in Maps, Emplace(o) PROVE LInv' BY <1>2, EmplaceStep
<1>3. ASSUME NEW o \in Maps, Reserve(o) PROVE LInv' BY <1>3, ReserveStep
<1>4. ASSUME NEW o \in Maps, Clear(o) \/ Destroy(o) PROVE LInv'
  BY <1>4, ClearStep
<1>5. ASSUME NEW o \in Maps, NEW from \in Maps, MoveAssign(o, from) PROVE LInv'
  BY <1>5, MoveStep
<1>6. CASE Migrate BY <1>6, MigrateStep
<1>7. CASE RehashEnds BY <1>7, RehashEndsStep
<1>8. CASE EmplaceAfterRehash BY <1>8, PlaceStep
<1> QED BY <1>1, <1>2, <1>3, <1>4, <1>5, <1>6, <1>7, <1>8 DEF Next

-----------------------------------------------------------------------------
\* Type correctness of the table, with the invariant that supports it.
THEOREM LInvHolds == Spec => []LInv
BY InitLInv, StepLInv, PTL DEF Spec

\* No call of Emplace, Reserve, Clear or a move, and no failed rebuild, takes
\* a map over its load limit, which is always below its number of slots.
THEOREM LoadLimitHolds == Spec => []LoadLimit
<1>1. LInv => LoadLimit BY DEF LInv
<1> QED BY <1>1, LInvHolds, PTL

\* Reserve's scaled capacity always has a load limit that admits the number
\* of elements asked for, whatever the rounding in either formula.
THEOREM ReserveMakesRoomHolds == Spec => ReserveMakesRoom
<1>1. LInv /\ [Next]_vars =>
        [ RehashEnds /\ run.call.op = "reserve" =>
            map'[run.on].m_MaxLoad >= run.call.need ]_vars
  <2> SUFFICES ASSUME LInv, RehashEnds, run.call.op = "reserve"
               PROVE  map'[run.on].m_MaxLoad >= run.call.need
    OBVIOUS
  <2>1. map'[run.on].m_MaxLoad = MaxLoad(run.capacity) BY RehashEndsStep
  <2>2. run.pc = "rehash" BY DEF RehashEnds
  <2> QED BY <2>1, <2>2 DEF LInv, Growing
<1> QED BY <1>1, LInvHolds, PTL DEF Spec, ReserveMakesRoom

-----------------------------------------------------------------------------
Capacity == {c \in Nat : c >= 4 /\ c % kGroupSize = 0}

\* The storage of a table of c slots.
Slot     == [Key : Keys \cup {NULL}, Value : Vals \cup {NULL}]
Table(c) == [ctrl : [0 .. c - 1 -> Int], slots : [0 .. c - 1 -> Slot]]

\* Turn n of the probe for a hash leads to slot i, past groups that are full.
ReachedAt(ctrl, c, h, i, n) ==
    /\ i \in Group(Probed(h, GroupMask(c), n))
    /\ \A k \in 0 .. n - 1 : EmptyIn(ctrl, Probed(h, GroupMask(c), k)) = {}
Reached(ctrl, c, h, i) == \E n \in Turns(GroupMask(c)) : ReachedAt(ctrl, c, h, i, n)

\* A table in order: every occupied slot holds an element, with the control
\* byte of its key and where the probe for its key reaches it; no key twice.
InOrder(b, c) ==
    /\ b \in Table(c)
    /\ \A i \in Occupied(b, c) :
         /\ b.slots[i].Key \in Keys /\ b.slots[i].Value \in Vals
         /\ b.ctrl[i] = H2(b.slots[i].Key)
         /\ Reached(b.ctrl, c, Hash(b.slots[i].Key), i)
    /\ \A i, j \in Occupied(b, c) : b.slots[i].Key = b.slots[j].Key => i = j

KeysIn(b, c) == {b.slots[i].Key : i \in Occupied(b, c)}

-----------------------------------------------------------------------------
(* Numbers.                                                                *)

LEMMA LeastOf ==
    ASSUME NEW T, T \subseteq Nat, T # {}
    PROVE  \E x \in T : \A y \in T : x <= y
<1> DEFINE R == OpToRel(<, Nat)
<1>1. IsWellFoundedOn(R, Nat)
  BY NatLessThanWellFounded
<1>2. \A x, y \in Nat : x < y => << x, y >> \in R
  BY DEF OpToRel
<1> HIDE DEF R
<1>3. PICK x \in T : \A y \in T : ~ (<< y, x >> \in R)
  BY <1>1, WFMin, Zenon
<1>4. ASSUME NEW y \in T PROVE x <= y
  <2>1. x \in Nat /\ y \in Nat OBVIOUS
  <2>2. ~(y < x) BY <1>2, <1>3, <2>1, Zenon
  <2> QED BY <2>1, <2>2
<1> QED BY <1>4, Zenon

LEMMA MinFacts ==
    ASSUME NEW T, T \subseteq Nat, T # {}
    PROVE  Min(T) \in T /\ \A y \in T : Min(T) <= y
BY LeastOf, Zenon DEF Min

LEMMA Division ==
    ASSUME NEW x \in Nat, NEW g \in Nat \ {0}
    PROVE  \E q \in Nat, r \in 0 .. g - 1 : x \div g = q /\ x % g = r /\ x = q * g + r
<1>1. ASSUME NEW q, q = x \div g, NEW r, r = x % g
      PROVE  q \in Nat /\ r \in 0 .. g - 1 /\ x = q * g + r
  BY <1>1
<1>2. \E q, r : q = x \div g /\ r = x % g
  OBVIOUS
<1> QED BY <1>1, <1>2

LEMMA DivisionUnique ==
    ASSUME NEW q \in Nat, NEW g \in Nat \ {0}, NEW r \in 0 .. g - 1
    PROVE  (q * g + r) \div g = q /\ (q * g + r) % g = r
OBVIOUS

-----------------------------------------------------------------------------
(* Probing.                                                                *)

\* i & m_GroupMask is the first slot of a group, and the group is inside.
LEMMA MaskedInTable ==
    ASSUME NEW c \in Capacity, NEW i \in Nat
    PROVE  /\ Masked(i, GroupMask(c)) \in Nat
           /\ Masked(i, GroupMask(c)) + kGroupSize <= c
<1> DEFINE g == kGroupSize
<1>1. g \in Nat \ {0} /\ c \in Nat \ {0} /\ c % g = 0
  BY GroupAssumption DEF Capacity
<1>2. GroupMask(c) + g = c
  BY <1>1 DEF GroupMask
<1> HIDE DEF g
<1>3. PICK w \in Nat : c = w * g
  BY <1>1, Division
<1>4. PICK s \in 0 .. c - 1 : i % c = s
  BY <1>1, Division
<1>5. PICK k \in Nat, r \in 0 .. g - 1 : s \div g = k /\ s = k * g + r
  BY <1>1, Division
<1>6. k < w
  <2>1. k * g < w * g BY <1>1, <1>3, <1>4, <1>5
  <2> QED BY <1>1, <2>1
<1>7. (k + 1) * g <= w * g
  BY <1>1, <1>6
<1>8. (k + 1) * g = k * g + g /\ k * g \in Nat
  BY <1>1
<1>9. Masked(i, GroupMask(c)) = k * g
  BY <1>2, <1>4, <1>5 DEF Masked, g
<1> QED BY <1>1, <1>3, <1>7, <1>8, <1>9 DEF g

\* The turns of a probe, whatever its hash, visit every slot of the table.
LEMMA ProbeVisitsAll ==
    ASSUME NEW c \in Capacity, NEW h \in Nat, NEW e \in 0 .. c - 1
    PROVE  \E n \in Turns(GroupMask(c)) : e \in Group(Probed(h, GroupMask(c), n))
<1> DEFINE g == kGroupSize
<1>1. g \in Nat \ {0} /\ c \in Nat \ {0} /\ c % g = 0
  BY GroupAssumption DEF Capacity
<1>2. GroupMask(c) + g = c /\ GroupMask(c) = c - g
  BY <1>1 DEF GroupMask
<1> HIDE DEF g
<1>3. PICK w \in Nat : c = w * g
  BY <1>1, Division
<1>4. PICK v \in Nat, s \in 0 .. c - 1 : h \div c = v /\ h % c = s /\ h = v * c + s
  BY <1>1, Division
<1>5. PICK a \in Nat, b \in 0 .. g - 1 : s \div g = a /\ s = a * g + b
  BY <1>1, Division
<1>6. PICK t \in Nat, u \in 0 .. g - 1 : e \div g = t /\ e = t * g + u
  BY <1>1, Division
<1>7. a < w /\ t < w
  <2>1. a * g < w * g /\ t * g < w * g BY <1>1, <1>3, <1>4, <1>5, <1>6
  <2> QED BY <1>1, <2>1
<1>8. (c - g) \div g = w - 1
  <2>1. w - 1 \in Nat /\ c - g = (w - 1) * g + 0 BY <1>1, <1>3, <1>7
  <2> QED BY <1>1, <2>1, DivisionUnique
<1>9. Turns(GroupMask(c)) = 0 .. w - 1
  BY <1>2, <1>8 DEF Turns, g
<1>10. ASSUME NEW n \in 0 .. w - 1, NEW y \in Nat, h + n * g = y * c + (t * g + b)
       PROVE  e \in Group(Probed(h, GroupMask(c), n))
  <2>1. t * g + b \in 0 .. c - 1
    <3>1. (t + 1) * g <= w * g BY <1>1, <1>7
    <3>2. (t + 1) * g = t * g + g /\ t * g \in Nat BY <1>1
    <3> QED BY <1>1, <1>3, <3>1, <3>2
  <2>2. (h + n * g) % c = t * g + b
    <3>1. ASSUME NEW z \in 0 .. c - 1 PROVE (y * c + z) % c = z
      BY <1>1, DivisionUnique
    <3> QED BY <1>10, <2>1, <3>1
  <2>3. (t * g + b) \div g = t
    BY <1>1, DivisionUnique
  <2>4. Probed(h, GroupMask(c), n) = t * g
    BY <1>2, <2>2, <2>3 DEF Probed, Masked, g
  <2>5. e \in t * g .. t * g + g - 1
    BY <1>1, <1>6
  <2> QED BY <2>4, <2>5 DEF Group, g
<1>11. CASE t >= a
  <2>1. t - a \in 0 .. w - 1 BY <1>7, <1>11
  <2>2. (t - a) * g = t * g - a * g BY <1>1, <1>11
  <2>3. h + (t - a) * g = v * c + (t * g + b) BY <1>1, <1>4, <1>5, <2>2
  <2> QED BY <1>9, <1>10, <2>1, <2>3
<1>12. CASE t < a
  <2>1. w + t - a \in 0 .. w - 1 BY <1>7, <1>12
  <2>2. (w + t - a) * g = c + t * g - a * g BY <1>1, <1>3, <1>7, <1>12
  <2>3. (v + 1) * c = v * c + c /\ v + 1 \in Nat BY <1>1
  <2>4. h + (w + t - a) * g = (v + 1) * c + (t * g + b) BY <1>1, <1>4, <1>5, <2>2, <2>3
  <2> QED BY <1>9, <1>10, <2>1, <2>3, <2>4
<1> QED BY <1>11, <1>12

\* Every group that is probed lies in the table.
LEMMA ProbedInTable ==
    ASSUME NEW c \in Capacity, NEW h \in Nat, NEW n \in Nat
    PROVE  Group(Probed(h, GroupMask(c), n)) \subseteq 0 .. c - 1
<1>1. h + n * kGroupSize \in Nat /\ c \in Nat /\ kGroupSize \in Nat
  BY GroupAssumption DEF Capacity
<1>2. PICK m \in Nat : m = Probed(h, GroupMask(c), n) /\ m + kGroupSize <= c
  BY <1>1, MaskedInTable DEF Probed
<1> QED BY <1>1, <1>2 DEF Group

LEMMA TurnsAreNat ==
    ASSUME NEW c \in Capacity
    PROVE  Turns(GroupMask(c)) \subseteq Nat
BY GroupAssumption DEF Turns, GroupMask, Capacity

-----------------------------------------------------------------------------
(* One table.                                                              *)

\* An empty slot is met by every probe, so that Open is not empty.
LEMMA OpenIfRoom ==
    ASSUME NEW c \in Capacity, NEW ctrl, NEW h \in Nat,
           NEW e \in 0 .. c - 1, ctrl[e] = kEmptyCtrl
    PROVE  Open(ctrl, h, GroupMask(c)) # {}
<1>1. PICK n \in Turns(GroupMask(c)) : e \in Group(Probed(h, GroupMask(c), n))
  BY ProbeVisitsAll
<1>2. e \in EmptyIn(ctrl, Probed(h, GroupMask(c), n))
  BY <1>1 DEF EmptyIn
<1> QED BY <1>1, <1>2 DEF Open

\* The slot a new key is given is empty and where a probe reaches it.
LEMMA FreeSlotFacts ==
    ASSUME NEW c \in Capacity, NEW ctrl, NEW h \in Nat,
           Open(ctrl, h, GroupMask(c)) # {}
    PROVE  LET i == FreeSlot(ctrl, h, GroupMask(c))
           IN  i \in 0 .. c - 1 /\ ctrl[i] = kEmptyCtrl /\ Reached(ctrl, c, h, i)
<1> DEFINE mask == GroupMask(c)
           n    == Min(Open(ctrl, h, mask))
           E    == EmptyIn(ctrl, Probed(h, mask, n))
           i    == Min(E)
<1>1. Open(ctrl, h, mask) \subseteq Nat
  BY TurnsAreNat DEF Open
<1>2. n \in Open(ctrl, h, mask) /\ \A k \in Open(ctrl, h, mask) : n <= k
  BY <1>1, MinFacts
<1>3. n \in Turns(mask) /\ n \in Nat /\ E # {}
  BY <1>1, <1>2 DEF Open
<1>4. E \subseteq 0 .. c - 1 /\ E \subseteq Nat
  BY <1>3, ProbedInTable DEF EmptyIn
<1>5. i \in E
  BY <1>3, <1>4, MinFacts
<1>6. i \in Group(Probed(h, mask, n)) /\ ctrl[i] = kEmptyCtrl
  BY <1>5 DEF EmptyIn
<1>7. ASSUME NEW k \in 0 .. n - 1 PROVE EmptyIn(ctrl, Probed(h, mask, k)) = {}
  <2> HIDE DEF n, mask
  <2>1. k \notin Open(ctrl, h, mask)
    BY <1>2, <1>3
  <2>2. k \in Turns(mask)
    BY <1>3, GroupAssumption DEF Turns, GroupMask, mask, Capacity
  <2> QED BY <2>1, <2>2 DEF Open
<1>8. Reached(ctrl, c, h, i)
  BY <1>3, <1>6, <1>7 DEF Reached, ReachedAt
<1>9. i = FreeSlot(ctrl, h, GroupMask(c))
  BY DEF FreeSlot
<1> QED BY <1>4, <1>5, <1>6, <1>8, <1>9

LEMMA OccupiedFinite ==
    ASSUME NEW c \in Nat, NEW b
    PROVE  /\ IsFiniteSet(Occupied(b, c)) /\ Cardinality(Occupied(b, c)) \in Nat
           /\ Cardinality(Occupied(b, c)) < c =>
                \E e \in 0 .. c - 1 : b.ctrl[e] = kEmptyCtrl
<1>1. IsFiniteSet(0 .. c - 1) /\ Cardinality(0 .. c - 1) = c
  BY FS_Interval
<1>2. Occupied(b, c) \subseteq 0 .. c - 1
  BY DEF Occupied
<1>3. IsFiniteSet(Occupied(b, c)) /\ Cardinality(Occupied(b, c)) \in Nat
  BY <1>1, <1>2, FS_Subset, FS_CardinalityType
<1>4. ASSUME Cardinality(Occupied(b, c)) < c
      PROVE  \E e \in 0 .. c - 1 : b.ctrl[e] = kEmptyCtrl
  <2>1. Occupied(b, c) # 0 .. c - 1
    BY <1>1, <1>3, <1>4
  <2> QED BY <1>2, <2>1 DEF Occupied
<1> QED BY <1>3, <1>4

\* A lookup returns the slot of its key and nothing else.
LEMMA LookupExact ==
    ASSUME NEW c \in Capacity, NEW b, InOrder(b, c), NEW key \in Keys
    PROVE  Lookup(b, key, GroupMask(c)) = {i \in Occupied(b, c) : b.slots[i].Key = key}
<1> DEFINE mask == GroupMask(c)
           h    == Hash(key)
<1>1. h \in Nat /\ H2(key) # kEmptyCtrl
  BY HashAssumption DEF kEmptyCtrl
<1>2. ASSUME NEW i \in Lookup(b, key, mask)
      PROVE  i \in Occupied(b, c) /\ b.slots[i].Key = key
  <2>1. PICK n \in Turns(mask) : i \in HitsIn(b, key, Probed(h, mask, n))
    BY DEF Lookup
  <2>2. i \in 0 .. c - 1
    BY <1>1, <2>1, TurnsAreNat, ProbedInTable DEF HitsIn
  <2> QED BY <1>1, <2>1, <2>2 DEF HitsIn, Occupied
<1>3. ASSUME NEW i \in Occupied(b, c), b.slots[i].Key = key
      PROVE  i \in Lookup(b, key, mask)
  <2>1. b.ctrl[i] = H2(key) /\ Reached(b.ctrl, c, h, i)
    BY <1>3 DEF InOrder
  <2>2. PICK n \in Turns(mask) : ReachedAt(b.ctrl, c, h, i, n)
    BY <2>1 DEF Reached
  <2>3. i \in HitsIn(b, key, Probed(h, mask, n))
    BY <1>3, <2>1, <2>2 DEF ReachedAt, HitsIn
  <2> QED BY <2>2, <2>3 DEF ReachedAt, Lookup
<1> QED BY <1>2, <1>3

LEMMA InOrderFindable ==
    ASSUME NEW c \in Capacity, NEW b, InOrder(b, c), NEW i \in Occupied(b, c)
    PROVE  Lookup(b, b.slots[i].Key, GroupMask(c)) = {i}
<1>1. b.slots[i].Key \in Keys
  BY DEF InOrder
<1>2. {j \in Occupied(b, c) : b.slots[j].Key = b.slots[i].Key} = {i}
  BY DEF InOrder
<1> QED BY <1>1, <1>2, LookupExact

LEMMA PutFields ==
    ASSUME NEW c \in Nat, NEW b \in Table(c), NEW i \in 0 .. c - 1,
           NEW key \in Keys, NEW val \in Vals
    PROVE  LET p == Put(b, i, key, val)
           IN  /\ p \in Table(c)
               /\ p.ctrl[i] = H2(key) /\ p.slots[i] = [Key |-> key, Value |-> val]
               /\ \A j \in 0 .. c - 1 : j # i => p.ctrl[j] = b.ctrl[j] /\ p.slots[j] = b.slots[j]
<1> DEFINE ct == [b.ctrl EXCEPT ![i] = H2(key)]
           sl == [b.slots EXCEPT ![i] = [Key |-> key, Value |-> val]]
<1>1. H2(key) \in Int
  BY HashAssumption
<1>2. b.ctrl \in [0 .. c - 1 -> Int] /\ b.slots \in [0 .. c - 1 -> Slot]
  BY DEF Table
<1>3. [Key |-> key, Value |-> val] \in Slot
  BY DEF Slot
<1>4. /\ ct \in [0 .. c - 1 -> Int] /\ ct[i] = H2(key)
      /\ \A j \in 0 .. c - 1 : j # i => ct[j] = b.ctrl[j]
  BY <1>1, <1>2
<1>5. /\ sl \in [0 .. c - 1 -> Slot] /\ sl[i] = [Key |-> key, Value |-> val]
      /\ \A j \in 0 .. c - 1 : j # i => sl[j] = b.slots[j]
  BY <1>2, <1>3
<1>6. Put(b, i, key, val) = [ctrl |-> ct, slots |-> sl]
  <2> DEFINE b1 == [b EXCEPT !.ctrl[i] = H2(key)]
             b2 == [b1 EXCEPT !.slots[i] = [Key |-> key, Value |-> val]]
  <2>1. b1 = [ctrl |-> ct, slots |-> b.slots]
    <3>1. b = [ctrl |-> b.ctrl, slots |-> b.slots]
      BY DEF Table
    <3>2. ASSUME NEW x, NEW y, b = [ctrl |-> x, slots |-> y]
          PROVE  b1 = [ctrl |-> [x EXCEPT ![i] = H2(key)], slots |-> y]
      BY <3>2
    <3> QED BY <3>1, <3>2
  <2>2. b1.slots = b.slots /\ b1.ctrl = ct
    BY <2>1
  <2> HIDE DEF b1, ct
  <2>3. b2 = [ctrl |-> ct, slots |-> sl]
    BY <2>1, <2>2
  <2> QED BY <2>3 DEF Put, b1
<1> HIDE DEF ct, sl
<1>7. [ctrl |-> ct, slots |-> sl] \in Table(c)
  BY <1>4, <1>5 DEF Table
<1> QED BY <1>4, <1>5, <1>6, <1>7

\* p is the table b with the key and its value in slot i as well.
Grown(b, p, c, i, key, val) ==
    /\ InOrder(p, c) /\ i \in 0 .. c - 1 /\ i \notin Occupied(b, c)
    /\ Occupied(p, c) = Occupied(b, c) \cup {i}
    /\ p.slots[i] = [Key |-> key, Value |-> val]
    /\ \A j \in Occupied(b, c) : p.slots[j] = b.slots[j]
    /\ Cardinality(Occupied(p, c)) = Cardinality(Occupied(b, c)) + 1

\* A new key put where FreeSlot says leaves the table in order, one element
\* larger: probes for the other keys pass no group they did not pass before.
LEMMA PutKeepsOrder ==
    ASSUME NEW c \in Capacity, NEW b, InOrder(b, c),
           NEW key \in Keys, NEW val \in Vals, key \notin KeysIn(b, c),
           Open(b.ctrl, Hash(key), GroupMask(c)) # {}
    PROVE  LET i == FreeSlot(b.ctrl, Hash(key), GroupMask(c))
               p == Put(b, i, key, val)
           IN  Grown(b, p, c, i, key, val)
<1> DEFINE i == FreeSlot(b.ctrl, Hash(key), GroupMask(c))
           p == Put(b, i, key, val)
<1>1. c \in Nat /\ b \in Table(c) /\ Hash(key) \in Nat /\ H2(key) # kEmptyCtrl
  BY HashAssumption DEF Capacity, InOrder, kEmptyCtrl
<1>2. i \in 0 .. c - 1 /\ b.ctrl[i] = kEmptyCtrl /\ Reached(b.ctrl, c, Hash(key), i)
  BY <1>1, FreeSlotFacts
<1> HIDE DEF i
<1>3. /\ p \in Table(c)
      /\ p.ctrl[i] = H2(key) /\ p.slots[i] = [Key |-> key, Value |-> val]
      /\ \A j \in 0 .. c - 1 : j # i => p.ctrl[j] = b.ctrl[j] /\ p.slots[j] = b.slots[j]
  BY <1>1, <1>2, PutFields
<1> HIDE DEF p
<1>4. Occupied(p, c) = Occupied(b, c) \cup {i} /\ i \notin Occupied(b, c)
  BY <1>1, <1>2, <1>3 DEF Occupied
<1>5. \A j \in Occupied(b, c) : j # i /\ p.ctrl[j] = b.ctrl[j] /\ p.slots[j] = b.slots[j]
  BY <1>3, <1>4 DEF Occupied
<1>6. ASSUME NEW h \in Nat, NEW j, Reached(b.ctrl, c, h, j)
      PROVE  Reached(p.ctrl, c, h, j)
  <2>1. PICK n \in Turns(GroupMask(c)) : ReachedAt(b.ctrl, c, h, j, n)
    BY <1>6 DEF Reached
  <2>2. ASSUME NEW k \in 0 .. n - 1 PROVE EmptyIn(p.ctrl, Probed(h, GroupMask(c), k)) = {}
    <3>1. k \in Nat
      BY <2>1, TurnsAreNat
    <3>2. Group(Probed(h, GroupMask(c), k)) \subseteq 0 .. c - 1
      BY <3>1, ProbedInTable
    <3>3. EmptyIn(b.ctrl, Probed(h, GroupMask(c), k)) = {}
      BY <2>1 DEF ReachedAt
    <3> QED BY <1>1, <1>3, <3>2, <3>3 DEF EmptyIn
  <2> QED BY <2>1, <2>2 DEF Reached, ReachedAt
<1>7. ASSUME NEW j \in Occupied(p, c)
      PROVE  /\ p.slots[j].Key \in Keys /\ p.slots[j].Value \in Vals
             /\ p.ctrl[j] = H2(p.slots[j].Key)
             /\ Reached(p.ctrl, c, Hash(p.slots[j].Key), j)
  <2>1. CASE j = i
    BY <1>1, <1>2, <1>3, <1>6, <2>1
  <2>2. CASE j \in Occupied(b, c)
    <3>1. /\ b.slots[j].Key \in Keys /\ b.slots[j].Value \in Vals
          /\ b.ctrl[j] = H2(b.slots[j].Key)
          /\ Reached(b.ctrl, c, Hash(b.slots[j].Key), j)
      BY <2>2 DEF InOrder
    <3>2. Hash(b.slots[j].Key) \in Nat
      BY <3>1, HashAssumption
    <3> QED BY <1>5, <1>6, <2>2, <3>1, <3>2
  <2> QED BY <1>4, <2>1, <2>2
<1>8. ASSUME NEW j \in Occupied(p, c), NEW k \in Occupied(p, c),
             p.slots[j].Key = p.slots[k].Key
      PROVE  j = k
  <2>1. \A m \in Occupied(b, c) : p.slots[m].Key # key
    BY <1>5 DEF KeysIn
  <2>2. p.slots[i].Key = key
    BY <1>3
  <2>3. CASE j \in Occupied(b, c) /\ k \in Occupied(b, c)
    BY <1>5, <1>8, <2>3 DEF InOrder
  <2> QED BY <1>4, <1>8, <2>1, <2>2, <2>3
<1>9. InOrder(p, c)
  BY <1>3, <1>7, <1>8 DEF InOrder
<1>10. Cardinality(Occupied(p, c)) = Cardinality(Occupied(b, c)) + 1
  BY <1>1, <1>4, OccupiedFinite, FS_AddElement
<1> QED BY <1>2, <1>3, <1>4, <1>5, <1>9, <1>10 DEF p, i, Grown

\* A cleared table is in order, and empty.
LEMMA ClearedInOrder ==
    ASSUME NEW c \in Capacity, NEW b \in Table(c),
           b.ctrl = [i \in 0 .. c - 1 |-> kEmptyCtrl]
    PROVE  InOrder(b, c) /\ Occupied(b, c) = {} /\ Cardinality(Occupied(b, c)) = 0
<1>1. Occupied(b, c) = {}
  BY DEF Occupied
<1>2. Cardinality({}) = 0
  BY FS_EmptySet
<1> QED BY <1>1, <1>2 DEF InOrder

LEMMA EmptyTableInOrder ==
    ASSUME NEW c \in Capacity
    PROVE  /\ InOrder(EmptyTable(c), c)
           /\ Occupied(EmptyTable(c), c) = {} /\ Cardinality(Occupied(EmptyTable(c), c)) = 0
<1>1. [i \in 0 .. c - 1 |-> kEmptyCtrl] \in [0 .. c - 1 -> Int]
  BY DEF kEmptyCtrl
<1>2. [i \in 0 .. c - 1 |-> [Key |-> NULL, Value |-> NULL]] \in [0 .. c - 1 -> Slot]
  BY DEF Slot
<1>3. EmptyTable(c) \in Table(c)
  BY <1>1, <1>2 DEF EmptyTable, Table
<1> QED BY <1>3, ClearedInOrder DEF EmptyTable

-----------------------------------------------------------------------------
(* The inductive invariant.                                                *)

TableOf(o) == mem[map[o].m_Ctrl]
Used(o)    == Occupied(TableOf(o), map[o].m_Capacity)

\* The table of a map is in order and m_Size counts its elements.
MapsInOrder ==
    \A o \in Maps :
      IF map[o].m_Ctrl = NULL THEN map[o].m_Capacity = 0 /\ map[o].m_Size = 0
      ELSE /\ map[o].m_Capacity \in Capacity
           /\ map[o].m_GroupMask = GroupMask(map[o].m_Capacity)
           /\ InOrder(TableOf(o), map[o].m_Capacity)
           /\ Cardinality(Used(o)) = map[o].m_Size

\* The table that Rehash fills holds the elements that were moved, and room
\* for those that were not.
Filling ==
    run.pc = "rehash" =>
      LET b == mem[run.to] c == run.capacity o == run.on IN
      /\ c \in Capacity /\ InOrder(b, c)
      /\ Cardinality(Occupied(b, c)) + Cardinality(Pending) = map[o].m_Size
      /\ map[o].m_Ctrl # NULL =>
           /\ \A j \in Occupied(b, c) :
                \E i \in Used(o) : i < run.index /\ b.slots[j] = TableOf(o).slots[i]
           /\ \A i \in Used(o) :
                i < run.index => \E j \in Occupied(b, c) : b.slots[j] = TableOf(o).slots[i]

\* The key that Emplace is about to insert after a rebuild is a new one.
KeyIsNew ==
    /\ run.pc = "place" => run.call.op = "emplace"
    /\ run.pc \in {"rehash", "place"} /\ run.call.op = "emplace"
         /\ map[run.on].m_Ctrl # NULL
       => run.call.key \notin KeysIn(TableOf(run.on), map[run.on].m_Capacity)

\* Whose a block is, and which slots hold constructed objects.
Owned ==
    /\ mem = [a \in Blocks |-> mem[a]]
    /\ pool \subseteq Blocks /\ alive \subseteq Blocks \X Nat
    /\ \A a \in Blocks :
         a \in pool <=> \/ \E o \in Maps : map[o].m_Ctrl = a
                        \/ run.pc = "rehash" /\ run.to = a
    /\ \A o, q \in Maps : o # q /\ map[o].m_Ctrl # NULL => map[o].m_Ctrl # map[q].m_Ctrl
    /\ run.pc = "rehash" => \A o \in Maps : map[o].m_Ctrl # run.to
    /\ \A a \in Blocks, i \in Nat :
         << a, i >> \in alive <=>
           \/ \E o \in Maps : /\ map[o].m_Ctrl = a /\ i \in Used(o)
                              /\ run.pc = "rehash" /\ run.on = o => i >= run.index
           \/ run.pc = "rehash" /\ run.to = a /\ i \in Occupied(mem[a], run.capacity)

PInv == LInv /\ MapsInOrder /\ Filling /\ KeyIsNew /\ Owned

\* What a map holds, rebuild or not, and what a step may do with it.
ElementsOf(o) ==
    IF map[o].m_Ctrl = NULL THEN {} ELSE {TableOf(o).slots[i] : i \in Used(o)}

KeepsElements == \A q \in Maps : ElementsOf(q)' = ElementsOf(q)
AddsElement(o, key, val) ==
    /\ key \notin {e.Key : e \in ElementsOf(o)}
    /\ \A q \in Maps : ElementsOf(q)' = IF q = o
                                        THEN ElementsOf(o) \cup {[Key |-> key, Value |-> val]}
                                        ELSE ElementsOf(q)
DropsElements(o) ==
    \A q \in Maps : ElementsOf(q)' = IF q = o THEN {} ELSE ElementsOf(q)
MovesElements(o, from) ==
    /\ o # from
    /\ \A q \in Maps : ElementsOf(q)' = IF q = from THEN {}
                                        ELSE IF q = o THEN ElementsOf(from) ELSE ElementsOf(q)

-----------------------------------------------------------------------------
Rehashing == [pc : {"rehash"}, on : Maps, to : Blocks, capacity : Nat,
              index : Nat, call : Calls]
Placing   == [pc : {"place"}, on : Maps, call : Calls]

LEMMA RunTypes ==
    ASSUME LInv
    PROVE  /\ run.pc \in {"idle", "rehash", "place"}
           /\ run.pc = "rehash" => run \in Rehashing
           /\ run.pc = "place" => run \in Placing
           /\ run = Idle => run.pc = "idle"
BY DEF LInv, TypeOK, Idle, Rehashing, Placing

LEMMA MapTypes ==
    ASSUME LInv, NEW o \in Maps
    PROVE  /\ map \in [Maps -> Fields] /\ map[o] \in Fields
           /\ map[o].m_Ctrl # NULL => map[o].m_Ctrl \in Blocks
           /\ map[o].m_Capacity \in Nat /\ map[o].m_Size \in Nat
           /\ map[o].m_MaxLoad \in Nat
BY DEF LInv, TypeOK, Fields

\* Nothing is skipped when m_Size is 0: then no slot is occupied.
LEMMA SizeZero ==
    ASSUME LInv, MapsInOrder, NEW o \in Maps, map[o].m_Ctrl # NULL, map[o].m_Size = 0
    PROVE  Used(o) = {}
<1>1. map[o].m_Capacity \in Nat
  BY MapTypes
<1>2. IsFiniteSet(Used(o)) /\ Cardinality(Used(o)) = 0
  BY <1>1, OccupiedFinite DEF Used, MapsInOrder
<1> QED BY <1>2, FS_EmptySet

LEMMA PendingExact ==
    ASSUME LInv, MapsInOrder, run.pc = "rehash"
    PROVE  Pending = IF map[run.on].m_Ctrl = NULL THEN {}
                     ELSE {i \in Used(run.on) : i >= run.index}
<1>1. run.on \in Maps
  BY RunTypes DEF Rehashing
<1>2. map[run.on].m_Ctrl # NULL /\ map[run.on].m_Size = 0 => Used(run.on) = {}
  BY <1>1, SizeZero
<1> QED BY <1>2 DEF Pending, Used, TableOf

LEMMA ObjectsExact ==
    ASSUME LInv, MapsInOrder, NEW o \in Maps
    PROVE  Objects(o) = IF map[o].m_Ctrl = NULL THEN {} ELSE {map[o].m_Ctrl} \X Used(o)
<1>1. map[o].m_Ctrl # NULL /\ map[o].m_Size = 0 => Used(o) = {}
  BY SizeZero
<1>2. \A x : {x} \X {} = {}
  OBVIOUS
<1> QED BY <1>1, <1>2 DEF Objects, Used, TableOf

\* The assignment of a size.
LEMMA SizeAssigned ==
    ASSUME LInv, NEW o \in Maps, NEW n \in Nat, map' = [map EXCEPT ![o].m_Size = n]
    PROVE  \A q \in Maps :
             /\ map'[q].m_Ctrl = map[q].m_Ctrl
             /\ map'[q].m_Capacity = map[q].m_Capacity
             /\ map'[q].m_GroupMask = map[q].m_GroupMask
             /\ map'[q].m_Size = IF q = o THEN n ELSE map[q].m_Size
BY DEF LInv, TypeOK, Fields

\* A table below its load limit has an empty slot, and every probe meets it.
LEMMA RoomInMap ==
    ASSUME PInv, NEW o \in Maps, map[o].m_Ctrl # NULL, NEW key \in Keys
    PROVE  Open(TableOf(o).ctrl, Hash(key), map[o].m_GroupMask) # {}
<1>1. /\ map[o].m_Capacity \in Capacity
      /\ map[o].m_GroupMask = GroupMask(map[o].m_Capacity)
      /\ Cardinality(Used(o)) = map[o].m_Size
  BY DEF PInv, MapsInOrder
<1>2. map[o].m_Size < map[o].m_Capacity /\ map[o].m_Capacity \in Nat
  BY MapTypes DEF PInv, LInv, LoadLimit
<1>3. \E e \in 0 .. map[o].m_Capacity - 1 : TableOf(o).ctrl[e] = kEmptyCtrl
  BY <1>1, <1>2, OccupiedFinite DEF Used
<1>4. Hash(key) \in Nat
  BY HashAssumption
<1> QED BY <1>1, <1>3, <1>4, OpenIfRoom

\* The same for the table that Rehash fills: it never has more elements than
\* the old one, whose size is within a smaller limit.
LEMMA RoomInRehash ==
    ASSUME PInv, run.pc = "rehash", NEW key \in Keys
    PROVE  Open(mem[run.to].ctrl, Hash(key), GroupMask(run.capacity)) # {}
<1> DEFINE c == run.capacity
           o == run.on
<1>1. o \in Maps /\ c \in Nat /\ c \in Capacity
  BY RunTypes DEF PInv, Filling, Rehashing
<1>2. IsFiniteSet(Pending)
  <2>1. map[o].m_Capacity \in Nat
    BY <1>1, MapTypes DEF PInv
  <2>2. IsFiniteSet(Used(o))
    BY <2>1, OccupiedFinite DEF Used
  <2>3. Pending \subseteq Used(o)
    BY DEF Pending, Used, TableOf
  <2> QED BY <2>2, <2>3, FS_Subset
<1>3. Cardinality(Pending) \in Nat /\ Cardinality(Occupied(mem[run.to], c)) \in Nat
  BY <1>1, <1>2, FS_CardinalityType, OccupiedFinite
<1>4. Cardinality(Occupied(mem[run.to], c)) + Cardinality(Pending) = map[o].m_Size
  BY DEF PInv, Filling
<1>5. map[o].m_Size <= map[o].m_MaxLoad /\ map[o].m_MaxLoad < MaxLoad(c)
      /\ map[o].m_Size \in Nat /\ map[o].m_MaxLoad \in Nat
  BY <1>1, MapTypes DEF PInv, LInv, LoadLimit, Growing
<1>6. MaxLoad(c) \in Nat /\ MaxLoad(c) < c
  BY <1>1, MaxLoadFacts DEF Capacity
<1>7. Cardinality(Occupied(mem[run.to], c)) < c
  BY <1>1, <1>3, <1>4, <1>5, <1>6
<1>8. \E e \in 0 .. c - 1 : mem[run.to].ctrl[e] = kEmptyCtrl
  BY <1>1, <1>7, OccupiedFinite
<1>9. Hash(key) \in Nat
  BY HashAssumption
<1> QED BY <1>1, <1>8, <1>9, OpenIfRoom

LEMMA InsertKeeps ==
    ASSUME PInv, run.pc # "rehash", NEW o \in Maps, NEW key \in Keys, NEW val \in Vals,
           map[o].m_Ctrl # NULL, key \notin KeysIn(TableOf(o), map[o].m_Capacity),
           Insert(o, key, val)
    PROVE  MapsInOrder' /\ Filling' /\ KeyIsNew' /\ Owned' /\ AddsElement(o, key, val)
<1> DEFINE a == map[o].m_Ctrl
           c == map[o].m_Capacity
           b == TableOf(o)
           i == FreeSlot(b.ctrl, Hash(key), GroupMask(c))
           p == Put(b, i, key, val)
<1>1. /\ c \in Capacity /\ c \in Nat /\ map[o].m_GroupMask = GroupMask(c)
      /\ InOrder(b, c) /\ Cardinality(Occupied(b, c)) = map[o].m_Size
      /\ a \in Blocks /\ map[o].m_Size \in Nat
  BY MapTypes DEF PInv, MapsInOrder, Used
<1>2. Grown(b, p, c, i, key, val)
  <2>1. Open(b.ctrl, Hash(key), GroupMask(c)) # {}
    BY <1>1, RoomInMap
  <2>2. key \notin KeysIn(b, c)
    OBVIOUS
  <2> HIDE DEF b, c
  <2>3. c \in Capacity /\ InOrder(b, c)
    BY <1>1
  <2> QED BY <2>1, <2>2, <2>3, PutKeepsOrder
<1>3. /\ mem' = [mem EXCEPT ![a] = p] /\ alive' = alive \cup {<< a, i >>}
      /\ run' = Idle /\ pool' = pool
      /\ map' = [map EXCEPT ![o].m_Size = map[o].m_Size + 1]
  BY <1>1 DEF Insert, TableOf
<1>4. \A q \in Maps : /\ map'[q].m_Ctrl = map[q].m_Ctrl
                      /\ map'[q].m_Capacity = map[q].m_Capacity
                      /\ map'[q].m_GroupMask = map[q].m_GroupMask
                      /\ map'[q].m_Size = IF q = o THEN map[o].m_Size + 1 ELSE map[q].m_Size
  <2>1. map[o].m_Size + 1 \in Nat
    BY <1>1
  <2> QED BY <1>3, <2>1, SizeAssigned DEF PInv
<1> HIDE DEF p, i
<1>5. mem' = [x \in Blocks |-> IF x = a THEN p ELSE mem[x]]
  BY <1>3 DEF PInv, Owned
<1>6. \A q \in Maps : map[q].m_Ctrl # NULL => TableOf(q)' = IF q = o THEN p ELSE TableOf(q)
  BY <1>1, <1>4, <1>5, MapTypes DEF TableOf, PInv, Owned
<1>7. \A q \in Maps : map[q].m_Ctrl # NULL =>
        Used(q)' = IF q = o THEN Used(o) \cup {i} ELSE Used(q)
  BY <1>2, <1>4, <1>6 DEF Grown, Used
<1>8. MapsInOrder'
  <2>1. InOrder(p, c) /\ Cardinality(Used(o) \cup {i}) = map[o].m_Size + 1
    BY <1>1, <1>2 DEF Grown, Used
  <2>2. a # NULL
    BY <1>1, PoolAssumption
  <2> HIDE DEF c
  <2>3. map[o].m_Capacity = c
    BY DEF c
  <2> QED BY <1>1, <1>4, <1>6, <1>7, <2>1, <2>2, <2>3 DEF MapsInOrder, PInv
<1>9. run'.pc = "idle"
  BY <1>3 DEF Idle
<1>10. Filling' /\ KeyIsNew'
  BY <1>9 DEF Filling, KeyIsNew
<1>11. Owned'
  <2>1. mem' = [x \in Blocks |-> mem'[x]]
    BY <1>5
  <2>2. pool' \subseteq Blocks /\ alive' \subseteq Blocks \X Nat
    BY <1>1, <1>2, <1>3 DEF Grown, PInv, Owned
  <2>3. \A x \in Blocks : x \in pool' <=> \E q \in Maps : map'[q].m_Ctrl = x
    BY <1>3, <1>4 DEF PInv, Owned
  <2>4. \A q, r \in Maps : q # r /\ map'[q].m_Ctrl # NULL => map'[q].m_Ctrl # map'[r].m_Ctrl
    BY <1>4 DEF PInv, Owned
  <2>5. ASSUME NEW x \in Blocks, NEW k \in Nat
        PROVE  << x, k >> \in alive' <=>
                 \E q \in Maps : map'[q].m_Ctrl = x /\ k \in Used(q)'
    <3>1. << x, k >> \in alive <=> \E q \in Maps : map[q].m_Ctrl = x /\ k \in Used(q)
      BY DEF PInv, Owned
    <3>2. << x, k >> \in alive' <=> << x, k >> \in alive \/ (x = a /\ k = i)
      BY <1>3
    <3>3. x # NULL
      BY PoolAssumption
    <3> QED BY <1>4, <1>7, <3>1, <3>2, <3>3
  <2> QED BY <1>9, <2>1, <2>2, <2>3, <2>4, <2>5 DEF Owned
<1>12. AddsElement(o, key, val)
  <2>1. /\ p.slots[i] = [Key |-> key, Value |-> val]
        /\ \A j \in Used(o) : p.slots[j] = TableOf(o).slots[j]
    BY <1>2 DEF Grown, Used
  <2>2. {p.slots[j] : j \in Used(o) \cup {i}}
          = {TableOf(o).slots[j] : j \in Used(o)} \cup {[Key |-> key, Value |-> val]}
    BY <2>1
  <2>3. \A q \in Maps : ElementsOf(q)' = IF q = o
                                         THEN ElementsOf(o) \cup {[Key |-> key, Value |-> val]}
                                         ELSE ElementsOf(q)
    <3>1. ElementsOf(o)' = ElementsOf(o) \cup {[Key |-> key, Value |-> val]}
      <4>1. map'[o].m_Ctrl # NULL /\ map[o].m_Ctrl # NULL
        BY <1>1, <1>4, PoolAssumption
      <4>2. TableOf(o)' = p /\ Used(o)' = Used(o) \cup {i}
        BY <1>6, <1>7, <4>1
      <4> QED BY <2>2, <4>1, <4>2 DEF ElementsOf
    <3>2. ASSUME NEW q \in Maps, q # o PROVE ElementsOf(q)' = ElementsOf(q)
      <4>1. map'[q].m_Ctrl = map[q].m_Ctrl
        BY <1>4
      <4>2. map[q].m_Ctrl # NULL => TableOf(q)' = TableOf(q) /\ Used(q)' = Used(q)
        BY <1>6, <1>7, <3>2
      <4> QED BY <4>1, <4>2 DEF ElementsOf
    <3> QED BY <3>1, <3>2
  <2>4. key \notin {e.Key : e \in ElementsOf(o)}
    BY DEF ElementsOf, KeysIn, Used
  <2> QED BY <2>3, <2>4 DEF AddsElement
<1> QED BY <1>8, <1>10, <1>11, <1>12

LEMMA RehashBeginsKeeps ==
    ASSUME PInv, run = Idle, NEW o \in Maps, NEW c, NEW call \in Calls,
           RehashBegins(o, c, call),
           call.op = "emplace" /\ map[o].m_Ctrl # NULL
             => call.key \notin KeysIn(TableOf(o), map[o].m_Capacity)
    PROVE  MapsInOrder' /\ Filling' /\ KeyIsNew' /\ Owned' /\ KeepsElements
<1>1. c \in Capacity
  BY CapacityAssumption, GroupAssumption DEF RehashBegins, Capacity
<1>2. PICK a \in Blocks \ pool :
        /\ pool' = pool \cup {a} /\ mem' = [mem EXCEPT ![a] = EmptyTable(c)]
        /\ run' = [pc |-> "rehash", on |-> o, to |-> a, capacity |-> c,
                   index |-> 0, call |-> call]
  BY DEF RehashBegins
<1>3. map' = map /\ alive' = alive /\ run.pc = "idle"
  BY DEF RehashBegins, Idle
<1>4. /\ run'.pc = "rehash" /\ run'.on = o /\ run'.to = a /\ run'.capacity = c
      /\ run'.index = 0 /\ run'.call = call
  BY <1>2
<1>5. mem' = [x \in Blocks |-> IF x = a THEN EmptyTable(c) ELSE mem[x]]
  BY <1>2 DEF PInv, Owned
<1>6. \A q \in Maps : /\ map[q].m_Ctrl # a
                      /\ map[q].m_Ctrl # NULL => map[q].m_Ctrl \in Blocks
  BY <1>2, MapTypes DEF PInv, Owned
<1>7. \A q \in Maps : map[q].m_Ctrl # NULL => TableOf(q)' = TableOf(q) /\ Used(q)' = Used(q)
  BY <1>3, <1>5, <1>6 DEF TableOf, Used
<1>8. MapsInOrder'
  BY <1>3, <1>7 DEF PInv, MapsInOrder
<1>9. /\ InOrder(mem'[a], c) /\ Occupied(mem'[a], c) = {}
      /\ Cardinality(Occupied(mem'[a], c)) = 0
  BY <1>1, <1>5, EmptyTableInOrder
<1>10. Used(o) \subseteq Nat
  BY MapTypes DEF PInv, Used, Occupied
<1>11. Cardinality(Pending') = map[o].m_Size
  <2>1. CASE map[o].m_Ctrl = NULL \/ map[o].m_Size = 0
    <3>1. Pending' = {} /\ map[o].m_Size = 0
      BY <1>3, <1>4, <2>1 DEF Pending, PInv, MapsInOrder
    <3> QED BY <3>1, FS_EmptySet
  <2>2. CASE ~(map[o].m_Ctrl = NULL \/ map[o].m_Size = 0)
    <3>1. Pending' = {i \in Used(o)' : i >= 0}
      BY <1>3, <1>4, <2>2 DEF Pending, Used, TableOf
    <3>2. Pending' = Used(o)
      BY <1>7, <1>10, <2>2, <3>1
    <3> QED BY <2>2, <3>2 DEF PInv, MapsInOrder
  <2> QED BY <2>1, <2>2
<1>12. map[o].m_Size \in Nat
  BY MapTypes DEF PInv
<1>13. Filling'
  BY <1>1, <1>3, <1>4, <1>7, <1>9, <1>10, <1>11, <1>12 DEF Filling
<1>14. KeyIsNew'
  BY <1>3, <1>4, <1>7 DEF KeyIsNew
<1>15. Owned'
  <2>1. mem' = [x \in Blocks |-> mem'[x]]
    BY <1>5
  <2>2. pool' \subseteq Blocks /\ alive' \subseteq Blocks \X Nat
    BY <1>2, <1>3 DEF PInv, Owned
  <2>3. \A x \in Blocks : x \in pool' <=> (\E q \in Maps : map'[q].m_Ctrl = x) \/ x = a
    BY <1>2, <1>3 DEF PInv, Owned
  <2>4. ASSUME NEW x \in Blocks, NEW k \in Nat
        PROVE  << x, k >> \in alive' <=>
                 \E q \in Maps : map'[q].m_Ctrl = x /\ k \in Used(q)'
    <3>1. << x, k >> \in alive <=> \E q \in Maps : map[q].m_Ctrl = x /\ k \in Used(q)
      BY <1>3 DEF PInv, Owned
    <3> QED BY <1>3, <1>7, <3>1, PoolAssumption
  <2>5. \A q, r \in Maps : q # r /\ map'[q].m_Ctrl # NULL => map'[q].m_Ctrl # map'[r].m_Ctrl
    BY <1>3 DEF PInv, Owned
  <2> QED BY <1>3, <1>4, <1>6, <1>9, <2>1, <2>2, <2>3, <2>4, <2>5 DEF Owned
<1>16. KeepsElements
  BY <1>3, <1>7 DEF KeepsElements, ElementsOf
<1> QED BY <1>8, <1>13, <1>14, <1>15, <1>16

LEMMA MigrateKeeps ==
    ASSUME PInv, Migrate
    PROVE  MapsInOrder' /\ Filling' /\ KeyIsNew' /\ Owned' /\ KeepsElements
<1> DEFINE o == run.on
           c == run.capacity
           a == run.to
           b == mem[a]
<1>1. /\ run.pc = "rehash" /\ run \in Rehashing /\ o \in Maps /\ a \in Blocks
      /\ run.index \in Nat /\ c \in Capacity /\ InOrder(b, c)
  BY RunTypes DEF Migrate, MigrateToMask, PInv, Filling, Rehashing
<1>2. PICK i \in Pending :
        /\ \A k \in Pending : i <= k
        /\ LET key == mem[map[o].m_Ctrl].slots[i].Key
               j   == FreeSlot(b.ctrl, Hash(key), GroupMask(c))
           IN  /\ mem' = [mem EXCEPT ![a] = Put(@, j, key, mem[map[o].m_Ctrl].slots[i].Value)]
               /\ alive' = (alive \ {<< map[o].m_Ctrl, i >>}) \cup {<< a, j >>}
        /\ run' = [run EXCEPT !.index = i + 1]
        /\ UNCHANGED << map, pool >>
  BY DEF Migrate, MigrateToMask
<1>3. Pending = {k \in Used(o) : k >= run.index} /\ map[o].m_Ctrl # NULL
  BY <1>1, <1>2, PendingExact DEF PInv
<1>4. Used(o) \subseteq Nat /\ IsFiniteSet(Pending) /\ i \in Used(o) /\ i \in Nat
      /\ i >= run.index /\ map[o].m_Ctrl \in Blocks
  <2>1. map[o].m_Capacity \in Nat /\ map[o].m_Ctrl \in Blocks
    BY <1>1, <1>3, MapTypes DEF PInv
  <2>2. Used(o) \subseteq Nat /\ IsFiniteSet(Used(o))
    <3>1. Used(o) \subseteq Nat
      BY <2>1 DEF Used, Occupied
    <3> QED BY <2>1, <3>1, OccupiedFinite DEF Used
  <2>3. IsFiniteSet(Pending)
    BY <1>3, <2>2, FS_Subset
  <2> QED BY <1>2, <1>3, <2>1, <2>2, <2>3
<1>0. \A k \in Used(o) : k >= i + 1 <=> (k >= run.index /\ k # i)
  <2>1. ASSUME NEW k \in Used(o), k >= run.index PROVE i <= k
    BY <1>2, <1>3, <2>1
  <2>2. run.index \in Nat /\ i \in Nat /\ i >= run.index /\ \A k \in Used(o) : k \in Nat
    BY <1>1, <1>4
  <2> QED BY <2>1, <2>2
<1> DEFINE key == TableOf(o).slots[i].Key
           val == TableOf(o).slots[i].Value
           j   == FreeSlot(b.ctrl, Hash(key), GroupMask(c))
           p   == Put(b, j, key, val)
<1>5. InOrder(TableOf(o), map[o].m_Capacity) /\ key \in Keys /\ val \in Vals
  BY <1>1, <1>3, <1>4 DEF PInv, MapsInOrder, InOrder, Used
<1>6. key \notin KeysIn(b, c)
  <2> SUFFICES ASSUME NEW k \in Occupied(b, c), b.slots[k].Key = key PROVE FALSE
    BY DEF KeysIn
  <2>1. PICK m \in Used(o) : m < run.index /\ b.slots[k] = TableOf(o).slots[m]
    BY <1>1, <1>3 DEF PInv, Filling
  <2>2. m = i
    BY <1>4, <1>5, <2>1 DEF InOrder, Used
  <2> QED BY <1>1, <1>4, <2>1, <2>2
<1>7. Grown(b, p, c, j, key, val)
  <2>1. Open(b.ctrl, Hash(key), GroupMask(c)) # {}
    BY <1>1, <1>5, RoomInRehash
  <2> HIDE DEF key, val, b, c
  <2> QED BY <1>1, <1>5, <1>6, <2>1, PutKeepsOrder
<1>8. /\ mem' = [mem EXCEPT ![a] = p] /\ map' = map /\ pool' = pool
      /\ alive' = (alive \ {<< map[o].m_Ctrl, i >>}) \cup {<< a, j >>}
  BY <1>1, <1>2 DEF TableOf
<1>9. /\ run'.pc = "rehash" /\ run'.on = o /\ run'.to = a /\ run'.capacity = c
      /\ run'.call = run.call /\ run'.index = i + 1
  BY <1>1, <1>2 DEF Rehashing
<1> HIDE DEF p, j, key, val
<1>10. mem' = [x \in Blocks |-> IF x = a THEN p ELSE mem[x]]
  BY <1>8 DEF PInv, Owned
<1>11. \A q \in Maps : /\ map[q].m_Ctrl # a
                       /\ map[q].m_Ctrl # NULL => map[q].m_Ctrl \in Blocks
  BY <1>1, MapTypes DEF PInv, Owned
<1>12. \A q \in Maps : map[q].m_Ctrl # NULL => TableOf(q)' = TableOf(q) /\ Used(q)' = Used(q)
  BY <1>8, <1>10, <1>11 DEF TableOf, Used
<1>13. MapsInOrder'
  BY <1>8, <1>12 DEF PInv, MapsInOrder
<1>14. Pending' = Pending \ {i}
  <2>1. Pending' = {k \in Used(o) : k >= i + 1}
    <3>1. map[o].m_Size # 0
      BY <1>1, <1>2 DEF Pending
    <3>2. map' = map /\ run'.on = o /\ run'.index = i + 1 /\ Used(o)' = Used(o)
      BY <1>1, <1>3, <1>8, <1>9, <1>12
    <3>3. Pending' = {k \in Used(o)' : k >= i + 1}
      BY <1>3, <3>1, <3>2 DEF Pending, Used, TableOf
    <3> QED BY <3>2, <3>3
  <2> QED BY <1>0, <1>3, <2>1
<1>15. Cardinality(Pending') = Cardinality(Pending) - 1 /\ Cardinality(Pending) \in Nat
  BY <1>2, <1>4, <1>14, FS_RemoveElement, FS_CardinalityType
<1>16. mem'[a] = p
  BY <1>1, <1>10
<1>17. Filling'
  <2>1. Cardinality(Occupied(p, c)) + Cardinality(Pending') = map[o].m_Size
    <3>1. Cardinality(Occupied(b, c)) \in Nat
      BY <1>1, OccupiedFinite DEF Capacity
    <3>2. Cardinality(Occupied(b, c)) + Cardinality(Pending) = map[o].m_Size
      BY <1>1 DEF PInv, Filling
    <3>3. Cardinality(Occupied(p, c)) = Cardinality(Occupied(b, c)) + 1
      BY <1>7 DEF Grown
    <3> QED BY <1>15, <3>1, <3>2, <3>3
  <2>2. p.slots[j] = TableOf(o).slots[i]
    <3>1. TableOf(o).slots[i] \in Slot
      BY <1>4, <1>5 DEF InOrder, Table, Used, Occupied
    <3>2. TableOf(o).slots[i] = [Key |-> key, Value |-> val]
      BY <3>1 DEF Slot, key, val
    <3> QED BY <1>7, <3>2 DEF Grown
  <2>3. ASSUME NEW k \in Occupied(p, c)
        PROVE  \E m \in Used(o) : m < i + 1 /\ p.slots[k] = TableOf(o).slots[m]
    <3>1. CASE k = j
      BY <1>4, <2>2, <3>1
    <3>2. CASE k \in Occupied(b, c)
      <4>1. PICK m \in Used(o) : m < run.index /\ b.slots[k] = TableOf(o).slots[m]
        BY <1>1, <1>3, <3>2 DEF PInv, Filling
      <4>2. m < i + 1
        BY <1>1, <1>4, <4>1
      <4>3. p.slots[k] = b.slots[k]
        BY <1>7, <3>2 DEF Grown
      <4> QED BY <4>1, <4>2, <4>3
    <3> QED BY <1>7, <3>1, <3>2 DEF Grown
  <2>4. ASSUME NEW m \in Used(o), m < i + 1
        PROVE  \E k \in Occupied(p, c) : p.slots[k] = TableOf(o).slots[m]
    <3>1. CASE m = i
      BY <1>7, <2>2, <3>1 DEF Grown
    <3>2. CASE m # i
      <4>1. m < run.index
        <5>1. m \in Nat /\ i \in Nat /\ run.index \in Nat
          BY <1>1, <1>4
        <5> QED BY <1>0, <2>4, <3>2, <5>1
      <4>2. PICK k \in Occupied(b, c) : b.slots[k] = TableOf(o).slots[m]
        BY <1>1, <1>3, <4>1 DEF PInv, Filling
      <4> QED BY <1>7, <4>2 DEF Grown
    <3> QED BY <3>1, <3>2
  <2>5. InOrder(p, c)
    BY <1>7 DEF Grown
  <2> HIDE DEF o, c, a, b
  <2> QED BY <1>1, <1>3, <1>8, <1>9, <1>12, <1>16, <2>1, <2>3, <2>4, <2>5 DEF Filling
<1>18. KeyIsNew'
  BY <1>1, <1>3, <1>8, <1>9, <1>12 DEF PInv, KeyIsNew
<1>19. Owned'
  <2>1. mem' = [x \in Blocks |-> mem'[x]]
    BY <1>10
  <2>2. j \in Nat /\ Occupied(p, c) = Occupied(b, c) \cup {j} /\ j \notin Occupied(b, c)
    BY <1>7 DEF Grown
  <2>3. pool' \subseteq Blocks /\ alive' \subseteq Blocks \X Nat
    BY <1>1, <1>8, <2>2 DEF PInv, Owned
  <2>4. \A x \in Blocks : x \in pool' <=> (\E q \in Maps : map'[q].m_Ctrl = x) \/ x = a
    BY <1>1, <1>8 DEF PInv, Owned
  <2>5. \A q, r \in Maps : q # r /\ map'[q].m_Ctrl # NULL => map'[q].m_Ctrl # map'[r].m_Ctrl
    BY <1>8 DEF PInv, Owned
  <2>6. ASSUME NEW x \in Blocks, NEW k \in Nat
        PROVE  << x, k >> \in alive' <=>
                 \/ \E q \in Maps : /\ map'[q].m_Ctrl = x /\ k \in Used(q)'
                                    /\ q = o => k >= i + 1
                 \/ a = x /\ k \in Occupied(p, c)
    <3>1. << x, k >> \in alive <=>
            \/ \E q \in Maps : map[q].m_Ctrl = x /\ k \in Used(q) /\ (q = o => k >= run.index)
            \/ a = x /\ k \in Occupied(b, c)
      BY <1>1 DEF PInv, Owned
    <3>2. << x, k >> \in alive' <=>
            (<< x, k >> \in alive /\ ~(x = map[o].m_Ctrl /\ k = i)) \/ (x = a /\ k = j)
      BY <1>8
    <3>3. x # NULL
      BY PoolAssumption
    <3>4. k \in Used(o) => (k >= i + 1 <=> (k >= run.index /\ k # i))
      BY <1>0
    <3>5. \A q \in Maps : q # o => map[q].m_Ctrl # map[o].m_Ctrl
      BY <1>1, <1>3 DEF PInv, Owned
    <3> QED BY <1>1, <1>8, <1>11, <1>12, <2>2, <3>1, <3>2, <3>3, <3>4, <3>5
  <2> HIDE DEF o, c, a, b
  <2> QED BY <1>1, <1>8, <1>9, <1>11, <1>16, <2>1, <2>3, <2>4, <2>5, <2>6 DEF Owned
<1>20. KeepsElements
  BY <1>8, <1>12 DEF KeepsElements, ElementsOf
<1> QED BY <1>13, <1>17, <1>18, <1>19, <1>20

LEMMA RehashEndsKeeps ==
    ASSUME PInv, RehashEnds
    PROVE  MapsInOrder' /\ Filling' /\ KeyIsNew' /\ Owned' /\ KeepsElements
<1>0. PICK o \in Maps, a \in Blocks, c \in Capacity :
        o = run.on /\ a = run.to /\ c = run.capacity
  BY RunTypes DEF RehashEnds, PInv, Filling, Rehashing
<1> DEFINE old == map[o].m_Ctrl
<1>1. /\ run.pc = "rehash" /\ o = run.on /\ a = run.to /\ c = run.capacity
      /\ InOrder(mem[a], c) /\ Pending = {}
  BY <1>0 DEF RehashEnds, PInv, Filling
<1>2. Cardinality(Occupied(mem[a], c)) = map[o].m_Size
  <2>1. Cardinality(Pending) = 0
    BY <1>1, FS_EmptySet
  <2>2. Cardinality(Occupied(mem[a], c)) \in Nat
    BY <1>1, OccupiedFinite DEF Capacity
  <2> QED BY <1>1, <2>1, <2>2 DEF PInv, Filling
<1>3. /\ pool' = pool \ {old} /\ alive' = alive
      /\ mem' = [x \in Blocks |-> IF x = old THEN Released ELSE mem[x]]
      /\ run' = IF run.call.op = "emplace"
                THEN [pc |-> "place", on |-> o, call |-> run.call] ELSE Idle
  BY <1>1 DEF RehashEnds
<1>4. \A q \in Maps :
        /\ map'[q].m_Ctrl = IF q = o THEN a ELSE map[q].m_Ctrl
        /\ map'[q].m_Capacity = IF q = o THEN c ELSE map[q].m_Capacity
        /\ map'[q].m_GroupMask = IF q = o THEN GroupMask(c) ELSE map[q].m_GroupMask
        /\ map'[q].m_Size = map[q].m_Size
  <2>1. map \in [Maps -> Fields]
    BY DEF PInv, LInv, TypeOK
  <2> QED BY <1>1, <2>1 DEF RehashEnds
<1>5. \A q \in Maps : /\ map[q].m_Ctrl # a
                      /\ map[q].m_Ctrl # NULL => map[q].m_Ctrl \in Blocks
  BY <1>1, MapTypes DEF PInv, Owned
<1>6. \A q \in Maps : q # o /\ map[q].m_Ctrl # NULL =>
        map[q].m_Ctrl # old /\ TableOf(q)' = TableOf(q) /\ Used(q)' = Used(q)
  BY <1>1, <1>3, <1>4, <1>5 DEF TableOf, Used, PInv, Owned
<1>7. TableOf(o)' = mem[a] /\ Used(o)' = Occupied(mem[a], c)
  BY <1>1, <1>3, <1>4, <1>5 DEF TableOf, Used
<1>8. MapsInOrder'
  <2>1. a # NULL
    BY <1>1, PoolAssumption
  <2> QED BY <1>1, <1>2, <1>4, <1>6, <1>7, <2>1 DEF PInv, MapsInOrder
<1>9. run'.pc # "rehash"
  BY <1>3 DEF Idle
<1>10. Filling'
  BY <1>9 DEF Filling
<1>11. KeyIsNew'
  <2>1. ASSUME run.call.op = "emplace", NEW j \in Occupied(mem[a], c)
        PROVE  mem[a].slots[j].Key # run.call.key
    <3>1. old # NULL
      <4>1. IsFiniteSet(Occupied(mem[a], c))
        BY <1>1, OccupiedFinite DEF Capacity
      <4>2. Cardinality(Occupied(mem[a], c)) # 0
        BY <2>1, <4>1, FS_EmptySet
      <4> QED BY <1>1, <1>2, <4>2 DEF PInv, MapsInOrder
    <3>2. PICK i \in Used(o) : mem[a].slots[j] = TableOf(o).slots[i]
      BY <1>1, <3>1 DEF PInv, Filling
    <3>3. TableOf(o).slots[i].Key \in KeysIn(TableOf(o), map[o].m_Capacity)
      BY DEF KeysIn, Used
    <3> QED BY <1>1, <2>1, <3>1, <3>2, <3>3 DEF PInv, KeyIsNew
  <2>2. CASE run.call.op = "emplace"
    <3>1. run'.pc = "place" /\ run'.on = o /\ run'.call = run.call
      BY <1>3, <2>2
    <3>2. run.call.key \notin KeysIn(mem[a], c)
      BY <2>1, <2>2 DEF KeysIn
    <3> QED BY <1>1, <1>4, <1>7, <2>2, <3>1, <3>2 DEF KeyIsNew
  <2>3. CASE run.call.op # "emplace"
    BY <1>3, <2>3 DEF KeyIsNew, Idle
  <2> QED BY <2>2, <2>3
<1>12. Owned'
  <2>1. mem' = [x \in Blocks |-> mem'[x]]
    BY <1>3
  <2>2. pool' \subseteq Blocks /\ alive' \subseteq Blocks \X Nat
    BY <1>3 DEF PInv, Owned
  <2>3. ASSUME NEW x \in Blocks
        PROVE  x \in pool' <=> \E q \in Maps : map'[q].m_Ctrl = x
    <3>1. x \in pool <=> (\E q \in Maps : map[q].m_Ctrl = x) \/ x = a
      BY <1>1 DEF PInv, Owned
    <3> QED BY <1>1, <1>3, <1>4, <1>5, <1>6, <3>1, PoolAssumption
  <2>4. \A q, r \in Maps : q # r /\ map'[q].m_Ctrl # NULL => map'[q].m_Ctrl # map'[r].m_Ctrl
    BY <1>4, <1>5 DEF PInv, Owned
  <2>5. ASSUME NEW x \in Blocks, NEW k \in Nat
        PROVE  << x, k >> \in alive' <=>
                 \E q \in Maps : map'[q].m_Ctrl = x /\ k \in Used(q)'
    <3>1. << x, k >> \in alive <=>
            \/ \E q \in Maps : map[q].m_Ctrl = x /\ k \in Used(q) /\ (q = o => k >= run.index)
            \/ a = x /\ k \in Occupied(mem[a], c)
      BY <1>1 DEF PInv, Owned
    <3>2. x # NULL
      BY PoolAssumption
    <3>3. old = x => ~(k \in Used(o) /\ k >= run.index)
      BY <1>1, <3>2, PendingExact DEF PInv
    <3> QED BY <1>1, <1>3, <1>4, <1>5, <1>6, <1>7, <3>1, <3>2, <3>3
  <2> QED BY <1>9, <2>1, <2>2, <2>3, <2>4, <2>5 DEF Owned
<1>13. {mem[a].slots[j] : j \in Occupied(mem[a], c)} = ElementsOf(o)
  <2>1. CASE old = NULL
    <3>1. IsFiniteSet(Occupied(mem[a], c)) /\ Cardinality(Occupied(mem[a], c)) = 0
      BY <1>1, <1>2, <2>1, OccupiedFinite DEF Capacity, PInv, MapsInOrder
    <3>2. Occupied(mem[a], c) = {}
      BY <3>1, FS_EmptySet
    <3> QED BY <2>1, <3>2 DEF ElementsOf
  <2>2. CASE old # NULL
    <3>1. \A i \in Used(o) : i < run.index
      <4>1. \A i \in Used(o) : i \in Nat /\ run.index \in Nat
        BY <1>1, MapTypes, RunTypes DEF PInv, Used, Occupied, Rehashing
      <4>2. \A i \in Used(o) : ~(i >= run.index)
        BY <1>1, <2>2, PendingExact DEF PInv
      <4> QED BY <4>1, <4>2
    <3>2. \A j \in Occupied(mem[a], c) : \E i \in Used(o) : mem[a].slots[j] = TableOf(o).slots[i]
      BY <1>1, <2>2 DEF PInv, Filling
    <3>3. \A i \in Used(o) : \E j \in Occupied(mem[a], c) : mem[a].slots[j] = TableOf(o).slots[i]
      BY <1>1, <2>2, <3>1 DEF PInv, Filling
    <3> QED BY <2>2, <3>2, <3>3 DEF ElementsOf
  <2> QED BY <2>1, <2>2
<1>14. KeepsElements
  <2>1. ElementsOf(o)' = ElementsOf(o)
    <3>1. map'[o].m_Ctrl # NULL
      BY <1>1, <1>4, PoolAssumption
    <3> QED BY <1>7, <1>13, <3>1 DEF ElementsOf
  <2>2. ASSUME NEW q \in Maps, q # o PROVE ElementsOf(q)' = ElementsOf(q)
    <3>1. map'[q].m_Ctrl = map[q].m_Ctrl
      BY <1>4, <2>2
    <3>2. map[q].m_Ctrl # NULL => TableOf(q)' = TableOf(q) /\ Used(q)' = Used(q)
      BY <1>6, <2>2
    <3> QED BY <3>1, <3>2 DEF ElementsOf
  <2> QED BY <2>1, <2>2 DEF KeepsElements
<1> QED BY <1>8, <1>10, <1>11, <1>12, <1>14

LEMMA ClearKeeps ==
    ASSUME PInv, NEW o \in Maps, Clear(o)
    PROVE  MapsInOrder' /\ Filling' /\ KeyIsNew' /\ Owned' /\ DropsElements(o)
<1>1. /\ run = Idle /\ run' = Idle /\ pool' = pool /\ run.pc = "idle"
      /\ map' = [map EXCEPT ![o].m_Size = 0]
      /\ alive' = alive \ Objects(o)
  BY DEF Clear, Idle
<1>2. \A q \in Maps : /\ map'[q].m_Ctrl = map[q].m_Ctrl
                      /\ map'[q].m_Capacity = map[q].m_Capacity
                      /\ map'[q].m_GroupMask = map[q].m_GroupMask
                      /\ map'[q].m_Size = IF q = o THEN 0 ELSE map[q].m_Size
  <2>1. 0 \in Nat
    OBVIOUS
  <2> QED BY <1>1, <2>1, SizeAssigned DEF PInv
<1>3. \A q \in Maps : map[q].m_Ctrl # NULL => map[q].m_Ctrl \in Blocks
  BY MapTypes DEF PInv
<1>4. mem' = [x \in Blocks |-> mem'[x]]
      /\ \A q \in Maps : map[q].m_Ctrl # NULL /\ q # o => mem'[map[q].m_Ctrl] = TableOf(q)
  BY <1>3 DEF Clear, TableOf, PInv, Owned
<1>5. \A q \in Maps : map[q].m_Ctrl # NULL /\ q # o => TableOf(q)' = TableOf(q) /\ Used(q)' = Used(q)
  BY <1>2, <1>4 DEF TableOf, Used
<1>6. map[o].m_Ctrl # NULL =>
        /\ InOrder(TableOf(o)', map[o].m_Capacity)
        /\ Used(o)' = {} /\ Cardinality(Used(o)') = 0
  <2> SUFFICES ASSUME map[o].m_Ctrl # NULL
               PROVE  /\ InOrder(TableOf(o)', map[o].m_Capacity)
                      /\ Used(o)' = {} /\ Cardinality(Used(o)') = 0
    OBVIOUS
  <2> DEFINE c == map[o].m_Capacity
             b == TableOf(o)
  <2>1. c \in Capacity /\ InOrder(b, c) /\ b \in Table(c) /\ Used(o) = Occupied(b, c)
    BY DEF PInv, MapsInOrder, InOrder, Used
  <2>2. CASE map[o].m_Size = 0
    <3>1. Used(o) = {} /\ Cardinality({}) = 0
      BY <2>2, SizeZero, FS_EmptySet DEF PInv
    <3>2. mem' = mem
      BY <2>2 DEF Clear
    <3>3. TableOf(o)' = b /\ Used(o)' = Used(o)
      BY <1>2, <3>2 DEF TableOf, Used
    <3> QED BY <2>1, <3>1, <3>3
  <2>3. CASE map[o].m_Size # 0
    <3> DEFINE ct == [i \in 0 .. c - 1 |-> kEmptyCtrl]
    <3>1. mem' = [mem EXCEPT ![map[o].m_Ctrl].ctrl = ct]
      BY <2>3 DEF Clear
    <3>2. TableOf(o)' = [b EXCEPT !.ctrl = ct]
      <4> HIDE DEF ct
      <4> QED BY <1>2, <1>3, <3>1 DEF TableOf, PInv, Owned
    <3>3. ct \in [0 .. c - 1 -> Int]
      BY DEF kEmptyCtrl
    <3>4. TableOf(o)' \in Table(c) /\ (TableOf(o)').ctrl = ct
      <4> HIDE DEF ct, b, c
      <4> QED BY <2>1, <3>2, <3>3 DEF Table
    <3>5. /\ InOrder(TableOf(o)', c) /\ Occupied(TableOf(o)', c) = {}
          /\ Cardinality(Occupied(TableOf(o)', c)) = 0
      BY <2>1, <3>4, ClearedInOrder
    <3> QED BY <1>2, <3>5 DEF Used
  <2> QED BY <2>2, <2>3
<1>7. MapsInOrder'
  BY <1>2, <1>5, <1>6 DEF PInv, MapsInOrder
<1>8. Filling' /\ KeyIsNew'
  BY <1>1 DEF Filling, KeyIsNew, Idle
<1>9. Owned'
  <2>1. alive' \subseteq Blocks \X Nat /\ pool' \subseteq Blocks
    BY <1>1 DEF PInv, Owned
  <2>2. ASSUME NEW x \in Blocks, NEW k \in Nat
        PROVE  << x, k >> \in alive' <=>
                 \E q \in Maps : map'[q].m_Ctrl = x /\ k \in Used(q)'
    <3>1. << x, k >> \in alive <=> \E q \in Maps : map[q].m_Ctrl = x /\ k \in Used(q)
      BY <1>1 DEF PInv, Owned
    <3>2. << x, k >> \in Objects(o) <=> map[o].m_Ctrl = x /\ k \in Used(o)
      BY ObjectsExact, PoolAssumption DEF PInv
    <3>3. x # NULL
      BY PoolAssumption
    <3>4. \A q \in Maps : q # o /\ map[o].m_Ctrl # NULL => map[q].m_Ctrl # map[o].m_Ctrl
      BY DEF PInv, Owned
    <3> QED BY <1>1, <1>2, <1>5, <1>6, <3>1, <3>2, <3>3, <3>4
  <2>3. \A x \in Blocks : x \in pool' <=> \E q \in Maps : map'[q].m_Ctrl = x
    BY <1>1, <1>2 DEF PInv, Owned
  <2>4. \A q, r \in Maps : q # r /\ map'[q].m_Ctrl # NULL => map'[q].m_Ctrl # map'[r].m_Ctrl
    BY <1>2 DEF PInv, Owned
  <2>5. run'.pc = "idle"
    BY <1>1 DEF Idle
  <2> QED BY <1>4, <2>1, <2>2, <2>3, <2>4, <2>5 DEF Owned
<1>10. DropsElements(o)
  <2>1. ElementsOf(o)' = {}
    BY <1>2, <1>6 DEF ElementsOf
  <2>2. ASSUME NEW q \in Maps, q # o PROVE ElementsOf(q)' = ElementsOf(q)
    BY <1>2, <1>5, <2>2 DEF ElementsOf
  <2> QED BY <2>1, <2>2 DEF DropsElements
<1> QED BY <1>7, <1>8, <1>9, <1>10

\* The table of a map goes back to the pool and nothing of it is left.
LEMMA ReleaseFacts ==
    ASSUME PInv, run = Idle, run' = Idle, NEW o \in Maps, Release(o)
    PROVE  /\ mem' = [x \in Blocks |-> mem'[x]]
           /\ pool' \subseteq Blocks /\ alive' \subseteq Blocks \X Nat
           /\ \A q \in Maps : q # o /\ map[q].m_Ctrl # NULL =>
                mem'[map[q].m_Ctrl] = TableOf(q)
           /\ \A x \in Blocks :
                x \in pool' <=> \E q \in Maps : q # o /\ map[q].m_Ctrl = x
           /\ \A x \in Blocks, k \in Nat :
                << x, k >> \in alive' <=>
                  \E q \in Maps : q # o /\ map[q].m_Ctrl = x /\ k \in Used(q)
<1>1. /\ mem' = [x \in Blocks |-> IF x = map[o].m_Ctrl THEN Released ELSE mem[x]]
      /\ pool' = pool \ {map[o].m_Ctrl} /\ alive' = alive \ Objects(o)
  BY DEF Release
<1>2. run.pc = "idle"
  BY DEF Idle
<1>3. \A q \in Maps : map[q].m_Ctrl # NULL => map[q].m_Ctrl \in Blocks
  BY MapTypes DEF PInv
<1>4. \A q \in Maps : q # o /\ map[q].m_Ctrl # NULL => map[q].m_Ctrl # map[o].m_Ctrl
  BY DEF PInv, Owned
<1>5. ASSUME NEW x \in Blocks, NEW k \in Nat
      PROVE  << x, k >> \in alive' <=>
               \E q \in Maps : q # o /\ map[q].m_Ctrl = x /\ k \in Used(q)
  <2>1. << x, k >> \in alive <=> \E q \in Maps : map[q].m_Ctrl = x /\ k \in Used(q)
    BY <1>2 DEF PInv, Owned
  <2>2. << x, k >> \in Objects(o) <=> map[o].m_Ctrl = x /\ k \in Used(o)
    BY ObjectsExact, PoolAssumption DEF PInv
  <2>3. x # NULL
    BY PoolAssumption
  <2> QED BY <1>1, <1>4, <2>1, <2>2, <2>3
<1>6. ASSUME NEW x \in Blocks
      PROVE  x \in pool' <=> \E q \in Maps : q # o /\ map[q].m_Ctrl = x
  <2>1. x \in pool <=> \E q \in Maps : map[q].m_Ctrl = x
    BY <1>2 DEF PInv, Owned
  <2>2. x # NULL
    BY PoolAssumption
  <2> QED BY <1>1, <1>4, <2>1, <2>2
<1>7. pool' \subseteq Blocks /\ alive' \subseteq Blocks \X Nat
  BY <1>1 DEF PInv, Owned
<1>8. \A q \in Maps : q # o /\ map[q].m_Ctrl # NULL => mem'[map[q].m_Ctrl] = TableOf(q)
  BY <1>1, <1>3, <1>4 DEF TableOf
<1> QED BY <1>1, <1>5, <1>6, <1>7, <1>8

LEMMA DestroyKeeps ==
    ASSUME PInv, NEW o \in Maps, Destroy(o)
    PROVE  MapsInOrder' /\ Filling' /\ KeyIsNew' /\ Owned' /\ DropsElements(o)
<1>1. run = Idle /\ run' = Idle /\ Release(o) /\ run'.pc = "idle"
  BY DEF Destroy, Idle
<1>2. \A q \in Maps : map'[q] = IF q = o THEN Unbuilt ELSE map[q]
  BY DEF Destroy, PInv, LInv, TypeOK
<1>3. \A q \in Maps : map'[q].m_Ctrl # NULL =>
        q # o /\ map[q].m_Ctrl # NULL /\ TableOf(q)' = TableOf(q) /\ Used(q)' = Used(q)
  BY <1>1, <1>2, ReleaseFacts DEF TableOf, Used, Unbuilt
<1>4. MapsInOrder'
  BY <1>2, <1>3 DEF PInv, MapsInOrder, Unbuilt
<1>5. Filling' /\ KeyIsNew'
  BY <1>1 DEF Filling, KeyIsNew
<1>6. Owned'
  <2>1. \A q \in Maps : map'[q].m_Ctrl = IF q = o THEN NULL ELSE map[q].m_Ctrl
    BY <1>2 DEF Unbuilt
  <2>2. \A x \in Blocks : x \in pool' <=> \E q \in Maps : map'[q].m_Ctrl = x
    BY <1>1, <2>1, ReleaseFacts, PoolAssumption
  <2>3. ASSUME NEW x \in Blocks, NEW k \in Nat
        PROVE  << x, k >> \in alive' <=>
                 \E q \in Maps : map'[q].m_Ctrl = x /\ k \in Used(q)'
    <3>1. << x, k >> \in alive' <=>
            \E q \in Maps : q # o /\ map[q].m_Ctrl = x /\ k \in Used(q)
      BY <1>1, ReleaseFacts
    <3>2. x # NULL
      BY PoolAssumption
    <3> QED BY <1>3, <2>1, <3>1, <3>2
  <2>4. \A q, r \in Maps : q # r /\ map'[q].m_Ctrl # NULL => map'[q].m_Ctrl # map'[r].m_Ctrl
    BY <2>1 DEF PInv, Owned
  <2>5. /\ mem' = [x \in Blocks |-> mem'[x]]
        /\ pool' \subseteq Blocks /\ alive' \subseteq Blocks \X Nat
    BY <1>1, ReleaseFacts
  <2> QED BY <1>1, <2>2, <2>3, <2>4, <2>5 DEF Owned
<1>7. DropsElements(o)
  BY <1>2, <1>3 DEF DropsElements, ElementsOf, Unbuilt
<1> QED BY <1>4, <1>5, <1>6, <1>7

LEMMA MoveKeeps ==
    ASSUME PInv, NEW o \in Maps, NEW from \in Maps, MoveAssign(o, from)
    PROVE  MapsInOrder' /\ Filling' /\ KeyIsNew' /\ Owned' /\ MovesElements(o, from)
<1>1. run = Idle /\ run' = Idle /\ Release(o) /\ run'.pc = "idle" /\ o # from
  BY DEF MoveAssign, Idle
<1>2. \A q \in Maps : map'[q] = IF q = from THEN Unbuilt
                                ELSE IF q = o THEN map[from] ELSE map[q]
  BY <1>1 DEF MoveAssign, PInv, LInv, TypeOK
<1> DEFINE src(q) == IF q = o THEN from ELSE q
<1>3. \A q \in Maps : map'[q].m_Ctrl # NULL =>
        /\ src(q) # o /\ src(q) \in Maps /\ q # from /\ map'[q] = map[src(q)]
        /\ map[src(q)].m_Ctrl # NULL
        /\ TableOf(q)' = TableOf(src(q)) /\ Used(q)' = Used(src(q))
  BY <1>1, <1>2, ReleaseFacts DEF TableOf, Used, Unbuilt
<1>4. MapsInOrder'
  <2>1. ASSUME NEW q \in Maps, map'[q].m_Ctrl = NULL
        PROVE  map'[q].m_Capacity = 0 /\ map'[q].m_Size = 0
    BY <1>2, <2>1 DEF PInv, MapsInOrder, Unbuilt
  <2>2. ASSUME NEW q \in Maps, map'[q].m_Ctrl # NULL
        PROVE  /\ map'[q].m_Capacity \in Capacity
               /\ map'[q].m_GroupMask = GroupMask(map'[q].m_Capacity)
               /\ InOrder(TableOf(q)', map'[q].m_Capacity)
               /\ Cardinality(Used(q)') = map'[q].m_Size
    BY <1>3, <2>2 DEF PInv, MapsInOrder
  <2> QED BY <2>1, <2>2 DEF MapsInOrder
<1>5. Filling' /\ KeyIsNew'
  BY <1>1 DEF Filling, KeyIsNew
<1>6. Owned'
  <2>1. \A q \in Maps : map'[q].m_Ctrl = IF q = from THEN NULL
                                         ELSE IF q = o THEN map[from].m_Ctrl ELSE map[q].m_Ctrl
    BY <1>2 DEF Unbuilt
  <2>2. ASSUME NEW x \in Blocks
        PROVE  x \in pool' <=> \E q \in Maps : map'[q].m_Ctrl = x
    <3>1. x \in pool' <=> \E q \in Maps : q # o /\ map[q].m_Ctrl = x
      BY <1>1, ReleaseFacts
    <3>2. x # NULL
      BY PoolAssumption
    <3> QED BY <1>1, <2>1, <3>1, <3>2
  <2>3. ASSUME NEW x \in Blocks, NEW k \in Nat
        PROVE  << x, k >> \in alive' <=>
                 \E q \in Maps : map'[q].m_Ctrl = x /\ k \in Used(q)'
    <3>1. << x, k >> \in alive' <=>
            \E q \in Maps : q # o /\ map[q].m_Ctrl = x /\ k \in Used(q)
      BY <1>1, ReleaseFacts
    <3>2. x # NULL
      BY PoolAssumption
    <3>3. ASSUME NEW q \in Maps, q # o, map[q].m_Ctrl = x, k \in Used(q)
          PROVE  \E r \in Maps : map'[r].m_Ctrl = x /\ k \in Used(r)'
      <4>1. CASE q = from
        BY <1>1, <1>3, <2>1, <3>2, <3>3, <4>1
      <4>2. CASE q # from
        BY <1>3, <2>1, <3>2, <3>3, <4>2
      <4> QED BY <4>1, <4>2
    <3>4. ASSUME NEW r \in Maps, map'[r].m_Ctrl = x, k \in Used(r)'
          PROVE  \E q \in Maps : q # o /\ map[q].m_Ctrl = x /\ k \in Used(q)
      BY <1>3, <3>2, <3>4
    <3> QED BY <3>1, <3>3, <3>4
  <2>4. \A q, r \in Maps : q # r /\ map'[q].m_Ctrl # NULL => map'[q].m_Ctrl # map'[r].m_Ctrl
    BY <1>1, <2>1 DEF PInv, Owned
  <2>5. /\ mem' = [x \in Blocks |-> mem'[x]]
        /\ pool' \subseteq Blocks /\ alive' \subseteq Blocks \X Nat
    BY <1>1, ReleaseFacts
  <2> QED BY <1>1, <2>2, <2>3, <2>4, <2>5 DEF Owned
<1>7. MovesElements(o, from)
  <2>1. ElementsOf(from)' = {}
    BY <1>2 DEF ElementsOf, Unbuilt
  <2>2. ElementsOf(o)' = ElementsOf(from)
    BY <1>1, <1>2, <1>3 DEF ElementsOf
  <2>3. ASSUME NEW q \in Maps, q # o, q # from PROVE ElementsOf(q)' = ElementsOf(q)
    BY <1>2, <1>3, <2>3 DEF ElementsOf
  <2> QED BY <1>1, <2>1, <2>2, <2>3 DEF MovesElements
<1> QED BY <1>4, <1>5, <1>6, <1>7

LEMMA UnchangedKeeps ==
    ASSUME PInv, UNCHANGED vars
    PROVE  MapsInOrder' /\ Filling' /\ KeyIsNew' /\ Owned' /\ KeepsElements
<1>1. map' = map /\ mem' = mem /\ pool' = pool /\ alive' = alive /\ run' = run
  BY DEF vars
<1>2. \A o : TableOf(o)' = TableOf(o) /\ Used(o)' = Used(o)
  BY <1>1 DEF TableOf, Used
<1>3. MapsInOrder'
  BY <1>1, <1>2 DEF PInv, MapsInOrder
<1>4. Filling'
  <2>1. Pending' = Pending
    BY <1>1 DEF Pending
  <2> QED BY <1>1, <1>2, <2>1 DEF PInv, Filling
<1>5. KeyIsNew'
  BY <1>1 DEF PInv, KeyIsNew, TableOf
<1>6. Owned'
  BY <1>1, <1>2 DEF PInv, Owned
<1>7. KeepsElements
  BY <1>1, <1>2 DEF KeepsElements, ElementsOf
<1> QED BY <1>3, <1>4, <1>5, <1>6, <1>7

\* IsNew tells whether the key is in the table.
LEMMA IsNewExact ==
    ASSUME PInv, NEW o \in Maps, NEW key \in Keys, IsNew(o, key), map[o].m_Ctrl # NULL
    PROVE  key \notin KeysIn(TableOf(o), map[o].m_Capacity)
<1> DEFINE c == map[o].m_Capacity
           b == TableOf(o)
<1>1. c \in Capacity /\ InOrder(b, c) /\ map[o].m_GroupMask = GroupMask(c)
  BY DEF PInv, MapsInOrder
<1>2. c # 0
  BY <1>1 DEF Capacity
<1>3. Lookup(b, key, GroupMask(c)) = {}
  BY <1>1, <1>2 DEF IsNew, TableOf
<1>4. Lookup(b, key, GroupMask(c)) = {i \in Occupied(b, c) : b.slots[i].Key = key}
  <2> HIDE DEF b, c
  <2> QED BY <1>1, LookupExact
<1> QED BY <1>3, <1>4 DEF KeysIn

LEMMA EmplaceKeeps ==
    ASSUME PInv, NEW o \in Maps, Emplace(o)
    PROVE  /\ MapsInOrder' /\ Filling' /\ KeyIsNew' /\ Owned'
           /\ KeepsElements \/ \E key \in Keys, val \in Vals : AddsElement(o, key, val)
<1>1. PICK key \in Keys, val \in Vals :
        EmplaceNothing(o, key) \/ EmplaceInPlace(o, key, val) \/ EmplaceGrowing(o, key, val)
  BY DEF Emplace
<1>2. CASE EmplaceNothing(o, key)
  BY <1>2, UnchangedKeeps DEF EmplaceNothing
<1>3. CASE EmplaceInPlace(o, key, val)
  <2>1. run.pc # "rehash" /\ map[o].m_Ctrl # NULL /\ IsNew(o, key) /\ Insert(o, key, val)
    BY <1>3 DEF EmplaceInPlace, Idle, PInv, MapsInOrder
  <2> QED BY <2>1, IsNewExact, InsertKeeps
<1>4. CASE EmplaceGrowing(o, key, val)
  <2> DEFINE call == [op |-> "emplace", key |-> key, val |-> val]
             c    == IF map[o].m_Capacity = 0 THEN FirstCapacity ELSE 2 * map[o].m_Capacity
  <2>1. run = Idle /\ IsNew(o, key) /\ RehashBegins(o, c, call)
    BY <1>4 DEF EmplaceGrowing
  <2>2. call \in Calls /\ call.key = key
    BY DEF Calls
  <2>3. map[o].m_Ctrl # NULL => call.key \notin KeysIn(TableOf(o), map[o].m_Capacity)
    BY <2>1, <2>2, IsNewExact
  <2> HIDE DEF call, c
  <2> QED BY <2>1, <2>2, <2>3, RehashBeginsKeeps
<1> QED BY <1>1, <1>2, <1>3, <1>4

LEMMA ReserveKeeps ==
    ASSUME PInv, NEW o \in Maps, Reserve(o)
    PROVE  MapsInOrder' /\ Filling' /\ KeyIsNew' /\ Owned' /\ KeepsElements
<1>1. PICK n \in Requests : ReserveNothing(o, n) \/ ReserveGrowing(o, n)
  BY DEF Reserve
<1>2. CASE ReserveNothing(o, n)
  BY <1>2, UnchangedKeeps DEF ReserveNothing
<1>3. CASE ReserveGrowing(o, n)
  <2> DEFINE call == [op |-> "reserve", need |-> n]
  <2>1. run = Idle /\ \E c \in Capacities : RehashBegins(o, c, call)
    BY <1>3 DEF ReserveGrowing
  <2>2. call \in Calls /\ call.op # "emplace"
    BY RequestAssumption DEF Calls
  <2> HIDE DEF call
  <2> QED BY <2>1, <2>2, RehashBeginsKeeps
<1> QED BY <1>1, <1>2, <1>3

LEMMA PlaceKeeps ==
    ASSUME PInv, EmplaceAfterRehash
    PROVE  /\ MapsInOrder' /\ Filling' /\ KeyIsNew' /\ Owned'
           /\ \E o \in Maps, key \in Keys, val \in Vals : AddsElement(o, key, val)
<1>1. /\ run.pc = "place" /\ run \in Placing /\ run.call.op = "emplace"
      /\ Insert(run.on, run.call.key, run.call.val)
  BY RunTypes DEF EmplaceAfterRehash, PInv, KeyIsNew
<1>2. run.on \in Maps /\ run.call.key \in Keys /\ run.call.val \in Vals
  BY <1>1 DEF Placing, Calls
<1>3. map[run.on].m_Ctrl # NULL
  <2>1. map[run.on].m_Size < map[run.on].m_MaxLoad /\ map[run.on].m_Size \in Nat
    BY <1>1, <1>2, MapTypes DEF PInv, LInv, Growing
  <2> QED BY <1>2, <2>1 DEF PInv, LInv, Limits, MapsInOrder
<1>4. run.call.key \notin KeysIn(TableOf(run.on), map[run.on].m_Capacity)
  BY <1>1, <1>3 DEF PInv, KeyIsNew
<1>5. PICK o \in Maps, key \in Keys, val \in Vals :
        o = run.on /\ key = run.call.key /\ val = run.call.val
  BY <1>2
<1> QED BY <1>1, <1>3, <1>4, <1>5, InsertKeeps

LEMMA InitPInv == Init => PInv
<1> SUFFICES ASSUME Init PROVE PInv
  OBVIOUS
<1>1. LInv
  BY InitLInv
<1>2. \A o \in Maps : map[o] = Unbuilt
  BY DEF Init
<1>3. \A o \in Maps : map[o].m_Ctrl = NULL /\ map[o].m_Capacity = 0 /\ map[o].m_Size = 0
  BY <1>2 DEF Unbuilt
<1>4. MapsInOrder
  BY <1>3 DEF MapsInOrder
<1>5. Filling /\ KeyIsNew
  BY DEF Init, Idle, Filling, KeyIsNew
<1>6. Owned
  BY <1>3, PoolAssumption DEF Init, Idle, Owned
<1> QED BY <1>1, <1>4, <1>5, <1>6 DEF PInv

LEMMA StepPInv == PInv /\ [Next]_vars => PInv'
<1> SUFFICES ASSUME PInv, [Next]_vars PROVE PInv'
  OBVIOUS
<1>1. LInv'
  BY StepLInv DEF PInv
<1>2. MapsInOrder' /\ Filling' /\ KeyIsNew' /\ Owned'
  BY UnchangedKeeps, EmplaceKeeps, ReserveKeeps, ClearKeeps, DestroyKeeps, MoveKeeps,
     MigrateKeeps, RehashEndsKeeps, PlaceKeeps DEF Next
<1> QED BY <1>1, <1>2 DEF PInv

-----------------------------------------------------------------------------
\* The tables are in order in every reachable state.
THEOREM PInvHolds == Spec => []PInv
BY InitPInv, StepPInv, PTL DEF Spec

\* Every probe of Emplace, Find or Rehash, for every hash function, ends at an
\* empty slot: no table is ever full, not even the one Rehash is filling.
THEOREM EmptySlotRemainsHolds == Spec => []EmptySlotRemains
<1>1. PInv => EmptySlotRemains
  <2> SUFFICES ASSUME PInv, NEW t \in Tables, NEW k \in Keys
               PROVE  Open(mem[t[1]].ctrl, Hash(k), t[3]) # {}
    BY DEF EmptySlotRemains
  <2>1. ASSUME NEW o \in Maps, map[o].m_Ctrl # NULL,
               t = << map[o].m_Ctrl, map[o].m_Capacity, map[o].m_GroupMask >>
        PROVE  Open(mem[t[1]].ctrl, Hash(k), t[3]) # {}
    BY <2>1, RoomInMap DEF TableOf
  <2>2. ASSUME run.pc = "rehash", t = << run.to, run.capacity, GroupMask(run.capacity) >>
        PROVE  Open(mem[t[1]].ctrl, Hash(k), t[3]) # {}
    BY <2>2, RoomInRehash
  <2> QED BY <2>1, <2>2 DEF Tables
<1> QED BY <1>1, PInvHolds, PTL

\* Every element of every table is the one a lookup of its key finds, for
\* every hash function and every history of insertions, rebuilds and moves.
THEOREM FindableHolds == Spec => []Findable
<1>1. PInv => Findable
  <2> SUFFICES ASSUME PInv, NEW t \in Tables, NEW i \in Occupied(mem[t[1]], t[2])
               PROVE  Lookup(mem[t[1]], mem[t[1]].slots[i].Key, t[3]) = {i}
    BY DEF Findable
  <2>1. PICK a, c : /\ t = << a, c, GroupMask(c) >>
                    /\ c \in Capacity /\ InOrder(mem[a], c)
    BY DEF Tables, PInv, MapsInOrder, Filling, TableOf
  <2>2. t[1] = a /\ t[2] = c /\ t[3] = GroupMask(c)
    BY <2>1
  <2> QED BY <2>1, <2>2, InOrderFindable
<1> QED BY <1>1, PInvHolds, PTL

\* No block is leaked, freed while in use or owned by two maps, and no
\* element is constructed or destroyed twice, through rebuilds and moves.
THEOREM OwnedOnceHolds == Spec => []OwnedOnce
<1>1. PInv => OwnedOnce
  <2> SUFFICES ASSUME PInv PROVE OwnedOnce
    OBVIOUS
  <2>1. \A x \in Blocks : x # NULL
    BY PoolAssumption
  <2>2. \A o \in Maps : map[o].m_Ctrl # NULL => map[o].m_Ctrl \in Blocks
    BY MapTypes DEF PInv
  <2>3. run.pc = "rehash" => run.to \in Blocks /\ run.on \in Maps
    BY RunTypes DEF PInv, Rehashing
  <2>4. pool = {t[1] : t \in Tables}
    <3>1. ASSUME NEW t \in Tables PROVE t[1] \in pool
      <4>1. \/ \E o \in Maps : map[o].m_Ctrl # NULL /\ t[1] = map[o].m_Ctrl
            \/ run.pc = "rehash" /\ t[1] = run.to
        BY DEF Tables
      <4> QED BY <2>2, <2>3, <4>1 DEF PInv, Owned
    <3>2. ASSUME NEW x \in pool PROVE \E t \in Tables : t[1] = x
      <4>1. x \in Blocks /\ x # NULL
        BY <2>1 DEF PInv, Owned
      <4>2. CASE \E o \in Maps : map[o].m_Ctrl = x
        <5>1. PICK o \in Maps : map[o].m_Ctrl = x
          BY <4>2
        <5> DEFINE t == << map[o].m_Ctrl, map[o].m_Capacity, map[o].m_GroupMask >>
        <5>2. t \in Tables
          BY <4>1, <5>1 DEF Tables
        <5>3. t[1] = x
          BY <5>1
        <5> QED BY <5>2, <5>3
      <4>3. CASE run.pc = "rehash" /\ run.to = x
        <5> DEFINE t == << run.to, run.capacity, GroupMask(run.capacity) >>
        <5>1. t \in Tables /\ t[1] = x
          BY <4>3 DEF Tables
        <5> QED BY <5>1
      <4> QED BY <4>1, <4>2, <4>3 DEF PInv, Owned
    <3> QED BY <3>1, <3>2
  <2>5. \A o \in Maps : map[o].m_Ctrl # NULL =>
          /\ InUse(o) = {i \in Used(o) : run.pc = "rehash" /\ run.on = o => i >= run.index}
          /\ Used(o) \subseteq Nat
    <3>1. \A o \in Maps : Used(o) \subseteq Nat
      BY MapTypes DEF PInv, Used, Occupied
    <3> QED BY <3>1, PendingExact DEF PInv, InUse, Used, TableOf
  <2> DEFINE N == IF run.pc = "rehash"
                  THEN {run.to} \X Occupied(mem[run.to], run.capacity) ELSE {}
             U == UNION {{map[o].m_Ctrl} \X InUse(o) : o \in Maps}
             A == U \cup N
  <2>6. run.pc = "rehash" => Occupied(mem[run.to], run.capacity) \subseteq Nat
    BY DEF PInv, Filling, Capacity, Occupied
  <2>7. A \subseteq Blocks \X Nat
    <3>1. \A o \in Maps : {map[o].m_Ctrl} \X InUse(o) \subseteq Blocks \X Nat
      <4>1. \A o \in Maps : map[o].m_Ctrl = NULL => InUse(o) = {}
        BY DEF InUse
      <4> QED BY <2>2, <2>5, <4>1
    <3>2. N \subseteq Blocks \X Nat
      BY <2>3, <2>6
    <3>3. U \subseteq Blocks \X Nat
      BY <3>1, Zenon
    <3> HIDE DEF U, N
    <3> QED BY <3>2, <3>3
  <2>8. ASSUME NEW x \in Blocks, NEW k \in Nat
        PROVE  << x, k >> \in alive <=> << x, k >> \in A
    <3>1. << x, k >> \in U <=> \E o \in Maps : map[o].m_Ctrl = x /\ k \in InUse(o)
      <4>1. << x, k >> \in U <=> \E o \in Maps : << x, k >> \in {map[o].m_Ctrl} \X InUse(o)
        BY Zenon
      <4> QED BY <4>1
    <3>2. << x, k >> \in N <=>
            run.pc = "rehash" /\ run.to = x /\ k \in Occupied(mem[run.to], run.capacity)
      OBVIOUS
    <3>3. << x, k >> \in alive <=>
            \/ \E o \in Maps : /\ map[o].m_Ctrl = x /\ k \in Used(o)
                               /\ run.pc = "rehash" /\ run.on = o => k >= run.index
            \/ run.pc = "rehash" /\ run.to = x /\ k \in Occupied(mem[x], run.capacity)
      BY DEF PInv, Owned
    <3> HIDE DEF U, N
    <3> QED BY <2>1, <2>5, <3>1, <3>2, <3>3
  <2>9. alive \subseteq Blocks \X Nat
    BY DEF PInv, Owned
  <2>10. alive = A
    <3> HIDE DEF A
    <3> QED BY <2>7, <2>8, <2>9
  <2>11. \A o, q \in Maps : o # q /\ map[o].m_Ctrl # NULL => map[o].m_Ctrl # map[q].m_Ctrl
    BY DEF PInv, Owned
  <2>12. ASSUME pool = {t[1] : t \in Tables},
                \A o, q \in Maps : o # q /\ map[o].m_Ctrl # NULL
                                      => map[o].m_Ctrl # map[q].m_Ctrl,
                alive = A
         PROVE  OwnedOnce
    BY <2>12, Zenon DEF OwnedOnce
  <2> HIDE DEF A
  <2> QED BY <2>4, <2>10, <2>11, <2>12, Zenon
<1> QED BY <1>1, PInvHolds, PTL

-----------------------------------------------------------------------------
(* The refinement of MapAbs.                                               *)

Exact == \A o \in Maps : Elements(o) = ElementsOf(o)

\* What Find returns for all keys, or what Rehash has in its two tables, is
\* what the map holds.
LEMMA ElementsExact == PInv => Exact
<1> SUFFICES ASSUME PInv, NEW o \in Maps PROVE Elements(o) = ElementsOf(o)
  BY DEF Exact
<1>1. CASE run.pc = "rehash" /\ run.on = o
  <2>1. Elements(o) = Seen(mem[run.to], run.capacity)
                      \cup {TableOf(o).slots[i] : i \in Pending}
    BY <1>1 DEF Elements, TableOf
  <2>2. CASE map[o].m_Ctrl = NULL
    <3>1. map[o].m_Size = 0 /\ Pending = {} /\ run.capacity \in Nat
      BY <1>1, <2>2 DEF Pending, PInv, MapsInOrder, Filling, Capacity
    <3>2. /\ IsFiniteSet(Occupied(mem[run.to], run.capacity))
          /\ Cardinality(Occupied(mem[run.to], run.capacity)) \in Nat
      BY <3>1, OccupiedFinite
    <3>3. Cardinality(Pending) = 0
      BY <3>1, FS_EmptySet
    <3>4. Cardinality(Occupied(mem[run.to], run.capacity)) = 0
      BY <1>1, <3>1, <3>2, <3>3 DEF PInv, Filling
    <3>5. Occupied(mem[run.to], run.capacity) = {}
      BY <3>2, <3>4, FS_EmptySet
    <3> QED BY <2>1, <2>2, <3>1, <3>5 DEF Seen, ElementsOf
  <2>3. CASE map[o].m_Ctrl # NULL
    <3>1. Pending = {i \in Used(o) : i >= run.index}
      BY <1>1, <2>3, PendingExact DEF PInv
    <3>2. \A i \in Used(o) : i < run.index \/ i >= run.index
      BY <1>1, MapTypes, RunTypes DEF PInv, Used, Occupied, Rehashing
    <3>3. \A j \in Occupied(mem[run.to], run.capacity) :
            \E i \in Used(o) : mem[run.to].slots[j] = TableOf(o).slots[i]
      BY <1>1, <2>3 DEF PInv, Filling
    <3>4. \A i \in Used(o) : i < run.index =>
            \E j \in Occupied(mem[run.to], run.capacity) :
              mem[run.to].slots[j] = TableOf(o).slots[i]
      BY <1>1, <2>3 DEF PInv, Filling
    <3> QED BY <2>1, <2>3, <3>1, <3>2, <3>3, <3>4 DEF Seen, ElementsOf
  <2> QED BY <2>2, <2>3
<1>2. CASE ~(run.pc = "rehash" /\ run.on = o)
  <2> DEFINE F == UNION {Find(o, key) : key \in Keys}
  <2>1. Elements(o) = {TableOf(o).slots[i] : i \in F}
    BY <1>2 DEF Elements, TableOf
  <2>2. CASE map[o].m_Ctrl = NULL
    <3>1. \A key \in Keys : Find(o, key) = {}
      BY <2>2 DEF Find, PInv, MapsInOrder
    <3>2. F = {}
      BY <3>1
    <3> QED BY <2>1, <2>2, <3>2 DEF ElementsOf
  <2>3. CASE map[o].m_Ctrl # NULL
    <3>1. /\ map[o].m_Capacity \in Capacity /\ InOrder(TableOf(o), map[o].m_Capacity)
          /\ map[o].m_GroupMask = GroupMask(map[o].m_Capacity)
      BY <2>3 DEF PInv, MapsInOrder
    <3>2. ASSUME NEW key \in Keys
          PROVE  Find(o, key) = {i \in Used(o) : TableOf(o).slots[i].Key = key}
      <4>1. map[o].m_Size = 0 => Used(o) = {}
        BY <2>3, SizeZero DEF PInv
      <4>2. Lookup(TableOf(o), key, map[o].m_GroupMask)
              = {i \in Used(o) : TableOf(o).slots[i].Key = key}
        BY <3>1, LookupExact DEF Used
      <4> QED BY <4>1, <4>2 DEF Find, TableOf
    <3>3. \A i \in Used(o) : TableOf(o).slots[i].Key \in Keys
      BY <3>1 DEF InOrder, Used
    <3>4. F = Used(o)
      BY <3>2, <3>3
    <3> QED BY <2>1, <2>3, <3>4 DEF ElementsOf
  <2> QED BY <2>2, <2>3
<1> QED BY <1>1, <1>2

Distinct(S) == \A e, f \in S : e.Key = f.Key => e = f

LEMMA FunctionOfWith ==
    ASSUME NEW S, NEW key, NEW val, Distinct(S), key \notin {e.Key : e \in S}
    PROVE  FunctionOf(S \cup {[Key |-> key, Value |-> val]})
             = Abs!With(FunctionOf(S), key, val)
<1> DEFINE n == [Key |-> key, Value |-> val]
           T == S \cup {n}
<1>1. n.Key = key /\ n.Value = val
  OBVIOUS
<1> HIDE DEF n
<1>2. {e.Key : e \in T} = {e.Key : e \in S} \cup {key}
  BY <1>1
<1>3. (CHOOSE e \in T : e.Key = key) = n
  BY <1>1
<1>4. ASSUME NEW x \in {e.Key : e \in S}
      PROVE  (CHOOSE e \in T : e.Key = x) = (CHOOSE e \in S : e.Key = x)
  <2>1. PICK e \in S : e.Key = x
    OBVIOUS
  <2>2. x # key
    OBVIOUS
  <2>3. \A f \in T : f.Key = x => f = e
    BY <1>1, <2>1, <2>2 DEF Distinct
  <2>4. (CHOOSE f \in T : f.Key = x) = e
    BY <2>1, <2>3
  <2>5. (CHOOSE f \in S : f.Key = x) = e
    BY <2>1, <2>3
  <2> QED BY <2>4, <2>5
<1> HIDE DEF T
<1> DEFINE K == {e.Key : e \in S}
<1>5. ValueOf(T, key) = val
  BY <1>1, <1>3 DEF ValueOf
<1>6. \A x \in K : ValueOf(T, x) = ValueOf(S, x)
  BY <1>4 DEF ValueOf
<1>7. FunctionOf(T) = Abs!With(FunctionOf(S), key, val)
  <2>1. FunctionOf(T) = [x \in K \cup {key} |-> ValueOf(T, x)]
    BY <1>2 DEF FunctionOf
  <2>2. FunctionOf(S) = [x \in K |-> ValueOf(S, x)]
    BY DEF FunctionOf
  <2>3. key \notin K
    OBVIOUS
  <2> HIDE DEF K
  <2>4. Abs!With(FunctionOf(S), key, val)
          = [x \in K \cup {key} |-> IF x = key THEN val ELSE ValueOf(S, x)]
    BY <2>2 DEF Abs!With
  <2>5. \A x \in K \cup {key} :
          ValueOf(T, x) = IF x = key THEN val ELSE ValueOf(S, x)
    BY <1>5, <1>6, <2>3
  <2> QED BY <2>1, <2>4, <2>5
<1> QED BY <1>7 DEF T, n

LEMMA FunctionOfEmpty == FunctionOf({}) = << >>
BY DEF FunctionOf

LEMMA ElementsDistinct ==
    ASSUME PInv, NEW o \in Maps PROVE Distinct(ElementsOf(o))
BY DEF PInv, MapsInOrder, InOrder, ElementsOf, Used, Distinct

LEMMA ContentExact ==
    /\ Exact => Content = [o \in Maps |-> FunctionOf(ElementsOf(o))]
    /\ Exact' => Content' = [o \in Maps |-> FunctionOf(ElementsOf(o)')]
<1>1. Content = [o \in Maps |-> FunctionOf(Elements(o))]
  BY DEF Content
<1>2. Content' = [o \in Maps |-> FunctionOf(Elements(o)')]
  BY DEF Content
<1> QED BY <1>1, <1>2 DEF Exact

\* Every step does to the elements what a step of MapAbs may do, or nothing.
LEMMA StepElements ==
    ASSUME PInv, [Next]_vars
    PROVE  \/ KeepsElements
           \/ \E o \in Maps :
                \/ DropsElements(o)
                \/ \E key \in Keys, val \in Vals : AddsElement(o, key, val)
                \/ \E from \in Maps : MovesElements(o, from)
BY UnchangedKeeps, EmplaceKeeps, ReserveKeeps, ClearKeeps, DestroyKeeps, MoveKeeps,
   MigrateKeeps, RehashEndsKeeps, PlaceKeeps DEF Next

LEMMA StepRefines ==
    PInv /\ Exact /\ Exact' /\ [Next]_vars => [Abs!ANext]_Content
<1> SUFFICES ASSUME PInv, Exact, Exact', [Next]_vars PROVE [Abs!ANext]_Content
  OBVIOUS
<1>1. /\ Content = [o \in Maps |-> FunctionOf(ElementsOf(o))]
      /\ Content' = [o \in Maps |-> FunctionOf(ElementsOf(o)')]
  BY ContentExact
<1>2. CASE KeepsElements
  <2>1. Content' = Content
    BY <1>1, <1>2 DEF KeepsElements
  <2> QED BY <2>1
<1>3. ASSUME NEW o \in Maps, DropsElements(o) PROVE Abs!ANext
  <2>1. Content' = [Content EXCEPT ![o] = << >>]
    BY <1>1, <1>3, FunctionOfEmpty DEF DropsElements
  <2> QED BY <2>1 DEF Abs!ANext, Abs!AClear, Abs!Empty
<1>4. ASSUME NEW o \in Maps, NEW key \in Keys, NEW val \in Vals, AddsElement(o, key, val)
      PROVE  Abs!ANext
  <2>1. FunctionOf(ElementsOf(o)') = Abs!With(Content[o], key, val)
    BY <1>1, <1>4, ElementsDistinct, FunctionOfWith DEF AddsElement
  <2>2. \A q \in Maps : q # o => ElementsOf(q)' = ElementsOf(q)
    BY <1>4 DEF AddsElement
  <2>3. Content' = [Content EXCEPT ![o] = Abs!With(Content[o], key, val)]
    BY <1>1, <2>1, <2>2
  <2>4. key \notin DOMAIN Content[o]
    BY <1>1, <1>4 DEF AddsElement, FunctionOf
  <2> QED BY <2>3, <2>4 DEF Abs!ANext, Abs!AEmplace
<1>5. ASSUME NEW o \in Maps, NEW from \in Maps, MovesElements(o, from) PROVE Abs!ANext
  <2>1. Content' = [Content EXCEPT ![o] = Content[from], ![from] = << >>]
    BY <1>1, <1>5, FunctionOfEmpty DEF MovesElements
  <2> QED BY <1>5, <2>1 DEF Abs!ANext, Abs!AMove, Abs!Empty, MovesElements
<1> QED BY <1>2, <1>3, <1>4, <1>5, StepElements

LEMMA InitRefines == Init => Abs!AInit
<1> SUFFICES ASSUME Init PROVE Abs!AInit
  OBVIOUS
<1>1. Exact
  BY InitPInv, ElementsExact
<1>2. \A o \in Maps : ElementsOf(o) = {}
  BY DEF Init, Unbuilt, ElementsOf
<1>3. Content = [o \in Maps |-> << >>]
  BY <1>1, <1>2, ContentExact, FunctionOfEmpty
<1> QED BY <1>3 DEF Abs!AInit, Abs!Empty

\* Seen through Find, KFlatHashMap is a map: for every hash function and every
\* history of calls, Emplace adds its key and value and changes no other,
\* and a rebuild, finished, under way or failed, changes nothing.
THEOREM ImplementsMapHolds == Spec => ImplementsMap
<1>1. Spec => []Exact
  BY PInvHolds, ElementsExact, PTL
<1>2. Spec => [][Abs!ANext]_Content
  BY <1>1, PInvHolds, StepRefines, PTL DEF Spec
<1> QED BY <1>2, InitRefines, PTL DEF Spec, ImplementsMap, Abs!ASpec
===============================================================================

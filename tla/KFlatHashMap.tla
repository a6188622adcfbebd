----------------------------- MODULE KFlatHashMap -----------------------------
(***************************************************************************)
(* KFlatHashMap: an open-addressing table of key/value slots, probed in    *)
(* groups of kGroupSize control bytes.  Nothing is ever removed from it;   *)
(* it is rebuilt in twice the space when it is 70% full.                   *)
(*                                                                         *)
(* A call is one action, except that a rebuild moves one element per       *)
(* action.  The block a table lives in comes from the pool, which may be   *)
(* short of memory.  Several map objects exist, to move between.           *)
(***************************************************************************)
EXTENDS Integers, FiniteSets, FiniteSetsExt

CONSTANTS
    Maps, Keys, Vals,   \* map objects, keys and values of the callers
    Hash(_),            \* the hash of a key, without its 7 highest bits
    H2(_),              \* those 7 bits
    kGroupSize,         \* control bytes loaded at once (8)
    FirstCapacity,      \* slots of the first table (16)
    Capacities,         \* the powers of two from there on, up to the last
                        \* one whose byte size does not overflow
    Requests,           \* arguments of Reserve
    Blocks,             \* blocks ExAllocatePool2 can return
    NULL

\* Both sizes are powers of two in the code; a first table of two groups
\* and four slots is enough for the load limit to leave a slot empty.
ASSUME GroupAssumption ==
    /\ kGroupSize \in Nat \ {0} /\ FirstCapacity \in Nat /\ FirstCapacity >= 4
    /\ FirstCapacity % kGroupSize = 0
ASSUME CapacityAssumption ==
    /\ Capacities \subseteq Nat
    /\ \A c \in Capacities : c >= FirstCapacity /\ c % kGroupSize = 0
ASSUME HashAssumption == \A k \in Keys : Hash(k) \in Nat /\ H2(k) \in 0 .. 127
ASSUME RequestAssumption == Requests \subseteq Nat
ASSUME PoolAssumption == NULL \notin Blocks /\ NULL \notin Keys

VARIABLES
    map,     \* the fields of every map object
    mem,     \* the control bytes and the slots in every block
    pool,    \* the blocks in use
    alive,   \* << block, index >> of the constructed key/value objects
    run      \* the call that is under way

vars == << map, mem, pool, alive, run >>

kEmptyCtrl == -1
Idle       == [pc |-> "idle"]
Unbuilt    == [m_Ctrl |-> NULL, m_Capacity |-> 0, m_Size |-> 0,
               m_MaxLoad |-> 0, m_GroupMask |-> 0]
Released   == [ctrl |-> << >>, slots |-> << >>]

Init ==
    /\ map = [o \in Maps |-> Unbuilt]
    /\ mem = [a \in Blocks |-> Released] /\ pool = {}
    /\ alive = {} /\ run = Idle

-----------------------------------------------------------------------------
(* Probing.                                                                *)

\* m_GroupMask of a table of c slots, and index & mask for such a mask.
GroupMask(c)  == c - kGroupSize
Masked(i, mask) == ((i % (mask + kGroupSize)) \div kGroupSize) * kGroupSize

\* The groups in the order they are visited for the hash h.
Turns(mask)        == 0 .. mask \div kGroupSize
Probed(h, mask, n) == Masked(h + n * kGroupSize, mask)
Group(i)           == i .. i + kGroupSize - 1

EmptyIn(ctrl, i) == {j \in Group(i) : ctrl[j] = kEmptyCtrl}

\* The groups with an empty slot, by the turn that reaches them.
Open(ctrl, h, mask) ==
    {n \in Turns(mask) : EmptyIn(ctrl, Probed(h, mask, n)) # {}}

\* The slot a new key of hash h is given.
FreeSlot(ctrl, h, mask) ==
    Min(EmptyIn(ctrl, Probed(h, mask, Min(Open(ctrl, h, mask)))))

\* Control byte first, key second.
HitsIn(b, key, i) ==
    {j \in Group(i) : b.ctrl[j] = H2(key) /\ b.slots[j].Key = key}

\* A lookup stops at the first group with a hit or with an empty slot.
LookupOneGroup(b, key, mask) ==    \* mutant
    HitsIn(b, key, Probed(Hash(key), mask, 0))

Lookup(b, key, mask) ==
    UNION {HitsIn(b, key, Probed(Hash(key), mask, n)) :
             n \in {n \in Turns(mask) :
                      \A k \in 0 .. n - 1 :
                        EmptyIn(b.ctrl, Probed(Hash(key), mask, k)) = {}}}

\* The slots found for a key: FindValueInternal.
Find(o, key) == IF map[o].m_Size = 0 THEN {}
                ELSE Lookup(mem[map[o].m_Ctrl], key, map[o].m_GroupMask)

-----------------------------------------------------------------------------
(* Rehash.                                                                 *)

MaxLoadPlusOne(c) == (c \div 10) * 7 + ((c % 10) * 7 + 9) \div 10 + 1    \* mutant
MaxLoad(c) == (c \div 10) * 7 + ((c % 10) * 7 + 9) \div 10

EmptyTable(c) == [ctrl  |-> [i \in 0 .. c - 1 |-> kEmptyCtrl],
                  slots |-> [i \in 0 .. c - 1 |-> [Key |-> NULL, Value |-> NULL]]]

Put(b, i, key, val) == [b EXCEPT !.ctrl[i] = H2(key),
                                 !.slots[i] = [Key |-> key, Value |-> val]]

Occupied(b, c) == {i \in 0 .. c - 1 : b.ctrl[i] # kEmptyCtrl}

\* The new block is allocated and cleared; `call` says what comes after.
RehashBegins(o, c, call) ==
    /\ c \in Capacities
    /\ \E a \in Blocks \ pool :
         /\ pool' = pool \cup {a}
         /\ mem' = [mem EXCEPT ![a] = EmptyTable(c)]
         /\ run' = [pc |-> "rehash", on |-> o, to |-> a, capacity |-> c,
                    index |-> 0, call |-> call]
    /\ UNCHANGED << map, alive >>

\* The occupied slots of the old table that are still to be moved.
Pending == IF map[run.on].m_Ctrl = NULL \/ map[run.on].m_Size = 0 THEN {}
           ELSE {i \in Occupied(mem[map[run.on].m_Ctrl], map[run.on].m_Capacity) :
                   i >= run.index}

MigrateToMask(mask) ==
    /\ run.pc = "rehash"
    /\ \E i \in Pending :
         /\ \A j \in Pending : i <= j
         /\ LET old == map[run.on].m_Ctrl
                key == mem[old].slots[i].Key
                j   == FreeSlot(mem[run.to].ctrl, Hash(key), mask)
            IN  /\ mem' = [mem EXCEPT ![run.to] =
                             Put(@, j, key, mem[old].slots[i].Value)]
                /\ alive' = (alive \ {<< old, i >>}) \cup {<< run.to, j >>}
         /\ run' = [run EXCEPT !.index = i + 1]
    /\ UNCHANGED << map, pool >>

MigrateOldMask == MigrateToMask(map[run.on].m_GroupMask)    \* mutant

Migrate == MigrateToMask(GroupMask(run.capacity))

\* The old block goes back to the pool and the map takes the new one.
RehashEnds ==
    /\ run.pc = "rehash" /\ Pending = {}
    /\ pool' = pool \ {map[run.on].m_Ctrl}
    /\ mem' = [a \in Blocks |-> IF a = map[run.on].m_Ctrl THEN Released
                                ELSE mem[a]]
    /\ map' = [map EXCEPT ![run.on] =
                 [m_Ctrl |-> run.to, m_Capacity |-> run.capacity,
                  m_Size |-> map[run.on].m_Size,
                  m_MaxLoad |-> MaxLoad(run.capacity),
                  m_GroupMask |-> GroupMask(run.capacity)]]
    /\ run' = IF run.call.op = "emplace"
              THEN [pc |-> "place", on |-> run.on, call |-> run.call]
              ELSE Idle
    /\ UNCHANGED alive

-----------------------------------------------------------------------------
(* Emplace and GetOrInsert.                                                *)

Insert(o, key, val) ==
    LET a == map[o].m_Ctrl
        i == FreeSlot(mem[a].ctrl, Hash(key), map[o].m_GroupMask)
    IN  /\ mem' = [mem EXCEPT ![a] = Put(@, i, key, val)]
        /\ alive' = alive \cup {<< a, i >>}
        /\ map' = [map EXCEPT ![o].m_Size = @ + 1]
        /\ run' = Idle
        /\ UNCHANGED pool

IsNew(o, key) ==
    map[o].m_Capacity # 0 =>
      Lookup(mem[map[o].m_Ctrl], key, map[o].m_GroupMask) = {}

IsFullLate(o) == map[o].m_Size > map[o].m_MaxLoad    \* mutant
IsFull(o) == map[o].m_Size >= map[o].m_MaxLoad

\* The key is there (STATUS_OBJECT_NAME_EXISTS), or a rebuild is needed and
\* fails: the map is as before.
EmplaceNothing(o, key) ==
    /\ run = Idle /\ (IsNew(o, key) => IsFull(o))
    /\ UNCHANGED vars

EmplaceInPlace(o, key, val) ==
    /\ run = Idle /\ map[o].m_Capacity # 0 /\ IsNew(o, key) /\ ~IsFull(o)
    /\ Insert(o, key, val)

\* The first table, or a table of twice the size; the key follows.
EmplaceGrowing(o, key, val) ==
    /\ run = Idle /\ IsNew(o, key) /\ IsFull(o)
    /\ RehashBegins(o, IF map[o].m_Capacity = 0 THEN FirstCapacity
                       ELSE 2 * map[o].m_Capacity,
                    [op |-> "emplace", key |-> key, val |-> val])

EmplaceAfterRehash ==
    /\ run.pc = "place"
    /\ Insert(run.on, run.call.key, run.call.val)

Emplace(o) == \E key \in Keys, val \in Vals :
    EmplaceNothing(o, key) \/ EmplaceInPlace(o, key, val)
    \/ EmplaceGrowing(o, key, val)

-----------------------------------------------------------------------------
(* Reserve, Clear, destruction and moves.                                  *)

\* Slots needed for n elements, and the least capacity that has them.
ReserveUnscaled(n) == n    \* mutant
ReserveTarget(n) == (10 * n - 3) \div 7

IsReserveCapacity(c, n) ==
    /\ c >= ReserveTarget(n)
    /\ \A d \in Capacities : d >= ReserveTarget(n) => c <= d

\* There is room already, or the rebuild fails.
ReserveNothing(o, n) == run = Idle /\ UNCHANGED vars

ReserveGrowing(o, n) ==
    /\ run = Idle /\ n > map[o].m_MaxLoad
    /\ \E c \in Capacities : /\ IsReserveCapacity(c, n)
                             /\ RehashBegins(o, c, [op |-> "reserve", need |-> n])

Reserve(o) == \E n \in Requests : ReserveNothing(o, n) \/ ReserveGrowing(o, n)

Objects(o) == IF map[o].m_Ctrl = NULL \/ map[o].m_Size = 0 THEN {}
              ELSE {map[o].m_Ctrl} \X Occupied(mem[map[o].m_Ctrl], map[o].m_Capacity)

ClearSizeOnly(o) ==    \* mutant: the control bytes stay
    /\ run = Idle
    /\ alive' = alive \ Objects(o)
    /\ map' = [map EXCEPT ![o].m_Size = 0]
    /\ UNCHANGED << mem, pool, run >>

Clear(o) ==
    /\ run = Idle
    /\ alive' = alive \ Objects(o)
    /\ mem' = IF map[o].m_Ctrl = NULL \/ map[o].m_Size = 0 THEN mem
              ELSE [mem EXCEPT ![map[o].m_Ctrl].ctrl =
                      [i \in 0 .. map[o].m_Capacity - 1 |-> kEmptyCtrl]]
    /\ map' = [map EXCEPT ![o].m_Size = 0]
    /\ UNCHANGED << pool, run >>

\* DestroyElements, and the block goes back to the pool.
Release(o) ==
    /\ alive' = alive \ Objects(o)
    /\ pool' = pool \ {map[o].m_Ctrl}
    /\ mem' = [a \in Blocks |-> IF a = map[o].m_Ctrl THEN Released ELSE mem[a]]

\* The map is destroyed; another one is constructed in its place.
Destroy(o) ==
    /\ run = Idle /\ Release(o)
    /\ map' = [map EXCEPT ![o] = Unbuilt]
    /\ UNCHANGED run

MoveKeepingSource(o, from) ==    \* mutant
    /\ run = Idle /\ o # from /\ Release(o)
    /\ map' = [map EXCEPT ![o] = map[from]]
    /\ UNCHANGED run

\* Move assignment; move construction when o is new.
MoveAssign(o, from) ==
    /\ run = Idle /\ o # from /\ Release(o)
    /\ map' = [map EXCEPT ![o] = map[from], ![from] = Unbuilt]
    /\ UNCHANGED run

Next ==
    \/ \E o \in Maps : Emplace(o) \/ Reserve(o) \/ Clear(o) \/ Destroy(o)
    \/ \E o, from \in Maps : MoveAssign(o, from)
    \/ Migrate \/ RehashEnds \/ EmplaceAfterRehash

Spec == Init /\ [][Next]_vars

-----------------------------------------------------------------------------
Fields == [m_Ctrl : Blocks \cup {NULL}, m_Capacity : Nat, m_Size : Nat,
           m_MaxLoad : Nat, m_GroupMask : Int]
Calls  == [op : {"emplace"}, key : Keys, val : Vals]
          \cup [op : {"reserve"}, need : Nat]

TypeOK ==
    /\ map \in [Maps -> Fields] /\ pool \subseteq Blocks
    /\ run \in {Idle}
              \cup [pc : {"rehash"}, on : Maps, to : Blocks, capacity : Nat,
                    index : Nat, call : Calls]
              \cup [pc : {"place"}, on : Maps, call : Calls]

\* The load limit is kept, through growth, Reserve and a failure of either,
\* and it is below the number of slots.
LoadLimit ==
    \A o \in Maps : /\ map[o].m_Size <= map[o].m_MaxLoad
                    /\ map[o].m_Ctrl # NULL => map[o].m_MaxLoad < map[o].m_Capacity

\* The tables there are: << block, capacity, mask >>.
Tables == {<< map[o].m_Ctrl, map[o].m_Capacity, map[o].m_GroupMask >> :
             o \in {x \in Maps : map[x].m_Ctrl # NULL}}
          \cup (IF run.pc = "rehash"
                THEN {<< run.to, run.capacity, GroupMask(run.capacity) >>} ELSE {})

\* Every probe ends at an empty slot, never by a full turn around the table
\* (no slot in Emplace, not found in Find): each table keeps an empty slot
\* that every hash reaches, also the one Rehash fills, whose loop has no
\* other exit.
EmptySlotRemains ==
    \A t \in Tables : \A k \in Keys : Open(mem[t[1]].ctrl, Hash(k), t[3]) # {}

\* Append-only probing loses nothing: every element in a table is the one a
\* lookup of its key finds, also while Rehash fills the table.
Findable ==
    \A t \in Tables : \A i \in Occupied(mem[t[1]], t[2]) :
      Lookup(mem[t[1]], mem[t[1]].slots[i].Key, t[3]) = {i}

\* The slots of a map that hold constructed objects.
InUse(o) == IF map[o].m_Ctrl = NULL THEN {}
            ELSE IF run.pc = "rehash" /\ run.on = o THEN Pending
            ELSE Occupied(mem[map[o].m_Ctrl], map[o].m_Capacity)

\* No leak, no double free: a block in use belongs to exactly one map or to
\* the rebuild under way, and the constructed objects are those of the tables.
OwnedOnce ==
    /\ pool = {t[1] : t \in Tables}
    /\ \A o, q \in Maps : o # q /\ map[o].m_Ctrl # NULL
                             => map[o].m_Ctrl # map[q].m_Ctrl
    /\ alive = (UNION {{map[o].m_Ctrl} \X InUse(o) : o \in Maps})
               \cup (IF run.pc = "rehash"
                     THEN {run.to} \X Occupied(mem[run.to], run.capacity) ELSE {})

\* What a caller sees of a map: while Rehash runs, the elements already
\* moved and those still in the old table.
Seen(b, c) == {b.slots[i] : i \in Occupied(b, c)}
Elements(o) ==
    IF run.pc = "rehash" /\ run.on = o
    THEN Seen(mem[run.to], run.capacity)
         \cup {mem[map[o].m_Ctrl].slots[i] : i \in Pending}
    ELSE {mem[map[o].m_Ctrl].slots[i] :
            i \in UNION {Find(o, key) : key \in Keys}}

\* The function a set of elements with distinct keys stands for.
ValueOf(S, key) == (CHOOSE e \in S : e.Key = key).Value
FunctionOf(S)   == [key \in {e.Key : e \in S} |-> ValueOf(S, key)]

Content == [o \in Maps |-> FunctionOf(Elements(o))]

Abs == INSTANCE MapAbs WITH content <- Content

\* Seen through Find, the table is a map: Emplace adds its key and value
\* and changes no other, a rebuild, failed or not, changes nothing.
ImplementsMap == Abs!ASpec

\* After Reserve(n), n elements fit without another rebuild.
ReserveMakesRoom ==
    [][ RehashEnds /\ run.call.op = "reserve" =>
          map'[run.on].m_MaxLoad >= run.call.need ]_vars
===============================================================================

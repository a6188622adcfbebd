# TLA+ verification of KmStringPatternMatch

KmStringPatternMatch is a header-only C++ library for Windows kernel drivers: an
engine that holds up to 131,072 string patterns with `*`, `?` and the escape `|`,
each with a caller's payload (its *context*), and finds the contexts of the
patterns a text matches. This directory models it in TLA+, checks the models with
TLC on small instances and proves the central ones with TLAPS.

## 1. Inventory

| Part | Source | State | Operations |
|---|---|---|---|
| engine | `StringPatternMatch/KmStringPatternMatch.h` 483-1816 | pattern count, global minimum length, wildcard flag, 1024-bit filter, sorted prefix lengths, hash map of buckets, slow path list, string arena, context arena | `AddPattern`, `Clear`, `Search` (first / all) |
| pattern parser | same file, 768-1027 (inside `AddPattern`) | none | splits a pattern into literal prefix, wildcard suffix, tail anchor, minimum length, probe character |
| wildcard matcher | same file, 1833-2245 | two cursors, the last star, two length counters | `WildCardMatch` |
| string arena | same file, 49-223 | chain of slabs, fill of the last one | `Allocate`, `GetBookmark`, `RevertBookmark`, `Clear` |
| primitives | same file, 248-453 | none | `Mix64`, `CalculateHash`, upper-casing by character and by 64-bit word |
| `KFlatHashMap` | `KHashMap.h` | control bytes, slots, size, load limit | `Reserve`, `Emplace`, `Find`, `Clear`, `Rehash`, iteration, move |
| `KVector` | `KVector.h` | inline or pool buffer, size, capacity | `PushBack`, `Insert`, `Reserve`, `Clear`, `Clone`, move |
| `KDeque` | `KDeque.h` | up to 256 blocks of 512 elements | `EmplaceBack`, `[]`, `Clear`, move |
| platform helpers | `PlatformUtils.h` | none | intrinsics, placement new, move |
| test harness | `TestCommon/KmStringPatternTest.h` | worker threads, start event, start and stop flags, abort flag, results | functional tests, multi-threaded benchmark |
| test driver | `TestKm/KmStringPatternMatchDrv.cpp` | log buffer with its mutex, thread object | load, log, unload |
| user mode program | `TestUm/KmStringPatternMatchUm.cpp` | thread object | `main` |
| container tests, kernel stubs | `TestContainer/`, `UMStubs/` | - | unit tests; replacements of kernel functions |

**Interaction.** `AddPattern` opens a bookmark in the string arena, writes the
folded pattern and its tail there, stores the context in the context arena, and
enters a `PatternEntry` either in the slow path list (the pattern starts with a
wildcard) or in the bucket of the hash of its literal prefix. Every step may run
out of memory; the string buffers are then rolled back, the context is not
(`KDeque` has no `PopBack`), and a length or an empty bucket inserted before the
failure stays. `Search` rejects by length, then visits the registered prefix
lengths, asks the filter and the map, compares prefix and tail, and hands what
is left of the text to `WildCardMatch`; then it goes through the slow path list.
`AddPattern` and `Clear` need external synchronisation (`Readme.md:50`), so the
library itself has no concurrent steps; threads exist only in the test harness
and in the test driver.

**What is hard here.** In the library not concurrency, but (a) partial failure: five error paths
of one transaction over five containers; (b) caches that may exclude a registered
pattern (minimum length, wildcard flag, filter, length vector, probe character);
(c) pointer and counter arithmetic in the matcher, where a count of zero wraps;
(d) four places that re-scan the escapes, each with its own end of buffer;
(e) linked slabs that are freed while they are walked; (f) backtracking to the
last star only, together with path segments; (g) arithmetic on all characters of
a 64-bit word at once, where lanes carry into each other and one character outside
ASCII changes the path; (h) containers whose arguments may point into the buffer
they are about to replace. In the harness and the driver: threads that are created,
told to stop and joined while any of these steps may fail, and an unload at any
moment. The list with lines is `hazards` in
`PROJECT.json`.

## 2. Modules

| Module | Models | Remarks |
|---|---|---|
| `PatternSyntax` | characters, escapes, folding; the **reference** `Glob` | `Glob` cuts the text into one piece per token: `StartsOf` gives, for every token, the offsets of the text from which on the rest of the tokens match; it is independent of how the code matches |
| `PatternParser` | the scanning loops of `AddPattern` | one recursive function per loop |
| `PatternParser_proofs` | lemmas about tokens, `StartsOf` and lengths, the two principles of induction the other proofs use, and lemmas about the parser's loops: what the parts of a pattern match | |
| `WildCardMatch` | the matcher, one action per turn of its loop | cursors are offsets, `None` is a null pointer; `FastForward` is the position `WordScan` shows the scan to find |
| `WildCardMatch_proofs` | the theorems about the matcher | |
| `KStringArena` | the arena; the two freeing loops take one action per slab | `chain`, `live`, `saved` are history variables; `Freed` overwrites a freed slab, so that a read after free is visible |
| `ArenaAbs` | what the arena promises | `KStringArena` implements it with `saved <- saved.live` |
| `KStringArena_proofs` | the theorems about the arena | |
| `KmStringPatternMatch` | the engine, one action per call and outcome | uses the arena through `ArenaAbs`' promise (a stack of buffers), the matcher through `Glob`, the containers as sequences, a function and capacities |
| `KmStringPatternMatch_proofs` | the theorems about the index and about the searches | |
| `KFlatHashMap` | the hash table with its control bytes, slots and pool blocks; a rebuild moves one element per action, every other call is one action | `alive` is the set of constructed objects; several map objects exist, to move between |
| `MapAbs` | what the hash table promises: maps that only grow until cleared or moved from | `KFlatHashMap` implements it through what `Find` returns |
| `KFlatHashMap_proofs` | the theorems about load limit and `Reserve`, the tables and the refinement | |
| `KVector` | the vector: storage (null, inline or a block), cells, size; one action per call and outcome | a cell is `Raw` (no object), `Moved` (moved from) or a value, so a construction over an object, a double destruction and a read of freed storage are visible; `TriviallyCopyable` selects the code for plain data |
| `KVector_proofs` | the theorems about the vector, its refinement of `SequenceAbs` too | |
| `KDeque` | the deque: table of blocks, cells, size | the same notion of cells |
| `SequenceAbs` | what vector and deque promise: sequences that are extended, inserted into, cleared, copied and moved, or left alone by a call that fails | |
| `CharWords` | 64-bit words as sequences of lanes, their arithmetic with carries, `IsAsciiSWAR`, `ToUpperSWAR`, the lane comparison, characters with their sign | no state; the modules below extend it |
| `WordScan` | `fastForward`: word scan, scalar path, unrolled scan, tail | |
| `WordCompare` | `EvaluatePrefixMatch`, `EvaluateTailMatch` | the two loops are the same code on another offset |
| `PrefixHash` | the length loop of `SearchInternal` with its incremental hash, and `CalculateHash` | `Mix64` is uninterpreted: a hash is the sequence of mixed words, so equality holds for every mixing function |
| `GroupMatch` | one group of a probe in `FindValueInternal`: `SwarMatch`, the loop over its marks | |
| `Mixing` | `Mix64` in its 64-bit and 32-bit forms | |
| `TestThreads` | `RunTests`, tiers, `RunMode`, `StartThreads`, `StopAndWaitThreads`, the worker; one action per access to shared state or kernel call | a failure of every allocation, `AddPattern`, creation and reference, and what each way out of a tier frees; `tierFailed` and `wrong` are history |
| `TestUm`, `TestDriver` | `main`; `DriverEntry`, `DriverUnload`, `RecordLog`, `FlushLogToFile` | both compose `TestThreads` with the thread that starts it, and with what `KeInitializeEvent` and `StartThreads`' wait for a thread's handle do there: `hEvents` counts the event handles the stub creates, `Stopped` is the driver's system halted by a bug check |
| `TestHosts` | the harness in one of its two hosts | `host` says which; the other one's variables do not move |
| `TestHosts_proofs` | the theorems about harness and hosts | |
| `MCContainers` | deques, vectors of objects, or vectors of plain data on one pool | `container` says which; all are mapped to the same `SequenceAbs` |
| `Containers_proofs` | the theorems about the deque, about deques and vectors together, and their refinement of `SequenceAbs` | it instantiates `KVector_proofs` for both kinds of vectors |
| `MCWords` | one call of one of the word routines | `routine` says which; the others' variables stay at `Unused` |
| `MCWildCardMatch`, `MCKmStringPatternMatch`, `MCKFlatHashMap` | alphabets, pattern sets, colliding hashes, symmetry of names | |

Constants replace the code's sizes: `BlockCapacity` (512), `MaxBlocks` (256),
`SvoCapacity` (2), `FirstTable` (16), `FilterBits` (1024), `SlabChars` (a page).
`CharAlign` is `8 / sizeof(TChar)`, 4 or 8. In `KFlatHashMap`, `kGroupSize` (8),
`FirstCapacity` (16) and `Capacities` (the powers of two from 16 on whose byte size
does not overflow; beyond them `Rehash` fails). In `KVector`, `SvoCapacity`
(inline elements), `FirstDynamic` and `DoublingLimit` (where growth turns from
doubling to a factor of 3/2) and `MaxCapacity`, beyond which the size computation
overflows; `MCContainers` sets the last two in its INSTANCEs. In the word modules
`CharBits` and `kCharsPerBlock`, set by `MCWords`. An operator marked `mutant` is a
plausible bug of the definition below it; it is not part of the model and shows
that the property it is listed with in `PROJECT.json` can fail.

**Simplifications of the data.** Strings are sequences of one-character strings;
the letters are `a`, `b` and their upper case forms. Comparisons by 64-bit words
(`EvaluatePrefixMatch`, `EvaluateTailMatch`, `fastForward`) are modelled in the engine
and in the matcher by what they decide, which `WordCompare` and `WordScan` show. `Hash` is a constant operator, in the runs one with many collisions.
`KFlatHashMap` takes the group from `Hash` and the control byte from `H2`, the two
parts of one 64-bit hash; the empty control byte 0xFF is -1. A context is the number of the call that registered it. The engine's arena names
a buffer by its position in the stack. Arguments that the code refuses (null with
a length) are one action without parameters.

## 3. Runs

| Run | Shows | Bounds, and why they are enough |
|---|---|---|
| `matcher` | `ReadsInBounds`: cursors and counters are typed, no scan starts with a count of zero and `*lastStarS` is inside the text; `LengthsExact`: both counters are what the rest of the pattern needs; `Correct`: the result is `Glob`'s; `NoMatchLost`: at every turn the answer is still reachable from the cursors or from the last star; `Terminates` | both scopes, and (1) every suffix of up to 4 characters over `* ? \| A \`, every text of up to 4 over `a * \`, both case modes: escape pairs, a lone escape at the end, an escaped wildcard after a star; (2) suffixes of up to 5 over `* ? A \`, texts of up to 5 over `A B \`: three stars with literals or separators between them |
| `arena` | `Chained`, `NoUseAfterFree`, `BuffersSafe`, `RevertRestores`, `ImplementsArena`, `LoopsEnd` | three slabs (a rollback of none, one, two and all of them), lengths 0, 3, 4, 9, 10 around the alignment 4, the slab size 8 and the limit 9 |
| `engine_patterns` | `SearchExact`, `MatcherContract`: what the parser hands to the matcher has the form `WildCardMatch` is checked for | one pattern: every one of up to 5 characters over `* ? \| a`, every text of up to 3 over `a A * \`, both scopes, both case modes |
| `engine_index` | `SearchExact`, `PartialSearchSound`, `FirstExact`, `IndexComplete` (with the types), `FailedAddInvisible` | up to five `AddPattern` / `Clear` calls with five patterns that collide; containers so small that every growth, every failure of it and every limit happens |
| `map_probing` | `LoadLimit`, `EmptySlotRemains`: every probe ends at an empty slot, also inside `Rehash`, whose loop has no other exit; `Findable`: each element is the one a lookup of its key finds; `ReserveMakesRoom`; `ImplementsMap` | four keys, three of which start in the last group of both tables and wrap around, two of them with one control byte; tables of 4 slots (limit 3) and 8 in groups of 2, two blocks, so that a rebuild succeeds or finds no memory; `Reserve` of 3, 4 and 7 (at, above and beyond what can be had) |
| `map_moves` | `OwnedOnce`: no block and no element is leaked or has two owners; `ImplementsMap` | two maps, two keys, three blocks: a move into an empty, a filled and a rebuilt map |
| `containers` | `StorageOwned`: every block has one owner, no inline buffer is freed, and sizes fit; `ObjectsOwned`: the constructed objects are exactly the elements; `PointersStable`: an element of a deque never moves; `ImplementSequences`: `SequenceAbs`, also for arguments that alias an element | two containers, three blocks. Vectors: capacities 0 or 1 inline, 2, 4 (3 for plain data): growth from null, from inline and from a block, by both factors, and beyond the limit; moves in both directions between inline and allocated. Deques: two blocks of two elements: a block boundary, the limit of the table and a refused block |
| `harness` | `NoUseAfterFree`: a worker's context outlives it; `NothingLeft`: whichever step of a tier fails, its memory and its workers' handles are gone when it returns, and at most two events per tier stay open in the user mode program; `FailureReported`: the verdict after a wrong result or a failed tier; `LeftSafely`: no thread is left when the unload or `main` returns; `LogBufferValid`: no write past the end or after the free; `HarnessEnds`: the tests, `main` and an unload end, in the driver unless a worker cannot be referenced | both hosts; up to two of three requested threads (clamped by cores, by processors or by the table), two tiers of both kinds, one turn of the poll loop; a log of 4 with lines of 1 and 3 (one too many, one that just fits); an unload at every moment |
| `words` | `ScanExact`, `CompareExact`, `LookupsExact`, `VisitsExact`, `BuildsAgree`: each routine gives what its definition by characters gives | see below |
| `engine_quota` | violation: `STATUS_QUOTA_EXCEEDED` below the limit | see findings |
| `engine_clear` | violation: `Clear` keeps pool memory; with the code's sizes | see findings |
| `driver_reference` | violation: an unload that does not wait | see findings |

`engine_patterns` and `matcher` meet at `MatcherContract`: the first shows
that every suffix the engine makes satisfies `IsWildSuffix` and that `minWildLen` is
exactly its need; the second starts from all such suffixes.

**Bounds of `words`.** *Scan:* WCHAR with the code's 16 bits and 4 lanes, CHAR with 8
bits and 4 of the 8 lanes: a carry passes at most from a lane to the next ones, so
four show a hit below, between and above. All texts one longer than a word over four
characters: a letter, `{` (after `z`) or `]` (one bit from `\`), the separator and one
outside ASCII. *Compare:* WCHAR, literals of up to 6 (a word and a rest of 1 or 2)
at the start and at the end of texts over `a` and `ä`; all literals that differ from
the text in one place at most, since the code returns at the first difference.
*Lookups:* WCHAR texts of up to 8 (two words), every pair of lengths up to 8; CHAR
with 2 lanes, texts of up to 5 (two words and a rest), lengths up to 6. *Visits:* all
groups of 4 of the 8 control bytes over tags 0, 1, 63, 126, 127 and empty. *Mix64:*
halves of 3 bits instead of 32, every argument and every constant in place of the one
prime.

**Fairness.** `WildCardMatch` has weak fairness of its next step and `KStringArena` of
the steps of its freeing loops: both run to their end on the caller's thread, and no
other party can disable a step. In `TestHosts` every thread has weak fairness of its
steps: the scheduler runs it again and again (the worker's spin on the start flag is a
step without effect, so it cannot starve the test thread), and the mutex of the log is
freed by its owner. Nobody is forced to unload the driver; the part of `HarnessEnds`
about it starts when somebody did. Nothing else is assumed; in particular no worker has
to find a result, and a failure may come every time. When the driver's system has halted
nothing is scheduled any more, and the property asks for nothing. The matcher stops when
it has returned, so its run switches the deadlock check off; all others keep it.

**Findings.** (1) `Readme.md:126` says `STATUS_QUOTA_EXCEEDED` is returned if the
limit of 131,072 patterns is reached; contexts orphaned by failed calls
(`KmStringPatternMatch.h:941-948`) use slots of the context arena too, so the status
comes earlier. (2) `Readme.md:152` says `Clear` releases pooled allocations;
`KVector::Clear` and `KFlatHashMap::Clear` keep theirs. Neither affects a search.
(3) `DriverEntry` ignores the status of `ObReferenceObjectByHandle`
(`KmStringPatternMatchDrv.cpp:170`); after a failure `DriverUnload` does not wait for the
benchmark thread and still logs "Driver Unloaded Safely". With a reference the
unload is safe (`harness`).

**Notes on the code.** A mode whose threads could not be created measures nothing and
still succeeds, and a MatchFirst mode without memory for its manager is passed over; the
harness may log "ALL PERFORMANCE TESTS SUCCEEDED" after either
(`KmStringPatternTest.h:979`, `:1668`). What `FailureReported` says is less than that every failure is reported: a
wrong search result aborts the run, in the second mode too, and a tier that returned
FALSE keeps the verdict from being "succeeded"; a MatchFirst mode that could not be set
up goes unreported. For a worker it could not reference, `StartThreads` passes the
handle to `KeWaitForSingleObject` (`KmStringPatternTest.h:281`). The user mode stub
takes a handle (`ntddk.h:236-255`), so there the wait ends with the thread
(`TestUm!ReferenceWaits`). The kernel's function takes a pointer to a dispatcher object;
it reads the handle's number as an address, which the driver's model takes for a bug
check (`TestDriver!ReferenceStops`), the end of every thread. So the clean-up at
`:274-283` is shown to work in the user mode program only. The stub's
`KeInitializeEvent` (`ntddk.h:213-218`) creates an event for each mode and nothing
closes it: the user mode program collects up to two per tier until it ends, which
`NothingLeft` bounds. If the creation fails the handle is null, a wait for it returns at
once, and the workers go on to the start flag. `RunMode` always asks for one thread; the
runs ask for up to three, because `StartThreads` is written for any number. The
`continue` at `KmStringPatternMatch.h:1707` is never reached: without wildcards the loop
starts at the text's length and leaves after one turn.

## 4. Proofs

**The arena.** The theorems of `KStringArena_proofs` hold for every set of addresses,
every slab size, every length limit and both character sizes. Assumptions:
`NullAssumption` (null is no address), `AlignAssumption` (`CharAlign` is 4 or 8),
`SizeAssumption` (sizes are natural numbers).

| Theorem | Statement |
|---|---|
| `TypeCorrect` | `Spec => []TypeOK` |
| `Invariance` | `Spec => []IInv` |
| `ChainedHolds` | `Spec => []Chained` |
| `BuffersSafeHolds` | `Spec => []BuffersSafe` |
| `NoUseAfterFreeHolds` | `Spec => []NoUseAfterFree` |
| `RevertRestoresHolds` | `Spec => RevertRestores` |
| `Implementation` | `Spec => ImplementsArena` |

*The argument.* None of the four invariants is inductive alone: that a freed slab
is not walked again needs the links of the chain, that the loop ends at the
bookmark's slab needs to know that the bookmark's chain is a prefix of the
present one, and that a new buffer is disjoint from the old ones needs that all
of them lie below `Used`. `IInv` adds to `TypeOK`, `Chained` and `BuffersSafe`:
`Fill` (the fill of every owned slab is aligned and within its capacity),
`Bookmarked` (the saved chain is a prefix, its last slab is the bookmark's, and
the saved buffers lie below the bookmark's fill) and `Freeing` (inside a loop,
the owned slabs are those before the loop's first slab and those from the cursor
on). Each action has a lemma; `StepIInv` combines them. `NoUseAfterFree` follows
from `IInv`; `RevertRestores` and the refinement follow step by step from it.

**The hash map.** The theorems hold for every group size, set of capacities, of
keys, maps and blocks, and every hash function. Assumptions: `GroupAssumption` (the
first table has at least 4 slots), `CapacityAssumption` (every table is a whole number
of groups and none is smaller than the first), `HashAssumption` (a hash is a natural number, its control byte has 7 bits),
`RequestAssumption` (requests are natural numbers), `PoolAssumption` (null is no
block and no key).

| Theorem | Statement |
|---|---|
| `LInvHolds` | `Spec => []LInv` |
| `LoadLimitHolds` | `Spec => []LoadLimit` |
| `ReserveMakesRoomHolds` | `Spec => ReserveMakesRoom` |
| `PInvHolds` | `Spec => []PInv` |
| `EmptySlotRemainsHolds` | `Spec => []EmptySlotRemains` |
| `FindableHolds` | `Spec => []Findable` |
| `OwnedOnceHolds` | `Spec => []OwnedOnce` |
| `ImplementsMapHolds` | `Spec => ImplementsMap` |

*The argument.* `LoadLimit` is not inductive: that the pending key still fits
after a rebuild needs the limit of the new table to exceed that of the old one.
`LInv` adds `Limits` (the limit is `MaxLoad` of the capacity) and `Growing` (a
rebuild under way raises the limit, and to what `Reserve` asked for). Two lemmas
about the arithmetic carry it: `MaxLoadFacts` (the limit is below the capacity and
doubling raises it) and `ReserveSuffices` (scaling by 10/7 undoes the rounding of
the 70%, for every number of elements).

`PInv` adds to `LInv` what makes lookups work: `MapsInOrder` (in every table the
used slots are as many as `m_Size`, no key is in two of them, and all groups on the
way of an element's probe before its own are full), `Filling` (during a rebuild the same holds
of the new table, for the elements already moved, and the others are still in the
old one), `KeyIsNew` (the pending key is in neither) and `Owned` (blocks and
objects have one owner each). An element is put into the first empty slot of its
probe, so no other element's way is cut; slots are never emptied one by one, so a full group stays full. That
the used slots are as many as `m_Size`, together with `LoadLimit`, gives the
empty slot at which every probe ends; that the probe visits every group
is a fact about its step modulo the number of groups. The refinement reads the elements out of
the table (`Find`'s answers); `MapAbs` states each step with a function that is
extended at one key.

**The deque.** The first theorems of `Containers_proofs` hold for every block size, every limit of
blocks, every set of deques, blocks and values. Assumptions: `NamesAssumption` (null and the
marks of a cell are no blocks and no values), `CapacityAssumption` (a block holds a power of
two of elements, the table has at least one entry).

| Theorem | Statement |
|---|---|
| `DequesInOrder` | `Spec => []DInv` |
| `BlocksOwnedHolds` | `Spec => []BlocksOwned` (part of `StorageOwned`) |
| `ObjectsExactHolds` | `Spec => []ObjectsExact` (part of `ObjectsOwned`) |
| `PointersStableHolds` | `Spec => PointersStable` |

*The argument.* `DInv` says of every deque that exactly the blocks that its size
reaches are allocated, of the blocks that no two entries of any tables name the same one, and of the cells
that the constructed ones are those below the size. Two lemmas cover all actions:
`EmplacedInv` (one cell more) and `RearrangedInv` (deques are swapped, emptied,
created and destroyed, their cells stay where they are).

**The vector.** The theorems of `KVector_proofs` hold for every set of vectors, blocks
and values, for objects and for plain data, for every inline capacity (none too), every largest
capacity and every rule of growth that makes room. Their hypothesis `ConstantsOK` says just that:
names are distinct, sizes are natural numbers, `SmallCapacity` is not zero,
`FirstDynamic` is at least `SmallCapacity`, and `DoublingLimit` at least 2 (a
capacity of 1 would not grow by half); the code has 4, 8 and 1024. `MCContainers` assumes it of its
two instances (`VectorsAssumption`), where TLC evaluates it.

| Theorem | Statement |
|---|---|
| `VectorsStorageOwned` | `ConstantsOK /\ Spec => [](TypeOK /\ StorageOwned)` |
| `VectorsObjectsExact` | `ConstantsOK /\ Spec => []ObjectsExact` |
| `VectorsImplementSequences` | `ConstantsOK /\ Spec => AsSequences!ASpec` (`SequenceAbs` of the vectors' `Contents`) |
| `ContainersInOrder` | `MCSpec => []CInv` |
| `StorageOwnedHolds` | `MCSpec => []StorageOwned` |
| `ObjectsOwnedHolds` | `MCSpec => []ObjectsOwned` |
| `SharedPointersStable` | `MCSpec => PointersStable` |
| `ImplementSequencesHolds` | `MCSpec => ImplementSequences` |

*The argument.* `StorageOwned` does not say that a cell behind the elements is empty, nor
that an inline buffer out of use is; without that a construction or a move back to the
inline buffer could build over an object. `VInv` adds both (`Housed`, `Inline`), that no two vectors
use one buffer, that a block nobody uses is free, and that the
objects are counted. It is stated of any five values (`Good`), so an operation of several
parts is proved as several steps of `Good`: an insertion that grows is a move to the
new block and a shift, a clone empties its target, may move it to a new block, and fills
it, a move assignment destroys its target, constructs it again and takes over. `RehousedGood`
covers all parts but one, those in which one vector gets another buffer or size; `AdoptGood` is the
other, a block that changes hands. That a grown vector has room for one more element is
`CapacityGrows`; that an argument which is an element of the vector itself is still an object when it is
read is `ArgsValid`, and it is read before the elements move. `CInv` is `DInv` or `VInv`, by the container.

*The refinement.* The sequences are read out of the memory: a vector's are the first cells of its
buffer (`Rows`, `ContentsAreRows`), a deque's the cells its table leads to (`DequeRows`,
`DequeContents`). `SequenceStep(x, y)` is a step of `SequenceAbs` or a stutter, said of any two
families of sequences, so that deques and both kinds of vectors are compared with one and the
same formula. Of the vectors, `RowReplaced` shows that an operation which writes only the
buffer of one vector, its inline buffer and a free block (`Touches`) changes no other vector's
sequence; what is left for each operation is its own vector's new row: the old one with an element
behind it (`RowAppended`) or in its midst (`InsertedRow`), the row of another vector, or none.
An argument that is an element is read before the elements move, and when it is consumed the shell it
leaves is moved to the new buffer with them: this is `AAppendMoved`, from whichever vector, the same one too
(`ArgAppended`). Of the deques, no two elements share a cell (`CellsDistinct`), so the shell of a
consumed argument is one element's (`ConsumedRows`) and the new element's cell was nobody's
(`EmplacedRows`); every other step hands whole tables on (`HandedOn`). `VInv` and `DInv` are
needed throughout: without one owner per block, a write would show in another sequence.

**The harness.** The theorems of `TestHosts_proofs` hold for every number of threads
requested and had, of tiers and of tests, and whatever creation, reference or
allocation fails. Assumptions: `CountsAssumption` (counts are natural numbers, the
tables of the harness have room for one thread at least) and `LogAssumption` (the
log has a size).

| Theorem | Statement |
|---|---|
| `HarnessInvariant` | `Spec => []AnyInv` |
| `NoUseAfterFreeHolds` | `Spec => []NoUseAfterFree` |
| `NothingLeftHolds` | `Spec => []NothingLeft` |
| `FailureReportedHolds` | `Spec => []FailureReported` |
| `HostInvariant` | `MasterReferenceMayFail = FALSE => (Spec => []HInv)` |
| `LeftSafelyHolds` | `MasterReferenceMayFail = FALSE => (Spec => []LeftSafely)` |
| `LogBufferValidHolds` | `MasterReferenceMayFail = FALSE => (Spec => []LogBufferValid)` |

The last three need the hypothesis: without it they are false, which is finding 3.

*The argument.* The state of each worker must be related to where the test thread is in
starting, stopping and joining: `TInv` says which worker slots hold a thread object at
which step, and that no other worker runs (`Accounted`), how far the loops over the
workers have come (`Started`), what is allocated at every step of a tier's set-up, of
its modes and of its end (`Allocated`; each way out frees what was allocated up to
there, no more and no less), and that a wrong result and a failed tier are on their way
to the verdict (`Remembered`: by the context until the mode has ended, by the abort flag
or the count of failed tiers from then on). `EventsLeft` counts the events: two for each
tier that is over, and one for each mode the running tier has begun (`Begun`). `AnyInv`
is both, with `Unstarted`, which keeps a host from starting the tests twice. `HInv` adds
the thread that loads the driver, or `main`, and the owner of the log. The user mode
program's steps are those of `TestThreads` seen through an INSTANCE; `UmThreads` says
they are the same.

**The matcher.** The theorems of `WildCardMatch_proofs` hold for every pattern suffix
of the form `IsWildSuffix` and every text, of every length and over all characters, both scopes and
both case modes. Assumptions: `StringsAssumption` (patterns and texts are
sequences of characters), `ModesAssumption`.

| Theorem | Statement |
|---|---|
| `MatcherInvariant` | `Spec => []WInv` |
| `ReadsInBoundsHolds` | `Spec => []ReadsInBounds` |
| `LengthsExactHolds` | `Spec => []LengthsExact` |
| `NoMatchLostHolds` | `Spec => []NoMatchLost` |
| `CorrectHolds` | `Spec => []Correct` |

*The argument.* `Correct` is about the last state only. `WInv` is what holds at every turn:
the cursors are at token boundaries of the pattern, the counters are what is needed
from there, and with `S(i)` the offsets of the text from which the pattern matches
from offset `i` on, `0 \in S(0)` exactly when the cursor `s` is in `S(p)` or
one of the later starts after the last star is in `S(lastStarP)`. That only
the last star is kept needs the central lemma: a match that leaves an earlier star
later than the present one can be exchanged for one that leaves it at the present
place. In the scope of a path segment it holds only up to the next separator, which is
where the code gives up. The recursive functions of
`PatternSyntax` are reasoned about with `FromTheEnd` (a set of offsets that contains every offset
all of whose successors it contains holds them all), proved from the well-ordering of the natural
numbers, so that the library's induction with an operator parameter is not needed.

**The engine.** The theorems of `KmStringPatternMatch_proofs` hold for every set of patterns
and texts, every hash function and every size of filter, containers and limits.
Assumptions: `StringsAssumption`, `ModesAssumption`, `SizeAssumption` (sizes are natural numbers; filter, blocks
and tables of blocks are not empty), `HashAssumption` (a hash is a natural number) and `UpperAssumption` (the upper case
of a character is a character: a fact about the strings of `CaseMap` which TLC evaluates and the provers,
which know nothing of strings, cannot).

| Theorem | Statement |
|---|---|
| `EngineInvariant` | `Spec => []EInv` |
| `IndexCompleteHolds` | `Spec => []IndexComplete` |
| `MatcherContractHolds` | `Spec => []MatcherContract` |
| `SearchExactHolds` | `Spec => []SearchExact` |
| `PartialSearchSoundHolds` | `Spec => []PartialSearchSound` |
| `FirstExactHolds` | `Spec => []FirstExact` |
| `FailedAddInvisibleHolds` | `Spec => FailedAddInvisible` |

*The argument.* `IndexComplete` speaks of what is read back from the arena (the hash
of an entry's prefix), so it needs to know what was written there. `EInv` says that
the entries of the slow path list (`SlowIndexed`) and of the buckets
(`HashIndexed`) are, in the order of registration, exactly the entries that the
registered patterns give, with their buffers in the arena holding the folded prefix,
suffix and tail (`Describes`), that filter, lengths, flag and minimum
admit each of them (`AllReachable`), and that no two registrations have one context
(`Recorded`). Buffers are only appended or cut back to
the bookmark, so an entry's buffers never change.

The searches need two things more. *What one entry decides:* the lemmas of
`PatternParser_proofs` follow the parser's loops over every pattern. A literal run
matches the characters it unescapes to and nothing else (`RunMatches`), so a text
matches the pattern exactly if it starts with the prefix (`PrefixSplits`), ends with
the tail (`SuffixSplits`) and what is left between them matches the wildcard suffix;
the minimum length and the probe character never exclude a text that matches
(`ProbeFinds`). `BucketDecides` and `SlowDecides` put this together: the checks of
`SearchInternal`, in the code's order, decide `Glob`. *What the loops collect:*
`Answers(s, K)` says that the entries of `s` are those of the registrations `K`, each
once and in the order of prefix length and registration. Every filtering loop keeps the matching entries of
its list (`FilteredGathers`), the binary search over the lengths finds the text's own
(`LowerBoundFacts`), a length that is not visited, a bit of the filter that is not set and a
text that is rejected at once concern no registration that matches (`MatchReached`), and
so `SearchAnswers`: the entries handed to the collector are those of all
registrations that match. `OutExact` carries that from the call to its result; the
three properties of the searches follow from it. `FailedAddInvisible` compares the
answers before and after a step: an answer is determined by the registrations that
match, the entries and their order (`OrderedSame`), no registration has two entries
(`EntriesOnce`), and a failed call keeps all three (`FailedAddKeeps`).

TLC checked the inductive invariants of engine and matcher on the runs' instances before they were proved (`EInv` on
186,000 states of `engine_index` and `engine_patterns`, `WInv` on 90,000 of `matcher`).

*Only model-checked:* liveness (`Terminates`, `LoopsEnd`, `HarnessEnds`), which is
out of the prover's reach here; the word modules, which use bit operations the
prover's backends do not have.

## 5. Not modelled

Pool tags, IRQL and paging; performance; `RtlUpcaseUnicodeChar` beyond the letters
used; the iterators of `KFlatHashMap` beyond the slots they visit and the constants
of `KDefaultHash`; `PlatformUtils.h`, whose helpers are used by what they compute;
the measurements, the test tables and the detection of performance cores in the
harness (a choice of their number); the container tests, which call the modelled
operations in one order each; the parts of the kernel stubs that forward to the C
library. Calls of `AddPattern` or `Clear` concurrent with `Search` are excluded by
the library's contract.

## 6. Plan

The modules above are the ones planned, and every safety property of a passing run is proved but
those of the word modules. What could be added: `CharWords` with words as functions from bit numbers
to bits, in place of the library's bit operations, so that the carries between lanes can be
reasoned about and `ScanExact`, `CompareExact` and `VisitsExact` proved for every number of lanes.

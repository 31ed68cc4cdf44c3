# A verification development of faiss

This directory holds TLA+ models of the parts of faiss (in the fork that adds
the NaviX filtered search to HNSW) that keep state which several threads, or a
long sequence of calls, can bring into disorder. TLC checks the models on small
instances; TLAPS proves theorems about them for all instances. Every
definition is translated from the code; `PROJECT.json` maps it to its lines.

1. [The system](#1-the-system): components, state, operations, interactions
2. [The modules](#2-the-modules): what models what, and how
3. [The runs](#3-the-runs): what each shows, bounds, fairness
4. [The proofs](#4-the-proofs)
5. [Where the code and its documentation disagree](#5-where-the-code-and-its-documentation-disagree)
6. [What is not modelled, and why](#6-what-is-not-modelled-and-why)
7. [Plan](#7-plan)

To run: `tlc -config OnDiskAdds.cfg OnDiskInvertedLists.tla` (the run table
names the module of each configuration), and `tlapm` on each module whose name
ends in `Proofs` and on `ProofLemmas.tla`.

## 1. The system

faiss is a library of vector indexes. An `Index` takes vectors (`add`), finds
the nearest ones to a query (`search`), and for some kinds removes or updates
vectors. Most of the code is arithmetic over arrays. What follows is where the
library keeps state of its own; paths are relative to `src/faiss/`.

### The on-disk store: `invlists/OnDiskInvertedLists.{h,cpp}`

An IVF index keeps each vector in one of `nlist` inverted lists of (code, id)
entries. `OnDiskInvertedLists` keeps all of them in one file that is mapped in
memory.

| part | state | operations |
|---|---|---|
| `LockLevels` | `level1_holders`, `n_level2`, `level2_in_use`, `level3_in_use`, a mutex and three condition variables | `lock_1(n)` … `unlock_3` |
| free slots | `slots`, an ordered list of [offset, capacity] | `allocate_slot`, `free_slot`, and the slot that `update_totsize` adds |
| the store | `lists` ([size, capacity, offset] each), `totsize`, `ptr`, the file | `add_entries`, `update_entries`, `resize`, `update_totsize` (munmap, truncate, mmap), `get_codes`/`get_ids`, `merge_from_multiple`, `crop_invlists`, `set_all_lists_sizes` |
| `OngoingPrefetch` | the batch `list_ids`, the position `cur_list`, `threads`, two mutexes | `prefetch_lists`, the worker loop, the destructor |

How they interact: `add_entries`, `resize` and the prefetch threads hold
`lock_1` of the list they use. A list that outgrows its block (or shrinks below half
of it) takes `lock_2`, gives its block back to the slots and takes another. If
no slot is large enough it takes `lock_3`, unmaps the file, makes it longer and
maps it again, at another address: every pointer into the old mapping is now
dangling. `lock_3` therefore waits until every other level-1 holder is inside
`lock_2`, where it uses no pointer.

Hard: which threads may still use a pointer while another remaps; wake-ups on
three condition variables that share one mutex; errors thrown between `lock_3`
and `unlock_3`; arithmetic that mixes entries and bytes; searches that replace
each other's prefetch batch while workers still read.

Correct when: a remap excludes every user of a pointer; no wake-up is lost and
no call waits for ever; no byte of the file belongs to two lists, or to a list
and a slot; what was added to a list can be read from it; each list of a batch
is prefetched once; no prefetch thread outlives the store.

### HNSW construction: `impl/HNSW.{h,cpp}`, `IndexHNSW.cpp`

State: for each node its level and, for each of its levels, a fixed number of
neighbor slots in one table; `entry_point`, `max_level`; one OpenMP lock per
node while vectors are added. `hnsw_add_vertices` adds the nodes of one call
bucket by bucket, from the highest level down, the nodes of a bucket in
parallel. `add_with_locks` adds one: it descends greedily to the node's level,
then at each level searches the neighbors to add, prunes them, links them from
the node and links the node back from each of them.

Hard: searches read lists that others rewrite in place, without a lock;
`entry_point` and `max_level` are read and written at different moments; a
thread takes locks of other nodes while others take its own; lists overflow.

Correct when: a list is a duplicate-free sequence of nodes of its level; no
thread reads or writes outside a node's slots; linking loses neither a link
where there is room nor the nearest one where there is not; the entry point is
a node of the highest level; the graph gets built.

### HNSW and NaviX search: `impl/HNSW.{h,cpp}`

State of one search: the candidates, a `MinimaxHeap` of fixed size whose popped
entries stay as holes; a heap of results; a `VisitedTable`, one byte per node,
which a thread keeps from query to query and clears only when its mark
runs out. `search` descends to level 0 and then runs one of three loops
(bounded, bounded by steps, unbounded); `navix_hybrid_search`, which takes a
mask, decides at each node between its neighbors, the neighbors of some of them
and those of all.

Hard: a heap at its limit that drops holes or live entries; marks of old
queries; nodes the mask leaves out, which are sometimes marked and sometimes
not; entries pushed without a look at the marks.

Correct when: what is returned is the nearest of what was visited and admitted;
a search with an ample heap is exact; every search ends.

### Threads and collections of indexes: `utils/WorkerThread.cpp`, `impl/ThreadedIndex-inl.h`, `IndexShards.cpp`, `IndexReplicas.cpp`, `MetaIndexes.cpp`

A `WorkerThread` has a queue of (callable, promise) pairs, a stop flag, a mutex
and a condition variable; `add` answers with a future. A `ThreadedIndex` has one
worker per sub-index and `runOnIndex` sends each of them a task and waits for
all. `IndexShards` divides the vectors, `IndexReplicas` the queries,
`IndexSplitVectors::search` makes its threads anew for each call.

Hard: the order of stop, signal and flush; one task of several that throws
while the others use the arrays of the caller; sub-indexes that come and go with
their threads; labels moved by sizes read earlier.

Correct when: every future is answered, and what was queued before a stop runs;
no task outlives the call it belongs to, no thread its sub-index; a search
gives what one index with all the vectors would give.

### Inverted files and id maps: `IndexIVF.cpp`, `invlists/DirectMap.cpp`, `IndexIDMap.cpp`

An `IndexIVF` keeps each vector in one inverted list; its `DirectMap`, an array or
a hash table, leads from an id to the place (list, offset). `IndexIDMap2` keeps
`id_map` (position to id) and `rev_map` (id to position) over another index.

Hard: removals that fill a hole with the last entry of the list, while ids read
before are used; an update that removes and appends, perhaps in one list;
calls that fail half-way; a team of threads that adds and one map that is told
at the end.

Correct when: after every call the maps lead to where the vectors are, and a
call changes only the vectors it names.

### Further components

| component | state | properties that would make it correct |
|---|---|---|
| block and stacked inverted lists (`invlists/`) | blocks of codes; references to other lists | a stack reads as the lists one behind the other |
| range results, interrupts (`impl/AuxIndexStructures.cpp`) | buffers per thread; a global callback and mutex | merged results are the partial ones; a timeout stops every thread |
| NSG, NNDescent | graphs, per-node locks | as for HNSW |
| serialisation | - | what is read is what was written |
| quantizers, transforms, clustering, distance kernels, heaps, GPU, bindings | numerical, or wrappers | - |

`PROJECT.json` lists all of them with their status, and under `hazards` what in
this code is hard to test, each at its line, with the properties that cover it.

## 2. The modules

| module | models | kind |
|---|---|---|
| `LockLevels` | struct `LockLevels` | state machine |
| `LockLevelsProofs` | - | theorems about `LockLevels` |
| `SlotAllocator` | `allocate_slot`, `free_slot`, the slot of `update_totsize` | operators |
| `SlotAllocatorProofs` | - | lemmas about these operators |
| `OnDiskInvertedLists` | the store | composes `LockLevels` (by `INSTANCE`) and `SlotAllocator` |
| `OnDiskInvertedListsProofs` | - | theorems about the store, and that it implements `LockLevels` |
| `OngoingPrefetch`, `MCOngoingPrefetch` | the prefetch threads | state machine |
| `OngoingPrefetchProofs` | - | theorems about them |
| `MergeFromMultiple` | the steps of `merge_from_multiple` | state machine |
| `MergeFromMultipleProofs` | - | theorems about them |
| `HNSWGraph` | the neighbor tables and what is computed on them | operators |
| `HNSWBuild`, `MCHNSWBuild` | the parallel construction | state machine on `HNSWGraph` |
| `HNSWBuildProofs` | - | theorems about the construction |
| `HNSWSearch`, `MCHNSWSearch` | searches, `MinimaxHeap`, `VisitedTable` | state machine on `HNSWGraph` |
| `Executor` | what a `WorkerThread` promises | abstract specification |
| `WorkerThread` | the queue, the flag and the thread | actions, used alone and by `ThreadedIndex` |
| `ThreadedIndex`, `MCThreadedIndex` | shards, replicas and split vectors over workers | composes `WorkerThread` |
| `ThreadedIndexProofs` | - | theorems about `WorkerThread`, which implements `Executor`; and about the collections, which use workers as it allows |
| `VectorStore` | what an index with ids promises | abstract specification |
| `IndexIVF` | lists and direct map | actions |
| `IndexIDMap`, `MCIndexIDMap` | `IndexIDMap2` over a flat index or an IVF, or an IVF alone | extends `IndexIVF`, implements `VectorStore` |
| `ProofLemmas` | - | lemmas about numbers and sequences for all of the proofs |

A definition whose comment begins "Faulty variant" is a plausible bug, used in
no specification; the `mutants` of `PROJECT.json` put it in the place of the
right one to show that a property notices.

**`LockLevels`.** The variables are the members of the struct; `pc` says where
each thread is, `no` which list it locked. Every method runs under `mutex1`, so
a method is one action, enabled while `mutex1` is free, with three exceptions
which the model keeps: `pthread_cond_wait` gives `mutex1` up (a "wait" state),
a woken thread must take `mutex1` again before it tests its condition
("retry"), and `lock_3` returns with `mutex1` held, until `unlock_3`. A signal
wakes any one waiter, a broadcast all, and every wait may end spuriously. A caller
holds one level-1 lock at a time, takes level 2 only with it and level 3 only
with level 2, as the callers in the store do.

**`SlotAllocator`.** Each operator maps a sequence of slots to the next:
`FirstFit` and `Take` (the loop and the cut of `allocate_slot`), `Extend` (the
end of `update_totsize`), `Free` (the merging of `free_slot`), `FreeAsserts`
(its two asserts). The header says the slots are "sorted by size"; the code keeps
them by offset, and so does the model.

**`OnDiskInvertedLists`.** One action per stretch of code between two points where
another thread can make a difference: the lock calls (actions of `LockLevels`
conjoined with the step), `FreeSlot` and `AllocateSlot` under level 2, `Unmap`
and `Remap` under level 3, `CopyCommon`, `Publish`, the two writes of
`update_entries` with the pointer read before each, a reader's `GetList` and
`ReadList`. `RemapThrows` is an exception anywhere in `update_totsize`: no
caller releases a lock, so the thread keeps all three. The file is a set of
objects (a code or an id of the s-th entry added to list l) at byte ranges; a
write destroys what it overlaps. `memcpy` with overlapping ranges is undefined
in C; the model lets the bytes arrive or be lost. A pointer is the number of
the mapping it came from. The asserts are off, as in a release build: they are
properties. Ghosts: `content`, what each entry should be, and `added`.

**`OngoingPrefetch`.** Callers go through `prefetch_lists` (`Drop` the batch,
join, `Prepare`, `StartWorker`, `Return`), workers claim a list and read it, the
destructor joins without dropping. `list_size` is read without a lock, so
which lists of the batch are empty is a nondeterministic choice.

**`MergeFromMultiple`.** `Count` (one source at a time: sizes and id offset),
`Place` (layout and file) or `PlaceFails` (the layout, and `update_totsize`
throws), then one thread per list appends source after source, interleaved.
Offsets count entries. `slots` is what `update_totsize` leaves. A call on a
store that is not empty, or with sources of another shape, throws before
anything of the store changes; it is left out.

**`HNSWGraph`, `HNSWBuild`.** A table maps (node, level) to the slots of
`neighbor_range`. `Good`, `Pruned`, `ShrinkNeighborList`, `AddLink`,
`GreedyUpdateNearest` are `shrink_neighbor_list`, `add_link` and
`greedy_update_nearest`; distances are a constant with no ties (the order of a
priority queue among equals is unspecified). `TakeNode`, `NextBucket`: the
loops of `hnsw_add_vertices`. `Enter`: the critical section. `LockOwn`: the own
lock, `max_level`, the greedy descent. `Expand`: one step of
`search_neighbors_to_add`; `LinkOwn`: pruning and the own links, under the own
lock. `StartLinkBack` … `EndLinkBack`: `add_link` at a neighbor under its lock;
in between, a search that reads this list sees any mixture of old and new slots
(`Views`). `Relock`: the next level. `RaiseMaxLevel`, `RaiseEntryPoint`: the two
assignments at the end, outside any lock.

Abstractions: the reads of the greedy descent happen at one moment (those of
the search at the level to link do not); `candidates` leaves out entries that
can never be expanded; `omp parallel if (i1 > i0 + 100)` is the constant
`ParallelAbove`, so that small buckets can be parallel in the model.

**`HNSWSearch`.** The graph (`table`) is any of a set that does not change. `Ask` is
the caller, `Enter` the descent and what a loop starts with, `Expand…` one
iteration, `Stop…` the tests that end it, `Answer` the caller taking the results
and advancing the `VisitedTable`. A `MinimaxHeap` is the set of entries `held`
with the set of `holes` among them, as popping keeps the distance and takes the
id; `nvalid` is a variable of its own, kept as the code keeps it. `OneHop`,
`Directed` and `FullTwoHop` give the nodes an iteration of navix computes
distances to and the nodes it marks; `Hops` chooses. Prefetching and the computation
of distances four at a time are left out.

**`Executor`, `WorkerThread`.** A worker's code under its mutex is one action; a
task is in `running` from the moment it is taken to the moment it ends, so
that everything else may happen meanwhile. `LeaveLoop` sees the stop flag;
`Flush` takes what is left, without the mutex, as the code does; `Exit`
ends the thread. `Add` after a stop answers "not run". In `Executor` there is
no thread: a server is open or closed, has a sequence of accepted jobs and
executes the first. The mapping: open is a living thread without a stop flag,
the jobs are what runs followed by the queue.

**`ThreadedIndex`.** `kind` says which of the classes the object is, or that a
worker is used alone (`DirectUse`). A call is a walk through the sub-indexes,
with `call.at` as the loop variable: `Submit` or `Inline` for each, `Gather` the
futures (all of them before the first exception is thrown again), `Finish`
(`syncWithSubIndexes`, or its omission after an exception). `addIndex` makes a
worker (`Construct`, `AddFirst`, `Constructed`), `removeIndex` stops and joins
one (`StopWorker`, `Join`, `Erase`). A task may throw; it has then left its
sub-index as it was (an add that fails half-way is the sub-index's own matter).
`ThreadedIndex.h` says that the interface is not thread-safe: one caller changes
the collection, others only search. Vectors are numbers and the two queries look
for small or large ones.

**`VectorStore`, `IndexIVF`, `IndexIDMap`.** A list is a sequence of entries
(id, code), a place a list and a position. `BeginAdd`, `AddEntry`, `EndAdd` are
the team of threads in `add_core`, each taking the vectors of its lists in the
order of the batch, with the constructor and the destructor of `DirectMapAdd`
around it. Every other call is sequential and one action. `ScanStep` and
`HashRemoved` are the loops of `remove_ids`, `CodeUpdated` that of
`update_codes`. `IndexIDMap` adds `flat` (the codes of an `IndexFlatCodes`),
`id_map` and `rev_map`. `VectorStore` is a map from ids to codes with a call
under way; its `Put` stores in any order, and a replacement that
fails because ids are absent has either removed the others or replaced some of
them, according to the direct map (`Contents` and `Meant` are the mapping). Inputs: new vectors get free
ids, as the documentation demands of the caller; an index with a hash table is
always given ids, because `DirectMapAdd` would otherwise number from an
uninitialised variable.

## 3. The runs

| run | configuration | instance | distinct states | shows |
|---|---|---|---|---|
| `locklevels` | `LockLevels.cfg` | 4 threads, 3 lists | 112,695 | the locks exclude what they should; no wake-up is lost; who wants to remap gets to |
| `ondisk_adds` | `OnDiskAdds.cfg` | 2 threads, 2 lists, 4 calls that add 1 or 9 entries or read | 238,674 | the free slots stay in order, no addition is lost, calls return, `LockLevels` is implemented |
| `ondisk_failure` | `OnDiskFailure.cfg` | 3 threads, 2 lists, 3 calls that add 1 or 9, resize to 0 or 9 or read, failing remaps | 1,028,968 | bytes have one owner and contents are kept, through adds and resizes; no stale pointer is used, and after an exception the store stands still |
| `prefetch` | `OngoingPrefetch.cfg` | 2 callers, 2 threads, 3 calls | 70,442 | each list of a batch is read once, by its own generation; calls and destructor return |
| `merge` | `MergeFromMultiple.cfg` | 3 sources, 2 lists, 0..2 entries each, a file that may fail | 16,021 | lists hold their sources or nothing, the store is compact, shards that do not get smaller stay apart |
| `hnsw_build` | `HNSWBuild.cfg` | 2 threads, 5 nodes on levels 0 and 1, then one on level 2 | 183,305 | well-formed lists, no lost links, right entry point, no deadlock |
| `hnsw_search` | `HNSWSearch.cfg` | 486 graphs of 5 nodes, 3 query points, 5 masks, 4 methods, any sequence of queries | 1,699,168 | the heap keeps the nearest, results are right, wide searches exact, searches end |
| `threaded_index` | `ThreadedIndex.cfg` | 2 workers, the owner and another caller, 3 calls; 4 uses of a worker alone | 305,009 | tasks end with their call, threads with their index; searches see everything; `Executor` is implemented; calls return |
| `id_maps` | `IndexIDMap.cfg` | 2 lists, 4 codes, 3 ids, a team of 2, batches of 2, 3 calls | 125,133 | the maps lead to the vectors; `VectorStore` is implemented |
| `ondisk_shrink`, `merge_slots`, `hnsw_race` | `OnDiskShrink.cfg`, `MergeSlots.cfg`, `HNSWRace.cfg` | | | disagreements, section 5 |

The modules of the configurations are `LockLevels`, `OnDiskInvertedLists`,
`MCOngoingPrefetch`, `MergeFromMultiple`, `MCHNSWBuild`, `MCHNSWSearch`,
`MCThreadedIndex` and `MCIndexIDMap`. Invariants that belong together are
checked as one conjunction of named parts: `LocksExact`, `BooksInOrder`,
`GenerationsApart`, `StoreIsSources`, `GraphInOrder`, `NothingLost`,
`WorkersFollowIndex` and `MapsInOrder`.

**What the properties say.** `Quiescent`: while a thread is between `lock_3` and
`unlock_3` no other is on level 1 except blocked in `lock_2`. `HoldersExact`: the
two counts `lock_3` compares are what they are meant to count. `NoLostWakeup`:
whoever sleeps has a reason to. `NoStalePointer` is what `Quiescent` is for, in
the store. `NoDoubleOwner` relates slots, lists and blocks in transit;
`SlotsCoalesced` is the order `free_slot` relies on; `ContentsKept` relates
every list to everything ever written by anybody; `AddsComplete` says concurrent
additions to one list do not overwrite each other. `ClaimsFollowBatch` and
`ReadersOfThisBatch` keep two generations of workers apart. `NearestLinksBack`
says that rewriting a full list drops a link only for a nearer one, and
`LinksMutual` that where lists cannot overflow no link is lost at all;
`AllReachable`, that a search then reaches every node from the entry point.
`NeighborRangeInside` says that no list is asked for of a level its node lacks.

`TasksEndWithCall` is about memory: a task refers to arrays of its caller, and
must be gone when the call is over, also when another task has thrown.
`SearchSeesAll` compares a search of the collection with one of a single index.
`TotalsAgree` holds as long as nothing has thrown (`clean`); after an exception
it does not, section 5. `DirectMapExact` and `MapsInOrder` relate the maps to
the lists; `StoreImplemented` says of every call what it may change.
`HeapHoldsNearest` is what `count_below`, which ends a search, relies on.
`ResultsNearest` leaves room for one thing the code does, that navix returns its
starting node twice. `SearchEnds` bounds the iterations.

**Refinements** checked as properties: `LocksImplemented` (the store implements
`LockLevels`), `ExecutorImplemented` (`ThreadedIndex`'s workers implement
`Executor`), `StoreImplemented` (the indexes implement `VectorStore`), each with its
fairness.

**Bounds.** Four lock users allow one in `lock_3`, one blocked in `lock_2`, one
on level 1 and one newcomer, every role the code distinguishes; three lists let
the first three hold different ones, the newcomer asking for any of them. Adds
of 1 and 9 entries reach capacities 1, 2, 4, 16, 32 and 64; an entry has 9 bytes (a code
of one), so the first file of 32 bytes must grow, several times within 4 calls.
A block of 16 entries leaves 16 bytes behind when it is freed, enough for the
block of one entry: what one list frees another gets, cut or whole. Resizes to 0
and 9 pass through every branch of `resize_locked`, a move to a smaller block
included. In `ondisk_failure` the third thread is the one that
would use the unmapped file, and an add of 1 to a block of 16 fits
in place, so that only the locks can hold it back. Two callers and three calls
give two generations of workers with one more waiting; two workers share a batch
of more lists than workers. Three sources are the least for which an id offset
accumulates. Four nodes in the top bucket of the first call and two slots above
level 0 make lists overflow while others read them; the slots at level 0 suffice
for all nodes, which `LinksMutual` and `AllReachable` need. The second call
raises `max_level` while all others are built, `ParallelAbove = 1` keeping its
one-node bucket on one thread, as buckets of up to 100 nodes are.
`EfConstruction` 2 is below the size of the graph, so that searches end early.

In `hnsw_search` lists of one to three neighbors in a ring make graphs with and
without detours, of which the nodes of level 1 may have lost a link; `EfSearch`
2 makes the heap overflow and drop holes, 5 holds the whole graph. Constants of
the code are parameters where five nodes would not reach them: `VisitedLimit` 3
for 250, so that the table is cleared every second query; `StartNodes` 1 for 10;
`CostPercent` 130 for 40, without which no list of three neighbors leads to the
directed hop. In `threaded_index` two shards of which one may be empty or hold
an older vector, adds of 3 vectors and searches of 1 or 3 queries give uneven
parts and a replica without a query; three calls allow an addIndex or
removeIndex between others. In `id_maps` two codes share a list, one has another
and one, a NaN, has none; batches of two may fill one list or two, and a removal
of two swaps twice in a list of three. The bounds inside the modules are
`MaxCalls`, `MaxUses`, `MaxVectors` and `MaxBatch`.

**Fairness.** `FairSpec` of each module is weak fairness of each thread's next
step: threads are scheduled, and one that holds a lock goes on. `LockLevels`
assumes it of the lock holder's next call (`Progress`), which the store
implements (`LocksImplemented` checks this, fairness included). No fairness is
assumed for making a call, for spurious wake-ups, or of one waiter over another:
it is not claimed that every `lock_1` is granted in the unbounded `LockLevels`
(a mutex need not be fair), only that a thread that wants to remap gets its
turn, for which new level-1 lockers are held back. In the store, calls are
bounded and every call returns. `ThreadedIndex` assumes weak fairness of each
caller inside a call and of each worker thread; `IndexIDMap` of the call under
way. `HNSWSearch` assumes none: it is one thread, and that it ends is the bound
`SearchEnds`.

**Deadlock** is checked in every passing run but two. In `ondisk_failure` an
exception leaves locks taken for good and others really wait for ever. In
`id_maps` the calls are used up at the bound and nothing is left to do. Runs
that are bounded, or end, otherwise stutter at their end (`Finished`, `Built`,
`Done`).

**Liveness** (`Level3Granted`, `EveryCallReturns`, `CallsReturn`, `GetsBuilt`,
the fairness parts of `LocksImplemented`, `ExecutorImplemented` and
`StoreImplemented`) is model-checked only: it is out of the prover's reach.

## 4. The proofs

`LockLevelsProofs` proves, for every finite set of threads and every finite
non-empty set of lists (`ThreadsAssumption`, `ListsAssumption`; the first also
says that `NoThread` is not a thread):

| theorem | states |
|---|---|
| `Invariance` | `Spec => []IInv` |
| `TypeCorrect` | `Spec => []TypeOK` |
| `MutualExclusion` | `Spec => []LocksExact` (`HoldersExact /\ Exclusive`) |
| `RemapIsExclusive` | `Spec => []Quiescent` |
| `WakeupsAreNotLost` | `Spec => []NoLostWakeup` |

The inductive invariant is `IInv == TypeOK /\ HoldersExact /\ Exclusive /\
RemapAllowed /\ NoLostWakeup`. `Quiescent` is not inductive: the code does not
look at who is where, it compares `level1_holders.size()` with `n_level2`.
`HoldersExact` makes these two the numbers of threads that own level 1 and that
are inside `lock_2`; `RemapAllowed` says that the comparison stays as `lock_3`
left it, for which `Exclusive` is needed (`mutex1` is held up to `unlock_3`, so
nobody changes the counts); and `QuiescentWhileRemapping` concludes: the second
set is a subset of the first, they are finite and the first is not larger, so
they are equal.

The layout: `Finiteness` and `HoldersCounted` (the level-1 owners and the
numbers they own have the same cardinality, because no two own the same) are the
counting facts; `SignalEffect` and `BroadcastEffect` say what a wake-up does to
the program counters; `InitEstablishes`; one lemma per level and one for spurious
wake-ups (`Level1Preserves`, …), each with a step per action and below it one
per conjunct; `NextPreserves` puts them together.

The first part of `ThreadedIndexProofs` proves, about `WorkerThread` alone and for
any sets of workers and tasks:

| theorem | states |
|---|---|
| `Invariance` | `WorkerSpec => []IInv` |
| `WorkersTypeCorrect` | `WorkerSpec => []WorkerTypeOK` |
| `FlushIsUndisturbed` | `WorkerSpec => FlushUndisturbed` |
| `ImplementsExecutor` | `WorkerSpec => E!Spec` |

`WorkerSpec` is `WorkerThread` under every possible use: construct, stop, add
and forget in any order. The inductive invariant adds `StateFollowsThread` to
the types: a thread that flushes has been stopped, one that waits or loops runs
nothing, an absent one has neither queue nor task. From this the flush is safe
although it walks the queue without the mutex (`add` refuses once the flag is
up, and the flag stays up as long as the thread lives), and each step of a
worker maps to a step of `Executor` or to none (`UseSimulates`,
`ThreadSimulates`). `HeadThenTail`, `RunningFirst` and `BehindBoth` are the
facts about sequences that the mapping of running task and queue to one sequence
needs. The collections use their workers in no other way (second part, below).

`OnDiskInvertedListsProofs` proves, for every finite set of threads and of lists,
every code size and every size of additions and resizes (`OnDiskAssumption`):

| theorem | states |
|---|---|
| `ImplementsLocks` | `Spec => LL!Spec` |
| `Invariance` | `Spec => []Inv` |
| `PointersStayValid` | `Spec => []NoStalePointer` |
| `BooksStayInOrder` | `Spec => []BooksInOrder` |
| `EveryByteHasOneOwner` | `Spec => []NoDoubleOwner` |
| `ThrowFreezesStore` | `Spec => FrozenAfterThrow` |
| `NothingAddedIsLost` | `ResizeSizes = {} => (Spec => []AddsComplete)` |
| `EntriesSurviveMoves` | `Spec /\ []~ShrinkingMove => []ContentsKept` |
| `AddedEntriesStay` | `ResizeSizes = {} => (Spec => []ContentsKept)` |

The store is built on the locks, and so is the proof. Each step of the store
is a step of `LockLevels` or leaves the locks alone (`StepsUseLocks`), so that
the invariant of `LockLevelsProofs` holds of it; what the store needs of that
is the four exclusions of `LocksApart`. `Inv == LocksApart /\ StoreInv` adds
what the actions of the store keep. `StepFollowsLock` ties the place of a
thread in its call to the lock it is at. `CallsInOrder` says what a call knows on
its way: that the block it is about to publish is large enough, that after
`update_totsize` a free slot fits, that its pointer is the present one.
`BlocksApart` generalises `NoDoubleOwner` to something inductive: a list holds
its own block, except between `free_slot` and the assignment that publishes
the new one, when its thread holds that; no range held overlaps another or a
free slot. `NoDoubleOwner` alone is not inductive, as it does not say whose a
block in transit is. `Unmapped` excuses the time before the first mapping.

What the slots do is in `SlotAllocatorProofs`, with arbitrary ordered slots:
`TakeKeeps`, `ExtendKeeps` and `FreeKeeps` say of `allocate_slot`,
`update_totsize` and `free_slot` that the slots stay in order, apart and in the
file, that a range clear of them before (and of what is freed) is clear
after, and what range is taken. That the doubling of `update_totsize` and of the
capacities reaches the size asked for, for sizes of any magnitude, is
`DoublingsReach` (by `LeastNumber`). `GrowthSteps`, `FreeSlotKeeps`,
`AllocateKeeps`, `PublishHolds` and `GrowthKeeps` are the five steps that matter;
`QuietSteps` covers the others.

`NothingAddedIsLost` has a hypothesis, because a resize that shrinks a list
discards what was added to it, and the property is about additions.

`ContentsKept` needs a hypothesis too, as the code does not keep it: a `resize`
to less than half of a block, but not to nothing, may move the list to the offset
it had, where nothing is copied, or to bytes that overlap the old block
(`ondisk_shrink`). `ShrinkingMove` is the state in which a thread is about to make
that move, and `EntriesSurviveMoves` says that nothing is lost where it is never
made: resizes that grow a list, that empty it, or that shrink it in place are
all allowed, and so are failing allocations. `AddedEntriesStay` has the case of
calls of `add_entries` alone, where the hypothesis holds by the invariant of
`NothingAddedIsLost`. The argument is `KeptInv`, on top of `Inv`:

- `MovesGrow`: blocks are more than half full, since a capacity is the least
  power of two that suffices (`HalfOfCapacity`). A list that moves without
  shrinking therefore moves to a larger block.
- `RestClear`: `free_slot` is given `capacity` bytes, not `capacity * EntrySize`.
  What it is not given, `Rest`, stays clear of the free slots and so of the new
  block. A larger block that fits below or above `Rest` has another
  offset than the old one, so `resize_locked` does copy, and neither `memcpy` writes over
  what it or the next one still has to read (`CopyPlaces`, `CopiesMoveEntries`).
- `ListsApart`: the whole blocks of the lists are apart, that of a list that is
  moving included; `BlocksApart` of `Inv` says less of such a list.
- `EntriesKept`: what can be read from the list, or between the copy and
  the assignment of the list from its new block (`CopiedBy`); that the positions
  `add_entries` has made room for hold nothing yet (`RoomBlank`), and then the ids
  without the codes (`IdsWritten`).

That `KeptInv` is inductive was first checked with TLC, on three instances with up
to three threads and sizes up to 20.

`OngoingPrefetchProofs` proves, for any callers, any number of threads, and any
batches (`PrefetchAssumption`):

| theorem | states |
|---|---|
| `Invariance` | `Spec => []IInv` |
| `GenerationsStayApart` | `Spec => []GenerationsApart` |
| `WholeBatchRead` | `Spec => []BatchRead` |
| `NoClaimAfterDrop` | `Spec => DroppedBatchStops` |

`GenerationsApart` becomes inductive with the mutex (`OneAtATime`: only one
caller joins, prepares or starts), the empty list after a drop (`DropEmpties`)
and the reason for which a worker exits (`ExitedAtEnd`): with these a new batch
is prepared only when no worker of the old one is left. `BatchRead` follows, as
the position is at the end of the batch when a worker exits by itself.

`ThreadedIndexProofs` proves, for every finite non-empty set of sub-indexes and
any callers (`ThreadedAssumption`):

| theorem | states |
|---|---|
| `ThreadedInvariance` | `Spec => []Inv` |
| `TasksEnd` | `Spec => []TasksEndWithCall` |
| `WorkersFollow` | `Spec => []WorkersFollowIndex` |
| `IndexesImplementExecutor` | `Spec => E!Spec` |
| `IndexesFlushUndisturbed` | `Spec => FlushUndisturbed` |
| `TotalsAlwaysAgree` | `Spec => []TotalsAgree` |

`Inv` is built in layers. `Control` says where callers can be, which operation
goes through which steps, over which positions, and that the owner changes the
collection alone. `WorkersSound` takes the invariant of the first part, in
which each worker is a queue and a thread, and files the tasks
(`TasksFiled`): an unanswered task is at exactly one place, with its own
worker. `PendingWanted` is the point of the proof: a task that is not answered
belongs to a position that its call still waits for, whichever of the others has
thrown. `TasksEndWithCall` follows, because a call that is over waits for
nothing. `ThreadsFollow` says which positions have their thread while threads
are being made or ended one by one; between calls it is `WorkersEndWithIndex`.
Neither is inductive alone: that the answer to wait for comes rests on the
thread, that a thread can be joined rests on its tasks. The vectors
(`DataTyped`) play no part in this and are typed apart. `UsedWell` then shows that
every step is one of `WorkerThread`'s (a task is submitted only to a living
worker, only answered futures are forgotten), whence `IndexesImplementExecutor`
by the theorem of the first part.

`TotalsAgree` speaks of the pauses between calls, and needs to know what a call has done to
each sub-index while its tasks run on several threads. Two invariants are added
in the third part. `AnswersKnown` follows the futures: which have been asked for, and that a
call that has not thrown has seen all of them done when it ends; so `Took(c, p)`, whether
the sub-index at position p has done its share, can be read off the
state. `NumbersKnown` says what is then in the sub-indexes, as long as nothing has
thrown (`Unharmed`): those that a `reset` is done with are empty; replicas number
their vectors from 0; shards that keep their labels share none (`Apart`), and
their labels are those below `ntotal` and, during an `add`, the shares of the positions that
have taken theirs (`LabelsCounted`). `SharesDivide` says that the ranges
`i * n / nshard` are disjoint and leave nothing out, so that a share holds only
new labels (`ShareIsNew`) and at the end of the call the labels are those below the
new total (`AllTaken`); that there are as many vectors as labels is
`AllCounts`. `OutsideEmpty` is what `clean` is for: a shard that was taken out with
vectors would leave a gap in the labels. `StepCases` divides the steps by what they do
to the data: a step inside a call that changes the sub-indexes (`WorkStep`), the end of such a
call, or one that leaves the sub-indexes as they are.

`MergeFromMultipleProofs` proves, for any number of sources and lists, of any sizes
(`MergeAssumption`), and every interleaving of the threads:

| theorem | states |
|---|---|
| `MergedStoreIsSources` | `Spec => []StoreIsSources` |
| `MergedIdsApart` | `Spec => []GrowingShardsApart` |

The inductive invariant `MergeInv` says what has been counted (`CountOK`: the sizes
are sums over the sources counted so far, each shift is the `Offset` that the code
adds up), and that the file is exactly as the threads have filled it
(`FilledSoFar`), or that there is no file and no list holds anything
(`LeftEmpty`, when `update_totsize` has thrown): entry k of list j of source i has a place in the file, `At(j, i, k)`, which
holds its shifted id once thread j has merged that source. Both
properties speak of lists and of the whole file, and neither is inductive alone: that a thread
spoils nothing rests on where every entry of every other list is going to be. `AtApart` says that no two
entries have the same place, `AtCovers` that every place of the file is the place of
an entry; they rest on the sums `Before`, `Total` and `UpTo`, folds over intervals, of which
`SumsAddUp` of `ProofLemmas` says that they add up one term at a time. What a list holds is then put together
source by source (`HoldsSources`, with `FlattenSeqAdds`). For the ids, the shift of a shard
is that of the one before plus its own size t, so at least the size of the one
before when sizes do not fall (`OffsetsApart`), and the ids of one source are below t and differ.

`HNSWBuildProofs` proves, for every finite non-empty set of nodes with any levels
and distances, any sequence of calls and any threads (`GraphAssumption`,
`BuildAssumption`):

| theorem | states |
|---|---|
| `EntryInvariance` | `Spec => []EInv` |
| `EntryPointIsTop` | `Spec => []EntryPointTop` |
| `GraphInvariance` | `Calm => (Spec => []LInv)` |
| `GraphStaysInOrder` | `Calm => (Spec => []GraphInOrder)` |
| `RangesStayInside` | `Calm => (Spec => []NeighborRangeInside)` |
| `LinkInvariance` | `Calm => (Spec => []MInv)` |
| `NearestIsLinkedBack` | `Calm => (Spec => []NearestLinksBack)` |
| `NothingIsLost` | `Calm => (Spec => []NothingLost)` |

`max_level` and `entry_point` are assigned one after the other, outside any lock,
by several threads, and `EntryPointTop` speaks of the pauses between buckets only.
`Control` says that every thread adds a node of its own, of the present bucket.
`EntryFollows` says what holds between the pauses: while there is no entry point,
each node taken has a thread that is about to make it one; afterwards `max_level`
is the level of some added node, and an added node above it belongs to a thread
that has still to compare. As all threads of a bucket add nodes of the same level,
the second to compare finds nothing to raise (`RaiseMaxLevelKeepsEntry`), and who
raised `max_level` is the only one that the entry point waits for
(`RaiseEntryPointKeepsEntry`). No fact about the lists is needed.

The theorems about the lists have a hypothesis. `Calm` says that no bucket which is
above all nodes of earlier calls, and the highest of its own, has enough nodes to
be parallel. One call is always calm (`OneCallIsCalm`), and so are the calls of
`hnsw_build`; those of `hnsw_race` are not, and there `NeighborRangeInside` fails.
`LInv` adds to `EInv` what threads know of each other. A node is `Visible` at a level
once its thread has begun to link it there, or is done; `Found(l)` are the
visible nodes of level l. Every list is `Tidy` (free slots last, nothing twice) and
leads to `Found` nodes only; the list of a node that is not visible is empty
(`ListOf`). A search therefore finds only such nodes, whichever mixture of old and
new slots it reads (`ViewsLead`), and so do the targets that a thread links back
(`BackOf`), whose lists do not have its node yet. The starting point is
`Settled`: linked at all its levels, and in a calm history one whose level is the
`max_level` that the descent begins at (`PlaceOf`). Who holds a lock is the only one that
writes (`LocksAndLists`), so the others keep what they rely on (`OthersKeep`); one
lemma per action (`LinkOwnKeeps`, `EndLinkBackKeeps`, …) says the same of the
thread that steps.

`MInv` adds the links to this. `NearestLinksBack` and `LinksMutual` hold between
buckets; at other times a link may have no answer yet, but then it is `Pending`: some
thread has the node among its `targets` (`LinkOf`). The other way round, what a
thread still has to link back is already in its own list, or something nearer is
(`TargetsOf`), so that the link back has its answer when it is written. Both forms are
instances of `Answered`: the slots hold, for each node of a set, one that is no
farther, and that node itself where lists cannot overflow. Whatever a step does to a
list, what it held stays answered (`ListsAnswer`). The reason is in
`ShrinkKeepsNearest`: the heuristic never drops the nearest, since nothing before it
can be nearer to it; and `NeverFull`: a list with a slot for every node is never
pruned. `NothingIsLost` also needs that the graph hangs together. `Connected` says it
without paths: at level 0 no set of nodes that can be found, other than all of
them, is without a link in or out. A node joins `Found(0)` only by linking itself to
nodes that are there (`FoundAtZero`), and a search always has one to offer. In the end
all nodes can be found (`BuiltFindsAll`), what is reached from `entry_point` is
closed (`ReachCloses`), so it is everything.

Below are lemmas about the operators. `AddLinksTidy` (with `AppendedTidy`,
`RewrittenTidy`) says what `add_link` does to a tidy list; `ShrinkNeighborListKeeps`
that pruning keeps a subset that fits; `NearestOfProperties` and
`FarthestFirstProperties` what a priority queue holds and in which order it is
emptied; `GreedyStays` and `DescendStays` that the greedy descent ends inside
any set of nodes that is closed under the lists. These two, `NearestIsGood` and
`ReachCloses` are about recursive functions: `RankRecursion` of `ProofLemmas` proves that such a definition
has a solution when it goes down in a rank (here: distances, levels, numbers of steps), and
`RankInduction` is the induction on that rank.

`ProofLemmas` has what all of these share: `LeastNumber` (a non-empty set of
numbers has a least element, by which induction is done where it is needed),
and what `Append`, `Tail`, `\o`, `RemoveAt`, `InsertAt`, `SetToSeq` and
`FlattenSeq` do to types, elements and distinctness.

What is not proved stays with TLC. Liveness, with the fairness parts of the
refinements, is out of the prover's reach, as is ENABLED. What the folds
of `IndexIVF` and `HNSWSearch` compute on every input would need induction over
data. `SearchSeesAll` of `ThreadedIndex` and the properties of `HNSWSearch` and
`IndexIDMap` are model-checked only; so is `ContentsKept` when lists shrink by a
move, where `ondisk_failure` has sizes for which it holds and `ondisk_shrink`
one for which it does not. Section 7
says which could be proved next.

## 5. Where the code and its documentation disagree

Each is a run that TLC ends with a counterexample, and a `findings` entry with
the lines.

- `ondisk_shrink`: a `resize` to less than half frees the block and may get
  the same offset for a smaller capacity. The entries are then not copied, but
  the ids start at `offset + code_size * capacity`, which has moved: the ids read
  are other bytes.
- `merge_slots`: `merge_from_multiple` places the lists and then calls
  `update_totsize`, which pushes a free slot over all of them. An add that
  follows takes or frees bytes that belong to lists.
- `hnsw_race`: `entry_point` is read in a critical section and `max_level`
  later, outside it. When a later call adds a parallel bucket above `max_level`,
  a thread may search from an entry point that lacks the levels it then asks
  for.

Noted while modelling, without a run. Where a property touches one of these places
it leaves room for what the code does there and says what holds besides:

- The comment of struct `LockLevels` (`OnDiskInvertedLists.cpp:37-38`) says that
  no other thread holds `lock1(m)` while one holds `lock3`. Threads blocked in
  `lock_2` do hold theirs; the comment in `lock_3` says so too. `Quiescent` is
  what holds and what the store needs.
- `OnDiskInvertedLists.h:46` says the slots are sorted by size; they are sorted
  by offset.
- `merge_from_1` passes its `verbose` as the third argument of
  `merge_from_multiple`, which is `shift_ids`. With one source the shift is 0.
- Merging only empty lists asks for a file of 0 bytes, which cannot be mapped:
  `update_totsize` throws, or stops at its assert (`PlaceFails`). Like after any
  other failure there, the lists have their places then and hold nothing.
- An exception out of `update_totsize` releases no lock: later calls block for
  ever, which `FrozenAfterThrow` shows to be at least safe for all that take
  `lock_1` first. `get_codes` and `get_ids` take no lock themselves, and a search
  that calls them without one is not held back from the unmapped file.
- `free_slot` is called with a capacity in entries where bytes are meant. All
  but the first `capacity` bytes of a freed block are lost to the allocator. One
  consequence for the model: the branches that join a freed block to its
  neighbors are seldom taken.
- With `shift_ids`, a source is shifted by its own size where the size of the
  one before it is meant: shards of 2 and 1 entries get an id twice. As long as
  no shard is smaller than the one before it, ids differ (`GrowingShardsApart`).
- The unbounded HNSW search gets no search parameters (`HNSW.cpp:966`), so a
  selector is ignored; `Index.h:65` promises that only its ids are considered.
- Navix adds the first nodes of the mask without a look at the visited table
  (`HNSW.cpp:1340`): its starting node may be returned twice, and the k-th
  neighbor not.
- `navix_full_two_hop` may gather more nodes than the 4096 of `node_array_t` if
  lists have 64 slots or more; the model's arrays have no limit.
- After an exception out of `runOnIndex` `syncWithSubIndexes` is skipped:
  `ntotal` is stale, and the next add gives ids out again. `remove_shard`
  followed by an add without successive ids does so too. `waitAndHandleFutures`
  ignores a future that says "not run". A replica whose `addIndex` throws stays
  in `indices_`. A search of an empty `IndexShards` with successive ids writes
  `translations[0]`.
- The comment "Because we just called runOnIndex above" in `IndexShards.cpp`
  names a guarantee that nothing above it gives.
- `DirectMapAdd` leaves its `ntotal` uninitialised for a hash table and numbers
  with it when no ids are given (`DirectMap.cpp:136`). A vector without a list
  is entered as list -1, and removing its id reads that list (line 209).
  `set_type` to an array that throws at an id out of range leaves the map half
  filled (line 53; `incomplete` in the model).
- After a removal without a map ids are not those below `ntotal`, and an add
  without ids gives some out again. `update_vectors` with a hash table removes
  what it finds and throws afterwards if an id was missing; with an array it has
  replaced those before the first id out of range. `VectorStore` has both
  outcomes (`ReplaceMissing`) and no other.
- `IndexIDMap2` has no `reset` and no `add_sa_codes` of its own, so `rev_map`
  keeps old ids and misses new ones; after `reset` its own `check_consistency`
  would refuse the map, which `RevMapInverts` does not ask for. Over an IVF, `remove_ids` does not renumber
  the sub-index and `merge_from` passes no `add_id`.

## 6. What is not modelled, and why

- Of the store: `read_only`, `crop_invlists`, `set_all_lists_sizes`, the IO
  hook. They are planned.
- Of HNSW construction: the interrupt flag, `init_level0 = false`, `reset`,
  `permute_entries`, links read from a k-NN graph, `random_level` (levels are a
  constant).
- The interleaving of single slot reads within the greedy descent; at the levels
  above a node's own it reads lists that a bucket of a lower level never writes,
  except in a bucket of the top level of a second call.
- Of HNSW search: `search_level_0`, `range_search`; `navix_blind` is called from
  nowhere. One search at a time: searches share only the graph, which they do
  not write.
- Of `IndexIVF`: search, range search, reconstruct, train, `copy_subset_to`,
  `IndexShardsIVF`; they read lists and compute distances. Of the lists: blocks
  and the read-only stacks.
- Of `IndexIDMap`: search, which translates labels, and `IDSelectorTranslated`
  beyond its use in removals.
- Interrupts and timeouts (`InterruptCallback` is the user's code behind a
  global pointer), `RangeSearchPartialResult`.
- NSG and NNDescent: two more graph constructions with per-node locks.
- Serialisation: formats and I/O. Quantizers, clustering, transforms, distance
  kernels and heaps are numerical, without control state; GPU code is a system
  of its own; bindings and the C API wrap. These are most of the repository's
  lines.

## 7. Plan

In this order.

1. **`DirectMapExact`** for one removal and one update (the folds stay with TLC).
2. **The rest**: saving and reloading the store, `crop_invlists`,
   `set_all_lists_sizes`; the interrupt path of HNSW construction,
   `search_level_0`; `RangeSearchPartialResult`, `TimeoutCallback`.

------------------------- MODULE OnDiskInvertedLists -------------------------
(***************************************************************************)
(* OnDiskInvertedLists: inverted lists in one file, mapped in memory and    *)
(* grown by remapping, used by threads under the three locks of LockLevels  *)
(* (faiss/invlists/OnDiskInvertedLists.cpp).                                *)
(*                                                                          *)
(* A list is a block of capacity entries: the codes, then the ids.  Offsets *)
(* and sizes are in bytes.  The file is the set of the objects (codes, ids) *)
(* stored in it; writing a byte range destroys the objects it touches.      *)
(* A mapping is a number: every mmap returns a new one, and a pointer is    *)
(* the mapping it points into.                                              *)
(*                                                                          *)
(* The asserts are off, as in a release build; they are stated as           *)
(* properties.                                                              *)
(***************************************************************************)
EXTENDS Integers, FiniteSets, SlotAllocator

CONSTANTS
  Threads, Lists, NoThread,  \* as in LockLevels; a list is a number
  CodeSize,      \* bytes of a code
  AddSizes,      \* the n_entry arguments of add_entries
  ResizeSizes,   \* the new_size arguments of resize
  Reads,         \* whether prefetch threads read the lists
  MayFail,       \* whether fopen, munmap, truncate or mmap may fail
  MaxCalls       \* bound on the number of calls

ASSUME OnDiskAssumption ==
  /\ IsFiniteSet(Threads) /\ NoThread \notin Threads
  /\ IsFiniteSet(Lists) /\ Lists # {} /\ Lists \subseteq Nat
  /\ CodeSize \in Nat \ {0}
  /\ AddSizes \subseteq Nat \ {0}
  /\ ResizeSizes \subseteq Nat
  /\ {Reads, MayFail} \subseteq BOOLEAN
  /\ MaxCalls \in Nat

VARIABLES
  mutex1, level1_holders, n_level2, level2_in_use, level3_in_use, pc, no,
  lists,     \* [size, capacity, offset] of each list
  slots,     \* the free slots
  totsize,   \* bytes of the file
  ptr,       \* the last mapping made, 0 for nullptr
  mapped,    \* that mapping is still there
  file,      \* the objects stored in the file
  step,      \* where each thread is in its call
  call,      \* the call each thread is in
  content,   \* ghost: what each entry of each list should be
  added,     \* ghost: entries ever added to each list
  calls      \* calls made so far

LL == INSTANCE LockLevels

lockVars == <<mutex1, level1_holders, n_level2, level2_in_use, level3_in_use,
              pc, no>>
space == <<slots, totsize, ptr, mapped>>
ghosts == <<content, added>>
vars == <<lockVars, lists, space, file, step, call, ghosts, calls>>

IdSize == 8                      \* sizeof(idx_t)
EntrySize == IdSize + CodeSize
InvalidOffset == -1
EmptyList == [size |-> 0, capacity |-> 0, offset |-> InvalidOffset]

Power2[k \in Nat] == IF k = 0 THEN 1 ELSE 2 * Power2[k - 1]

\* How often a loop doubles a number that starts at start > 0 until it is at
\* least n.
Doublings(start, n) ==
  CHOOSE k \in 0..n :
    start * Power2[k] >= n /\ \A j \in 0..(k - 1) : start * Power2[j] < n

\* The least power of two that is at least n.
PowerOfTwo(n) == Power2[Doublings(1, n)]

\* The new size of a file of total bytes that must gain capacity bytes.
GrownSize(total, capacity) ==
  LET start == IF total = 0 THEN 32 ELSE 2 * total IN
  start * Power2[Doublings(start, total + capacity)]

-----------------------------------------------------------------------------
(* The file                                                                *)

\* The block of n entries a list has at an offset, as a byte range.
Block(list) == Slot(list.offset, list.capacity * EntrySize)

\* get_codes and get_ids, from the mapping on.
CodeAt(list, j) == list.offset + j * CodeSize
IdAt(list, j) == list.offset + list.capacity * CodeSize + j * IdSize

\* Entry s ever added to list l, as the objects at position j of the list.
CodeObject(list, l, j, s) ==
  [offset |-> CodeAt(list, j), capacity |-> CodeSize, value |-> <<"code", l, s>>]
IdObject(list, l, j, s) ==
  [offset |-> IdAt(list, j), capacity |-> IdSize, value |-> <<"id", l, s>>]

\* A write of the byte range r that stores the objects new.
Write(f, r, new) == {x \in f : ~Overlap(x, r)} \cup new

\* memcpy.  When the ranges overlap, which the language leaves undefined, the
\* bytes arrive or the destination is lost.
Memcpy(f, to, from, n) ==
  LET src == Slot(from, n)
      dst == Slot(to, n)
      image == {[x EXCEPT !.offset = @ - from + to] :
                  x \in {y \in f : y.offset >= from /\ End(y) <= from + n}} IN
  IF n = 0 THEN {f}
  ELSE IF Overlap(src, dst) THEN {Write(f, dst, image), Write(f, dst, {})}
  ELSE {Write(f, dst, image)}

-----------------------------------------------------------------------------
Init ==
  /\ LL!Init
  /\ lists = [l \in Lists |-> EmptyList]
  /\ slots = <<>> /\ totsize = 0 /\ ptr = 0 /\ mapped = FALSE
  /\ file = {}
  /\ step = [t \in Threads |-> "ready"]
  /\ call = [t \in Threads |-> [op |-> "read", n |-> 0, base |-> 0,
                                new |-> EmptyList]]
  /\ content = [l \in Lists |-> <<>>]
  /\ added = [l \in Lists |-> 0]
  /\ calls = 0

Goto(t, s) == step' = [step EXCEPT ![t] = s]

Calls ==
  {<<"add", n>> : n \in AddSizes} \cup {<<"resize", n>> : n \in ResizeSizes}
    \cup (IF Reads THEN {<<"read", 0>>} ELSE {})

\* add_entries, resize and the prefetch threads all start with lock_1.
Begin(t, l, c) ==
  /\ step[t] = "ready"
  /\ calls < MaxCalls
  /\ LL!Lock1(t, l)
  /\ Goto(t, "start")
  /\ call' = [call EXCEPT ![t].op = c[1], ![t].n = c[2]]
  /\ calls' = calls + 1
  /\ UNCHANGED <<lists, space, file, ghosts>>

\* A thread that a lock made wait.
Waiting(t) ==
  /\ LL!Retry1(t) \/ LL!Retry2(t) \/ LL!Retry3(t)
  /\ UNCHANGED <<lists, space, file, step, call, ghosts, calls>>

Spurious(t) ==
  /\ LL!SpuriousWakeup(t)
  /\ UNCHANGED <<lists, space, file, step, call, ghosts, calls>>

-----------------------------------------------------------------------------
(* resize_locked                                                           *)

\* Faulty variant: the size before the call is forgotten.
NewSizeAlone(t) == call[t].n

NewSize(t) ==
  IF call[t].op = "add" THEN lists[no[t]].size + call[t].n ELSE call[t].n

\* What follows resize_locked: update_entries, in add_entries.
AfterResize(t) == IF call[t].op = "add" THEN "get_ids" ELSE "done"

\* The entries a list keeps when its size becomes n; entry 0 is not written.
Resized(c, n) == [j \in 1..n |-> IF j <= Len(c) THEN c[j] ELSE 0]

FitsInPlace(list, n) == n <= list.capacity /\ n > list.capacity \div 2

ResizeInPlace(t) ==
  LET l == no[t]
      n == NewSize(t) IN
  /\ step[t] = "start" /\ pc[t] = "held1" /\ call[t].op # "read"
  /\ FitsInPlace(lists[l], n)
  /\ lists' = [lists EXCEPT ![l].size = n]
  /\ content' = [content EXCEPT ![l] = Resized(@, n)]
  /\ Goto(t, AfterResize(t))
  /\ UNCHANGED <<lockVars, space, file, call, added, calls>>

LockSlots(t) ==
  /\ step[t] = "start" /\ pc[t] = "held1" /\ call[t].op # "read"
  /\ ~FitsInPlace(lists[no[t]], NewSize(t))
  /\ LL!Lock2(t)
  /\ Goto(t, "free")
  /\ UNCHANGED <<lists, space, file, call, ghosts, calls>>

\* The bytes free_slot is given: the capacity of the list, which counts
\* entries.
FreedBytes(list) == list.capacity

FreeSlot(t) ==
  LET list == lists[no[t]]
      n == NewSize(t) IN
  /\ step[t] = "free" /\ pc[t] = "held2"
  /\ slots' = Free(slots, list.offset, FreedBytes(list))
  /\ call' = [call EXCEPT ![t].new =
                IF n = 0 THEN EmptyList
                ELSE [size |-> n, capacity |-> PowerOfTwo(n),
                      offset |-> InvalidOffset]]
  /\ Goto(t, IF n = 0 THEN "copy" ELSE "allocate")
  /\ UNCHANGED <<lockVars, lists, totsize, ptr, mapped, file, ghosts, calls>>

Needed(t) == call[t].new.capacity * EntrySize

\* allocate_slot takes the first slot that is large enough...
AllocateSlot(t) ==
  /\ step[t] \in {"allocate", "reallocate"} /\ pc[t] = "held2"
  /\ Candidates(slots, Needed(t)) # {}
  /\ LET i == FirstFit(slots, Needed(t)) IN
     /\ call' = [call EXCEPT ![t].new.offset = slots[i].offset]
     /\ slots' = Take(slots, i, Needed(t))
  /\ Goto(t, "copy")
  /\ UNCHANGED <<lockVars, lists, totsize, ptr, mapped, file, ghosts, calls>>

\* ... and if none is, lets the file grow.
LockRemap(t) ==
  /\ step[t] = "allocate"
  /\ Candidates(slots, Needed(t)) = {}
  /\ LL!Lock3(t)
  /\ Goto(t, "unmap")
  /\ UNCHANGED <<lists, space, file, call, ghosts, calls>>

Unmap(t) ==
  /\ step[t] = "unmap" /\ pc[t] = "held3"
  /\ mapped' = FALSE
  /\ Goto(t, "remap")
  /\ UNCHANGED <<lockVars, lists, slots, totsize, ptr, file, call, ghosts,
                 calls>>

\* The rest of update_totsize and do_mmap.  A new file starts empty.
GrowTo(total) ==
  /\ slots' = Extend(slots, totsize, total)
  /\ totsize' = total

Remap(t) ==
  /\ step[t] = "remap"
  /\ GrowTo(GrownSize(totsize, Needed(t)))
  /\ ptr' = ptr + 1
  /\ mapped' = TRUE
  /\ Goto(t, "remapped")
  /\ UNCHANGED <<lockVars, lists, file, call, ghosts, calls>>

\* Faulty variant: lock_3 is given up on the way out.
RemapThrowsUnlocked(t) ==
  /\ MayFail
  /\ step[t] \in {"unmap", "remap"}
  /\ LL!Unlock3(t)
  /\ Goto(t, "thrown")
  /\ UNCHANGED <<lists, space, file, call, ghosts, calls>>

\* An error throws out of update_totsize, before or after the new size is
\* noted, through callers that release no lock.
RemapThrows(t) ==
  /\ MayFail
  /\ pc[t] = "held3"
  /\ \/ step[t] \in {"unmap", "remap"} /\ UNCHANGED <<slots, totsize>>
     \/ step[t] = "remap" /\ GrowTo(GrownSize(totsize, Needed(t)))
  /\ Goto(t, "thrown")
  /\ UNCHANGED <<lockVars, lists, ptr, mapped, file, call, ghosts, calls>>

UnlockRemap(t) ==
  /\ step[t] = "remapped"
  /\ LL!Unlock3(t)
  /\ Goto(t, "reallocate")
  /\ UNCHANGED <<lists, space, file, call, ghosts, calls>>

\* Faulty variant: only the codes move.
CopyCodes(t) ==
  LET old == lists[no[t]]
      new == call[t].new
      n == Min({old.size, new.size}) IN
  /\ step[t] = "copy"
  /\ IF old.offset # new.offset /\ n > 0
     THEN file' \in Memcpy(file, new.offset, old.offset, n * CodeSize)
     ELSE UNCHANGED file
  /\ Goto(t, "publish")
  /\ UNCHANGED <<lockVars, lists, space, call, ghosts, calls>>

\* The common entries move to the new block, codes then ids, unless the new
\* block has the offset of the old one.
CopyCommon(t) ==
  LET old == lists[no[t]]
      new == call[t].new
      n == Min({old.size, new.size}) IN
  /\ step[t] = "copy"
  /\ IF old.offset # new.offset /\ n > 0
     THEN \E f \in Memcpy(file, new.offset, old.offset, n * CodeSize) :
            file' \in Memcpy(f, IdAt(new, 0), IdAt(old, 0), n * IdSize)
     ELSE UNCHANGED file
  /\ Goto(t, "publish")
  /\ UNCHANGED <<lockVars, lists, space, call, ghosts, calls>>

Publish(t) ==
  LET l == no[t]
      new == call[t].new IN
  /\ step[t] = "publish"
  /\ lists' = [lists EXCEPT ![l] = new]
  /\ content' = [content EXCEPT ![l] = Resized(@, new.size)]
  /\ LL!Unlock2(t)
  /\ Goto(t, AfterResize(t))
  /\ UNCHANGED <<space, file, call, added, calls>>

-----------------------------------------------------------------------------
(* update_entries, the readers, and the end of a call                      *)

GetIds(t) ==
  /\ step[t] = "get_ids"
  /\ call' = [call EXCEPT ![t].base = ptr]
  /\ Goto(t, "write_ids")
  /\ UNCHANGED <<lockVars, lists, space, file, ghosts, calls>>

\* The n entries of a call go to the end of the list.
Positions(t) == (lists[no[t]].size - call[t].n)..(lists[no[t]].size - 1)

Serial(t, j) ==
  added[no[t]] + 1 + j - (lists[no[t]].size - call[t].n)

\* memcpy of the ids, then get_codes.
WriteIds(t) ==
  LET l == no[t]
      list == lists[l]
      first == list.size - call[t].n IN
  /\ step[t] = "write_ids"
  /\ file' = Write(file, Slot(IdAt(list, first), call[t].n * IdSize),
                   {IdObject(list, l, j, Serial(t, j)) : j \in Positions(t)})
  /\ call' = [call EXCEPT ![t].base = ptr]
  /\ Goto(t, "write_codes")
  /\ UNCHANGED <<lockVars, lists, space, ghosts, calls>>

WriteCodes(t) ==
  LET l == no[t]
      list == lists[l]
      first == list.size - call[t].n IN
  /\ step[t] = "write_codes"
  /\ file' = Write(file, Slot(CodeAt(list, first), call[t].n * CodeSize),
                   {CodeObject(list, l, j, Serial(t, j)) : j \in Positions(t)})
  /\ content' = [content EXCEPT ![l] =
                   [j \in DOMAIN @ |-> IF j > first THEN Serial(t, j - 1)
                                                    ELSE @[j]]]
  /\ added' = [added EXCEPT ![l] = @ + call[t].n]
  /\ Goto(t, "done")
  /\ UNCHANGED <<lockVars, lists, space, call, calls>>

\* A prefetch thread: the size and the pointers, then the reads.
GetList(t) ==
  /\ step[t] = "start" /\ pc[t] = "held1" /\ call[t].op = "read"
  /\ call' = [call EXCEPT ![t].base = ptr]
  /\ Goto(t, IF lists[no[t]].size > 0 THEN "read" ELSE "done")
  /\ UNCHANGED <<lockVars, lists, space, file, ghosts, calls>>

ReadList(t) ==
  /\ step[t] = "read"
  /\ Goto(t, "done")
  /\ UNCHANGED <<lockVars, lists, space, file, call, ghosts, calls>>

\* Faulty variant: the call returns with its lock.
ReturnLocked(t) ==
  /\ step[t] = "done"
  /\ Goto(t, "ready")
  /\ UNCHANGED <<lockVars, lists, space, file, call, ghosts, calls>>

Return(t) ==
  /\ step[t] = "done"
  /\ LL!Unlock1(t)
  /\ Goto(t, "ready")
  /\ UNCHANGED <<lists, space, file, call, ghosts, calls>>

-----------------------------------------------------------------------------
Step(t) ==
  \/ Waiting(t)
  \/ ResizeInPlace(t) \/ LockSlots(t) \/ FreeSlot(t) \/ AllocateSlot(t)
  \/ LockRemap(t) \/ Unmap(t) \/ Remap(t) \/ RemapThrows(t) \/ UnlockRemap(t)
  \/ CopyCommon(t) \/ Publish(t)
  \/ GetIds(t) \/ WriteIds(t) \/ WriteCodes(t)
  \/ GetList(t) \/ ReadList(t)
  \/ Return(t)

\* Every call allowed by the bound has returned.
Finished ==
  /\ calls = MaxCalls
  /\ \A t \in Threads : step[t] = "ready"
  /\ UNCHANGED vars

Next ==
  \/ \E t \in Threads :
       \/ \E l \in Lists, c \in Calls : Begin(t, l, c)
       \/ Step(t)
       \/ Spurious(t)
  \/ Finished

Spec == Init /\ [][Next]_vars

\* Every thread is scheduled.
FairSpec == Spec /\ \A t \in Threads : WF_vars(Step(t))

-----------------------------------------------------------------------------
(* Properties                                                              *)

Steps == {"ready", "start", "free", "allocate", "unmap", "remap", "remapped",
          "reallocate", "thrown", "copy", "publish", "get_ids", "write_ids",
          "write_codes", "read", "done"}

Object == [offset : Nat, capacity : {CodeSize, IdSize},
           value : {"code", "id"} \X Lists \X Nat]

ListType == [size : Nat, capacity : Nat, offset : Nat \cup {InvalidOffset}]

TypeOK ==
  /\ LL!TypeOK
  /\ lists \in [Lists -> ListType]
  /\ slots \in Seq([offset : Nat, capacity : Nat])
  /\ totsize \in Nat /\ ptr \in Nat /\ mapped \in BOOLEAN
  /\ file \subseteq Object
  /\ step \in [Threads -> Steps]
  /\ call \in [Threads -> [op : {"add", "resize", "read"}, n : Nat, base : Nat,
                           new : ListType]]
  /\ content \in [Lists -> Seq(Nat)]
  /\ added \in [Lists -> Nat]
  /\ calls \in 0..MaxCalls

\* Steps at which a thread has handed its list's old block back, and steps at
\* which it has a new one.
Moving == {"allocate", "unmap", "remap", "remapped", "reallocate", "thrown",
           "copy", "publish"}
Placed == {"copy", "publish"}

Moved(l) == \E t \in Threads : no[t] = l /\ step[t] \in Moving

\* Every byte range with its owner: a list, a free slot, or a thread that
\* moves its list there.
Ranges ==
  {<<"list", l, Block(lists[l])>> :
     l \in {k \in Lists : ~Moved(k) /\ lists[k].capacity > 0}}
  \cup {<<"slot", i, slots[i]>> : i \in DOMAIN slots}
  \cup {<<"new", t, Block(call[t].new)>> :
          t \in {u \in Threads : step[u] \in Placed /\ call[u].new.capacity > 0}}

\* No byte of the file has two owners, and every owned byte is in the file:
\* free_slot, allocate_slot and update_totsize never hand out a block twice.
NoDoubleOwner ==
  /\ \A a, b \in Ranges : a # b => ~Overlap(a[3], b[3])
  /\ \A a \in Ranges : a[3].offset >= 0 /\ End(a[3]) <= totsize

\* Free slots are in the order of their offsets and no two of them touch, so
\* the first-fit search of allocate_slot sees each free run of bytes whole.
SlotsCoalesced ==
  /\ \A i \in DOMAIN slots : slots[i].capacity > 0
  /\ \A i \in 1..(Len(slots) - 1) : End(slots[i]) < slots[i + 1].offset

\* A pointer from get_ids or get_codes is used while the mapping it points
\* into is there: no remap by another thread happens in between.
NoStalePointer ==
  \A t \in Threads :
    /\ step[t] \in {"write_ids", "write_codes", "read"} =>
         mapped /\ call[t].base = ptr
    /\ step[t] = "copy" /\ lists[no[t]].size > 0 => mapped

\* Every entry written to a list can be read from it, id and code, whatever
\* other lists did to their blocks and however often this list moved.  (While
\* a thread is about to publish a move, the entries are at the new place.)
ContentsKept ==
  \A l \in Lists :
    ~(\E t \in Threads : no[t] = l /\ step[t] = "publish") =>
      \A j \in 0..(lists[l].size - 1) :
        content[l][j + 1] # 0 =>
          /\ CodeObject(lists[l], l, j, content[l][j + 1]) \in file
          /\ IdObject(lists[l], l, j, content[l][j + 1]) \in file

\* Nothing is lost between concurrent calls of add_entries: when all have
\* returned, each list holds what was added to it, in order, once.  (For runs
\* without resize.)
AddsComplete ==
  (\A t \in Threads : step[t] = "ready") =>
    \A l \in Lists :
      /\ lists[l].size = added[l]
      /\ content[l] = [j \in 1..added[l] |-> j]

\* The assert of allocate_slot after the file has grown.
GrowthSuffices ==
  \A t \in Threads :
    step[t] = "reallocate" => Candidates(slots, Needed(t)) # {}

\* The asserts of free_slot.
FreeSlotAsserts ==
  \A t \in Threads :
    step[t] = "free" =>
      FreeAsserts(slots, lists[no[t]].offset, FreedBytes(lists[no[t]]))

\* What a long sequence of moves must leave in order: the shape of the state,
\* the free slots, and the asserts of allocate_slot and free_slot.
BooksInOrder == TypeOK /\ SlotsCoalesced /\ GrowthSuffices /\ FreeSlotAsserts

\* After an exception out of update_totsize the store stands still: the locks
\* stay taken, and no thread that takes them changes anything, or reaches the
\* unmapped file.  (get_codes and get_ids take none; a reader that calls them
\* without lock_1 is not held back.)
Thrown == \E t \in Threads : step[t] = "thrown"
FrozenAfterThrow ==
  [][Thrown => UNCHANGED <<lists, slots, totsize, file, mapped>>]_vars

\* Every call returns.
EveryCallReturns ==
  \A t \in Threads : step[t] = "start" ~> step[t] = "ready"

\* The calls use the locks as LockLevels describes, and keep its fairness.
LocksImplemented == LL!FairSpec
=============================================================================

-------------------------- MODULE MergeFromMultiple --------------------------
(***************************************************************************)
(* OnDiskInvertedLists::merge_from_multiple, which fills an empty store     *)
(* with the lists of several others (faiss/invlists/                        *)
(* OnDiskInvertedLists.cpp): it counts, lays the lists out one behind the   *)
(* other, and then copies them, several lists at a time.  With shift_ids    *)
(* the sources are taken for shards numbered from 0 each, whose ids are     *)
(* moved apart.  Offsets count entries here.                                *)
(*   Left out are the calls that throw before anything of the store changes: *)
(* on a store that is not empty, and with sources of another number of lists *)
(* or another code size.                                                     *)
(***************************************************************************)
EXTENDS Integers, FiniteSetsExt, SequencesExt

CONSTANTS
  NList,        \* lists of each store
  NIl,          \* sources
  MaxEntries,   \* bound on the entries of a list of a source
  ShiftIds,
  MayFail       \* may opening, truncating or mapping the file fail?

ASSUME MergeAssumption ==
  /\ {NList, NIl, MaxEntries} \subseteq Nat \ {0}
  /\ {ShiftIds, MayFail} \subseteq BOOLEAN

ListNos == 1..NList
Sources == 1..NIl

VARIABLES
  ils,               \* the number of entries of each list of each source
  counted,           \* sources counted
  sizes,             \* entries of each list over the counted sources
  shift_id_offsets,
  lists,             \* [size, capacity, offset] of each list
  slots,             \* the free slots
  merged,            \* sources merged into each list
  file               \* the id stored at each entry of the file

vars == <<ils, counted, sizes, shift_id_offsets, lists, slots, merged, file>>

Total(f) == FoldFunction(LAMBDA m, n : m + n, 0, f)
Before(f, j) == MapThenSumSet(LAMBDA k : f[k], 1..(j - 1))

\* The ids of list j of source i: a source numbers its entries from 0.
Ids(i, j) == [k \in 1..ils[i][j] |-> Before(ils[i], j) + k - 1]

Init ==
  /\ ils \in [Sources -> [ListNos -> 0..MaxEntries]]
  /\ counted = 0
  /\ sizes = [j \in ListNos |-> 0]
  /\ shift_id_offsets = <<>>
  /\ lists = <<>> /\ slots = <<>>
  /\ merged = [j \in ListNos |-> 0]
  /\ file = <<>>

\* Faulty variant: each source is moved by its own size alone.
OffsetOfOne(i) == Total(ils[i])

\* The offset of source i adds the entries of source i itself to that of the
\* source before.
Offset(i) ==
  IF ShiftIds /\ i > 1 THEN shift_id_offsets[i - 1] + Total(ils[i]) ELSE 0

Count ==
  LET i == counted + 1 IN
  /\ counted < NIl
  /\ counted' = i
  /\ sizes' = [j \in ListNos |-> sizes[j] + ils[i][j]]
  /\ shift_id_offsets' = Append(shift_id_offsets, Offset(i))
  /\ UNCHANGED <<ils, lists, slots, merged, file>>

\* Faulty variant: the offsets add up one source only.
PlacedAtLast(j) ==
  [size |-> 0, capacity |-> sizes[j], offset |-> Before(ils[NIl], j)]

Placed(j) == [size |-> 0, capacity |-> sizes[j], offset |-> Before(sizes, j)]

LayOut ==
  /\ counted = NIl /\ lists = <<>>
  /\ lists' = [j \in ListNos |-> Placed(j)]

\* update_totsize makes a free slot of the bytes the file gains, which here are
\* all of it.
WholeFile == <<[offset |-> 0, capacity |-> Total(sizes)]>>

\* The layout, and the file of that size.
Place ==
  /\ LayOut
  /\ Total(sizes) > 0
  /\ file' = [e \in 1..Total(sizes) |-> -1]
  /\ slots' = WholeFile
  /\ UNCHANGED <<ils, counted, sizes, shift_id_offsets, merged>>

\* update_totsize throws when the lists have their places already: before it
\* has entered the slot (fopen), or after (truncate, mmap).  With empty sources
\* it always does, since a file of 0 bytes cannot be mapped, unless the assert
\* before stops the program.
PlaceFails ==
  /\ LayOut
  /\ \/ Total(sizes) = 0 /\ UNCHANGED slots
     \/ Total(sizes) > 0 /\ MayFail /\ slots' \in {slots, WholeFile}
  /\ UNCHANGED <<ils, counted, sizes, shift_id_offsets, merged, file>>

\* Where update_entries writes n entries; the size has been raised before.
First(j, n) == lists[j].offset + lists[j].size

\* A thread appends the next source to its list.
MergeSource(j) ==
  LET i == merged[j] + 1
      ids == Ids(i, j)
      n == Len(ids)
      first == First(j, n) IN
  /\ file # <<>> /\ merged[j] < NIl
  /\ lists' = [lists EXCEPT ![j].size = @ + n]
  /\ file' = [e \in DOMAIN file |->
                IF e > first /\ e <= first + n
                THEN ids[e - first] + shift_id_offsets[i] ELSE file[e]]
  /\ merged' = [merged EXCEPT ![j] = i]
  /\ UNCHANGED <<ils, counted, sizes, shift_id_offsets, slots>>

Done == lists # <<>> /\ \A j \in ListNos : merged[j] = NIl

\* The exception has left merge_from_multiple.
Failed == lists # <<>> /\ file = <<>>

Next ==
  \/ Count \/ Place \/ PlaceFails
  \/ \E j \in ListNos : MergeSource(j)
  \/ (Done \/ Failed) /\ UNCHANGED vars

Spec == Init /\ [][Next]_vars

-----------------------------------------------------------------------------
(* Properties                                                              *)

\* What list j should hold: its sources one after the other, shifted.
Wanted(j, upTo) ==
  FlattenSeq([i \in 1..upTo |->
                [k \in 1..ils[i][j] |-> Ids(i, j)[k] + shift_id_offsets[i]]])

\* However the threads interleave, each list holds what was merged into it,
\* in order, and no thread wrote into the block of another: update_entries
\* takes no lock.  Lists laid out in a file that then fails hold nothing.
ListsHoldSources ==
  \A j \in DOMAIN lists :
    SubSeq(file, lists[j].offset + 1, lists[j].offset + lists[j].size)
      = Wanted(j, merged[j])

\* In the end the store is compact (OnDiskInvertedLists.h): every list is full,
\* and together they are the file.
Compact ==
  Done => /\ \A j \in ListNos : lists[j].size = lists[j].capacity
          /\ \A e \in DOMAIN file : file[e] # -1

\* The store is made of its sources and of nothing else.
StoreIsSources == ListsHoldSources /\ Compact

\* No free slot covers an entry of a list: the lists were placed "without
\* allocating slots", and a store in compact form has none available
\* (OnDiskInvertedLists.h), so that an add that follows cannot be given the
\* bytes of another list.
SlotsFree ==
  \A j \in DOMAIN lists, i \in DOMAIN slots :
    \/ lists[j].offset + lists[j].capacity <= slots[i].offset
    \/ slots[i].offset + slots[i].capacity <= lists[j].offset

\* With shift_ids, shards that do not get smaller get ids that differ, although
\* the offset of each adds its own size and not that of the one before.
GrowingShardsApart ==
  ShiftIds /\ Done /\ (\A i \in 1..(NIl - 1) : Total(ils[i]) <= Total(ils[i + 1]))
    => IsInjective(file)
=============================================================================

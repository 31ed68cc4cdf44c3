--------------------------- MODULE SlotAllocator ----------------------------
(***************************************************************************)
(* The free-space list of faiss/invlists/OnDiskInvertedLists.cpp: a        *)
(* std::list of slots [offset, capacity] in bytes, kept in the order of    *)
(* their offsets, as operators from a list of slots to the next one.       *)
(***************************************************************************)
EXTENDS Integers, SequencesExt

Slot(offset, capacity) == [offset |-> offset, capacity |-> capacity]

End(s) == s.offset + s.capacity

\* Two byte ranges share a byte.
Overlap(r, s) == r.offset < End(s) /\ s.offset < End(r)

-----------------------------------------------------------------------------
(* allocate_slot                                                           *)

\* The slots a request for capacity bytes fits in.
Candidates(slots, capacity) ==
  {i \in DOMAIN slots : slots[i].capacity >= capacity}

\* The loop of allocate_slot stops at the first of them.
FirstFit(slots, capacity) ==
  CHOOSE i \in Candidates(slots, capacity) :
    \A j \in Candidates(slots, capacity) : i <= j

\* Faulty variant: the slot shrinks but does not move.
TakeInPlace(slots, i, capacity) ==
  IF slots[i].capacity = capacity
  THEN RemoveAt(slots, i)
  ELSE [slots EXCEPT ![i].capacity = @ - capacity]

\* The request takes the beginning of slot i, or all of it.
Take(slots, i, capacity) ==
  IF slots[i].capacity = capacity
  THEN RemoveAt(slots, i)
  ELSE [slots EXCEPT ![i] = Slot(slots[i].offset + capacity,
                                 slots[i].capacity - capacity)]

-----------------------------------------------------------------------------
(* update_totsize                                                          *)

\* Faulty variant: the new bytes are always a slot of their own.
ExtendApart(slots, total, newTotal) ==
  Append(slots, Slot(total, newTotal - total))

\* The bytes from total to newTotal extend the last slot, or make a new one.
Extend(slots, total, newTotal) ==
  IF slots # <<>> /\ End(Last(slots)) = total
  THEN Front(slots) \o
         <<Slot(Last(slots).offset, Last(slots).capacity + newTotal - total)>>
  ELSE Append(slots, Slot(total, newTotal - total))

-----------------------------------------------------------------------------
(* free_slot                                                               *)

\* The position of the first slot that starts after offset: the loop stops at
\* the first one, so it is only that in a list sorted by offset.
After(slots, offset) ==
  LET later == {i \in DOMAIN slots : slots[i].offset > offset} IN
  IF later = {} THEN Len(slots) + 1
                ELSE CHOOSE i \in later : \A j \in later : i <= j

\* The slot before position i ends where the freed range begins.
TouchesPrevious(slots, i, offset) == i > 1 /\ End(slots[i - 1]) = offset

\* The slot at position i begins where the freed range ends.
TouchesNext(slots, i, end) ==
  i <= Len(slots) /\ slots[i].offset = end

\* The freed range joins the slots it touches on either side.
Free(slots, offset, capacity) ==
  LET i == After(slots, offset)
      prev == TouchesPrevious(slots, i, offset)
      next == TouchesNext(slots, i, offset + capacity) IN
  CASE capacity = 0 -> slots
    [] capacity # 0 /\ prev /\ next ->
         RemoveAt([slots EXCEPT ![i - 1].capacity =
                                   @ + capacity + slots[i].capacity], i)
    [] capacity # 0 /\ prev /\ ~next ->
         [slots EXCEPT ![i - 1].capacity = @ + capacity]
    [] capacity # 0 /\ ~prev /\ next ->
         [slots EXCEPT ![i] = Slot(offset, slots[i].capacity + capacity)]
    [] capacity # 0 /\ ~prev /\ ~next ->
         InsertAt(slots, i, Slot(offset, capacity))

\* The two asserts of free_slot: the freed range begins after the slot before
\* it and ends before the slot after it.
FreeAsserts(slots, offset, capacity) ==
  LET i == After(slots, offset) IN
  capacity # 0 =>
    /\ i > 1 => offset >= End(slots[i - 1])
    /\ i <= Len(slots) => offset + capacity <= slots[i].offset
=============================================================================

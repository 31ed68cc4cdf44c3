------------------------- MODULE SlotAllocatorProofs -------------------------
(***************************************************************************)
(* What allocate_slot, update_totsize and free_slot keep of a list of free  *)
(* slots: the order, the gaps between the slots, and the bytes they cover.  *)
(***************************************************************************)
EXTENDS SlotAllocator, ProofLemmas

\* A byte range that is not empty.
Bytes == [offset : Nat, capacity : Nat \ {0}]

\* The slots are in the order of their offsets, and no two touch.
Ordered(slots) ==
  \A i, j \in 1..Len(slots) : i < j => End(slots[i]) < slots[j].offset

\* No byte of r is in a slot.
Clear(slots, r) == \A i \in 1..Len(slots) : ~Overlap(slots[i], r)

\* All slots are in a file of total bytes.
Inside(slots, total) == \A i \in 1..Len(slots) : End(slots[i]) <= total

-----------------------------------------------------------------------------
(* Lists of slots                                                          *)

\* The numbers of a list of slots.
LEMMA SlotNumbers ==
  ASSUME NEW slots \in Seq(Bytes)
  PROVE  /\ Len(slots) \in Nat /\ DOMAIN slots = 1..Len(slots)
         /\ \A i \in 1..Len(slots) :
              /\ slots[i] \in Bytes
              /\ slots[i].offset \in Nat
              /\ slots[i].capacity \in Nat /\ slots[i].capacity > 0
              /\ End(slots[i]) \in Nat /\ slots[i].offset < End(slots[i])
<1>1. /\ Len(slots) \in Nat /\ DOMAIN slots = 1..Len(slots)
      /\ \A i \in 1..Len(slots) : slots[i] \in Bytes
  BY LenProperties, ElementOfSeq
<1>2. \A r \in Bytes : /\ r.offset \in Nat /\ r.capacity \in Nat
                       /\ r.capacity > 0 /\ End(r) \in Nat /\ r.offset < End(r)
  BY DEF Bytes, End
<1> QED
  BY <1>1, <1>2

\* Two slots of an ordered list share no byte.
LEMMA SlotsApart ==
  ASSUME NEW slots \in Seq(Bytes), Ordered(slots),
         NEW i \in 1..Len(slots), NEW j \in 1..Len(slots), i # j
  PROVE  ~Overlap(slots[i], slots[j])
<1>1. /\ End(slots[i]) \in Nat /\ slots[i].offset \in Nat
      /\ End(slots[j]) \in Nat /\ slots[j].offset \in Nat
      /\ i \in Nat /\ j \in Nat
  BY SlotNumbers
<1>2. i < j => End(slots[i]) < slots[j].offset
  BY DEF Ordered
<1>3. j < i => End(slots[j]) < slots[i].offset
  BY DEF Ordered
<1> QED
  BY <1>1, <1>2, <1>3 DEF Overlap

\* The slots of new are those of slots, in the same order, but for one at
\* position k that fits between its neighbors: p says where the others were.
Rearranged(slots, new, k, p) ==
  /\ \A j \in 1..Len(new) \ {k} :
       p[j] \in 1..Len(slots) /\ new[j] = slots[p[j]]
  /\ \A i, j \in 1..Len(new) \ {k} : i < j => p[i] < p[j]
  /\ k \in 1..Len(new) =>
       \A j \in 1..Len(new) : /\ j < k => End(new[j]) < new[k].offset
                              /\ k < j => End(new[k]) < new[j].offset

\* What such a list keeps of an ordered one.
LEMMA RearrangedKeeps ==
  ASSUME NEW slots, Ordered(slots), NEW new, NEW k, NEW p,
         Rearranged(slots, new, k, p)
  PROVE  /\ Ordered(new)
         /\ \A r : Clear(slots, r) /\ (k \in 1..Len(new) => ~Overlap(new[k], r))
                  => Clear(new, r)
         /\ \A total : /\ Inside(slots, total)
                       /\ k \in 1..Len(new) => End(new[k]) <= total
                       => Inside(new, total)
<1>1. Ordered(new)
  <2> SUFFICES ASSUME NEW i \in 1..Len(new), NEW j \in 1..Len(new), i < j
               PROVE  End(new[i]) < new[j].offset
    BY DEF Ordered
  <2>1. CASE i = k \/ j = k
    BY <2>1 DEF Rearranged
  <2>2. CASE i # k /\ j # k
    BY <2>2 DEF Ordered, Rearranged
  <2> QED
    BY <2>1, <2>2
<1>2. ASSUME NEW r, Clear(slots, r), k \in 1..Len(new) => ~Overlap(new[k], r)
      PROVE  Clear(new, r)
  BY <1>2 DEF Clear, Rearranged
<1>3. ASSUME NEW total, Inside(slots, total),
             k \in 1..Len(new) => End(new[k]) <= total
      PROVE  Inside(new, total)
  BY <1>3 DEF Inside, Rearranged
<1> QED
  BY <1>1, <1>2, <1>3

-----------------------------------------------------------------------------
(* allocate_slot                                                           *)

\* The loop of allocate_slot stops at a slot the request fits in.
LEMMA FirstFitFits ==
  ASSUME NEW slots \in Seq(Bytes), NEW n \in Nat, Candidates(slots, n) # {}
  PROVE  /\ FirstFit(slots, n) \in 1..Len(slots)
         /\ slots[FirstFit(slots, n)].capacity >= n
<1>1. Candidates(slots, n) \in SUBSET Nat
  BY SlotNumbers DEF Candidates
<1>2. FirstFit(slots, n) \in Candidates(slots, n)
  BY <1>1, LeastNumber DEF FirstFit
<1> QED
  BY <1>2, SlotNumbers DEF Candidates

\* A request takes its bytes from one slot, and no others.
LEMMA TakeKeeps ==
  ASSUME NEW slots \in Seq(Bytes), Ordered(slots), NEW i \in 1..Len(slots),
         NEW n \in Nat \ {0}, n <= slots[i].capacity,
         NEW new, new = Take(slots, i, n)
  PROVE  /\ new \in Seq(Bytes)
         /\ Ordered(new)
         /\ Clear(new, Slot(slots[i].offset, n))
         /\ \A r \in Bytes : Clear(slots, r) => Clear(new, r)
         /\ \A total \in Nat : Inside(slots, total) => Inside(new, total)
<1>0. i \in Nat /\ Len(slots) \in Nat
  BY SlotNumbers
<1>1. CASE slots[i].capacity = n
  <2> DEFINE p == [j \in 1..Len(new) |-> IF j < i THEN j ELSE j + 1]
  <2>1. /\ new \in Seq(Bytes) /\ Len(new) = Len(slots) - 1
        /\ \A j \in 1..(Len(slots) - 1) :
             new[j] = IF j < i THEN slots[j] ELSE slots[j + 1]
    BY <1>1, RemoveAtProperties DEF Take
  <2>2. \A j \in 1..Len(new) :
          p[j] \in 1..Len(slots) /\ p[j] # i /\ new[j] = slots[p[j]]
    BY <1>0, <2>1
  <2>3. \A j, k \in 1..Len(new) : j < k => p[j] < p[k]
    BY <1>0, <2>1
  <2>4. 0 \notin 1..Len(new)
    BY <1>0, <2>1
  <2> HIDE DEF p
  <2>5. /\ Ordered(new)
        /\ \A r : Clear(slots, r) => Clear(new, r)
        /\ \A total : Inside(slots, total) => Inside(new, total)
    <3>1. 1..Len(new) \ {0} = 1..Len(new)
      BY <2>4
    <3>2. /\ \A j \in 1..Len(new) \ {0} :
               p[j] \in 1..Len(slots) /\ new[j] = slots[p[j]]
          /\ \A j, k \in 1..Len(new) \ {0} : j < k => p[j] < p[k]
      BY <2>2, <2>3, <3>1
    <3>3. 0 \in 1..Len(new) =>
            \A j \in 1..Len(new) : /\ j < 0 => End(new[j]) < new[0].offset
                                   /\ 0 < j => End(new[0]) < new[j].offset
      BY <2>4
    <3>4. /\ Ordered(new)
          /\ \A r : Clear(slots, r)
                    /\ (0 \in 1..Len(new) => ~Overlap(new[0], r))
                    => Clear(new, r)
          /\ \A total : /\ Inside(slots, total)
                        /\ 0 \in 1..Len(new) => End(new[0]) <= total
                        => Inside(new, total)
      <4>1. Rearranged(slots, new, 0, p)
        BY <3>2, <3>3, Zenon DEF Rearranged
      <4> QED
        BY <4>1, RearrangedKeeps
    <3> QED
      BY <2>4, <3>4
  <2>6. Clear(new, Slot(slots[i].offset, n))
    <3>1. \A j \in 1..Len(new) : ~Overlap(new[j], slots[i])
      BY <2>2, SlotsApart
    <3>2. /\ Slot(slots[i].offset, n).offset = slots[i].offset
          /\ End(Slot(slots[i].offset, n)) = End(slots[i])
      BY <1>1 DEF End, Slot
    <3> QED
      BY <3>1, <3>2, Zenon DEF Clear, Overlap
  <2> QED
    BY <2>1, <2>5, <2>6
<1>2. CASE slots[i].capacity # n
  <2> DEFINE rest == Slot(slots[i].offset + n, slots[i].capacity - n)
  <2>1. /\ rest \in Bytes /\ End(rest) = End(slots[i])
        /\ rest.offset = slots[i].offset + n
        /\ slots[i].offset + n \in Nat /\ End(rest) \in Nat
    BY <1>2, SlotNumbers DEF Slot, Bytes, End
  <2> HIDE DEF rest
  <2>2. /\ new \in Seq(Bytes) /\ Len(new) = Len(slots)
        /\ \A j \in 1..Len(slots) : new[j] = IF j = i THEN rest ELSE slots[j]
    BY <1>2, <2>1, ExceptSeq DEF Take, rest
  <2>3. \A j \in 1..Len(new) : /\ j < i => End(new[j]) < rest.offset
                               /\ i < j => End(rest) < new[j].offset
    <3> SUFFICES ASSUME NEW j \in 1..Len(slots)
                 PROVE  /\ j < i => End(slots[j]) < rest.offset
                        /\ i < j => End(rest) < slots[j].offset
      BY <1>0, <2>2
    <3>1. /\ End(slots[j]) \in Nat /\ slots[j].offset \in Nat
          /\ slots[i].offset \in Nat
      BY SlotNumbers
    <3> QED
      BY <2>1, <3>1 DEF Ordered
  <2>4. /\ Ordered(new)
        /\ \A r : Clear(slots, r) /\ ~Overlap(rest, r) => Clear(new, r)
        /\ \A total : Inside(slots, total) => Inside(new, total)
    <3> DEFINE p == [j \in 1..Len(new) |-> j]
    <3>1. \A j \in 1..Len(new) \ {i} :
            p[j] \in 1..Len(slots) /\ new[j] = slots[p[j]]
      BY <2>2
    <3>2. \A j, k \in 1..Len(new) \ {i} : j < k => p[j] < p[k]
      OBVIOUS
    <3>3. new[i] = rest /\ i \in 1..Len(new)
      BY <2>2
    <3>4. \A total : Inside(slots, total) => End(rest) <= total
      BY <2>1 DEF Inside
    <3> HIDE DEF p
    <3>5. i \in 1..Len(new) =>
            \A j \in 1..Len(new) : /\ j < i => End(new[j]) < new[i].offset
                                   /\ i < j => End(new[i]) < new[j].offset
      BY <2>3, <3>3
    <3>6. /\ Ordered(new)
          /\ \A r : Clear(slots, r)
                    /\ (i \in 1..Len(new) => ~Overlap(new[i], r))
                    => Clear(new, r)
          /\ \A total : /\ Inside(slots, total)
                        /\ i \in 1..Len(new) => End(new[i]) <= total
                        => Inside(new, total)
      <4>1. Rearranged(slots, new, i, p)
        BY <3>1, <3>2, <3>5, Zenon DEF Rearranged
      <4> QED
        BY <4>1, RearrangedKeeps
    <3> QED
      BY <3>3, <3>4, <3>6
  <2>5. ASSUME NEW r \in Bytes, Clear(slots, r)
        PROVE  ~Overlap(rest, r)
    <3>1. ~Overlap(slots[i], r)
      BY <2>5 DEF Clear
    <3>2. /\ r.offset \in Nat /\ End(r) \in Nat
          /\ slots[i].offset \in Nat /\ End(slots[i]) \in Nat
      BY SlotNumbers DEF Bytes, End
    <3> QED
      BY <2>1, <3>1, <3>2 DEF Overlap
  <2>6. Clear(new, Slot(slots[i].offset, n))
    <3> SUFFICES ASSUME NEW j \in 1..Len(slots)
                 PROVE  ~Overlap(new[j], Slot(slots[i].offset, n))
      BY <2>2 DEF Clear
    <3>1. CASE j = i
      BY <2>1, <2>2, <3>1 DEF Overlap, End, Slot
    <3>2. CASE j # i
      <4>1. ~Overlap(slots[j], slots[i]) /\ new[j] = slots[j]
        BY <2>2, <3>2, SlotsApart
      <4>2. /\ slots[j].offset \in Nat /\ slots[i].offset \in Nat
            /\ End(slots[j]) \in Nat /\ slots[i].capacity \in Nat
        BY SlotNumbers
      <4>3. /\ Slot(slots[i].offset, n).offset = slots[i].offset
            /\ End(Slot(slots[i].offset, n)) = slots[i].offset + n
            /\ End(slots[i]) = slots[i].offset + slots[i].capacity
        BY DEF End, Slot
      <4>4. n <= slots[i].capacity
        BY <1>1
      <4> QED
        BY <4>1, <4>2, <4>3, <4>4 DEF Overlap
    <3> QED
      BY <3>1, <3>2
  <2> QED
    BY <2>2, <2>4, <2>5, <2>6
<1> QED
  BY <1>1, <1>2

-----------------------------------------------------------------------------
(* update_totsize                                                          *)

\* The bytes added to the file become free, whatever the last slot was, and a
\* request for no more bytes than were added fits in a slot.
LEMMA ExtendKeeps ==
  ASSUME NEW slots \in Seq(Bytes), Ordered(slots),
         NEW total \in Nat, Inside(slots, total),
         NEW newTotal \in Nat, total < newTotal,
         NEW new, new = Extend(slots, total, newTotal)
  PROVE  /\ new \in Seq(Bytes)
         /\ Ordered(new)
         /\ Inside(new, newTotal)
         /\ \A r \in Bytes : End(r) <= total /\ Clear(slots, r) => Clear(new, r)
         /\ \A n \in Nat : n <= newTotal - total => Candidates(new, n) # {}
<1> DEFINE merge == slots # <<>> /\ End(Last(slots)) = total
           m == IF merge THEN Len(slots) ELSE Len(slots) + 1
           first == IF merge THEN slots[Len(slots)].offset ELSE total
           last == Slot(first, newTotal - first)
           p == [j \in 1..m |-> j]
<1>0. /\ Len(slots) \in Nat
      /\ slots # <<>> => Len(slots) \in 1..Len(slots)
      /\ slots = <<>> => Len(slots) = 0
  BY LenProperties, EmptySeq
<1>1. /\ first \in Nat /\ first <= total
      /\ last \in Bytes /\ last.offset = first /\ End(last) = newTotal
      /\ last.capacity >= newTotal - total /\ last.capacity \in Nat
  <2>1. first \in Nat /\ first <= total
    <3>1. CASE merge
      BY <1>0, <3>1, SlotNumbers DEF Last
    <3>2. CASE ~merge
      BY <3>2
    <3> QED
      BY <3>1, <3>2
  <2> QED
    BY <2>1 DEF Slot, Bytes, End
<1>2. m \in Nat /\ m \in 1..m
  BY <1>0
<1>3. /\ new \in Seq(Bytes) /\ Len(new) = m
      /\ \A j \in 1..m : new[j] = IF j = m THEN last ELSE slots[j]
  <2>1. CASE merge
    <3>1. /\ Front(slots) \in Seq(Bytes) /\ Len(Front(slots)) = m - 1
          /\ \A j \in 1..(m - 1) : Front(slots)[j] = slots[j]
      <4>1. m = Len(slots) /\ m - 1 \in 0..Len(slots)
        BY <1>0, <2>1
      <4> HIDE DEF m
      <4>2. \A j \in 1..(m - 1) : j \in 1..Len(slots)
        BY <1>0, <4>1
      <4>3. \A j \in 1..Len(slots) : slots[j] \in Bytes
        BY SlotNumbers
      <4>4. Front(slots) = SubSeq(slots, 1, m - 1)
        BY <4>1 DEF Front
      <4> QED
        BY <1>0, <4>1, <4>2, <4>3, <4>4, SubSeqProperties
    <3>2. new = Front(slots) \o <<last>>
      <4>1. /\ slots[Len(slots)].offset \in Nat
            /\ slots[Len(slots)].capacity \in Nat
            /\ slots[Len(slots)].offset + slots[Len(slots)].capacity = total
        BY <1>0, <2>1, SlotNumbers DEF Last, End
      <4>2. slots[Len(slots)].capacity + newTotal - total
              = newTotal - slots[Len(slots)].offset
        BY <4>1
      <4> QED
        BY <2>1, <4>2 DEF Extend, Last
    <3>3. <<last>> \in Seq(Bytes) /\ Len(<<last>>) = 1 /\ <<last>>[1] = last
      BY <1>1
    <3> HIDE DEF last, m
    <3>4. /\ new \in Seq(Bytes) /\ Len(new) = m
          /\ \A j \in 1..m :
               new[j] = IF j <= m - 1 THEN Front(slots)[j]
                                      ELSE <<last>>[j - (m - 1)]
      BY <1>2, <3>1, <3>2, <3>3, ConcatProperties
    <3> QED
      BY <1>2, <3>1, <3>3, <3>4
  <2>2. CASE ~merge
    <3>1. new = Append(slots, last)
      BY <2>2 DEF Extend
    <3> QED
      BY <1>0, <1>1, <2>2, <3>1, AppendProperties
  <2> QED
    BY <2>1, <2>2
<1>4. \A j \in 1..(m - 1) : /\ j \in 1..Len(slots)
                            /\ End(slots[j]) < first
  <2> SUFFICES ASSUME NEW j \in 1..(m - 1)
               PROVE  j \in 1..Len(slots) /\ End(slots[j]) < first
    OBVIOUS
  <2>1. j \in 1..Len(slots)
    BY <1>0
  <2>2. CASE merge
    BY <1>0, <2>1, <2>2 DEF Ordered
  <2>3. CASE ~merge
    <3>1. slots # <<>> /\ Len(slots) \in 1..Len(slots) /\ End(Last(slots)) # total
      BY <1>0, <2>1, <2>3
    <3>2. /\ End(slots[j]) \in Nat
          /\ End(slots[Len(slots)]) \in Nat /\ slots[Len(slots)].offset \in Nat
          /\ slots[Len(slots)].offset < End(slots[Len(slots)])
          /\ End(slots[Len(slots)]) <= total
      BY <2>1, <3>1, SlotNumbers DEF Inside
    <3>3. j < Len(slots) => End(slots[j]) < slots[Len(slots)].offset
      BY <2>1, <3>1 DEF Ordered
    <3>4. j = Len(slots) \/ j < Len(slots)
      BY <1>0, <2>1
    <3> QED
      BY <2>3, <3>1, <3>2, <3>3, <3>4 DEF Last
  <2> QED
    BY <2>1, <2>2, <2>3
<1> HIDE DEF last, m, first, merge
<1>5. Rearranged(slots, new, m, p)
  <2>1. \A j \in 1..Len(new) \ {m} :
          p[j] \in 1..Len(slots) /\ new[j] = slots[p[j]]
    BY <1>2, <1>3, <1>4
  <2>2. \A i, j \in 1..Len(new) \ {m} : i < j => p[i] < p[j]
    BY <1>3
  <2>3. \A j \in 1..Len(new) : /\ j < m => End(new[j]) < new[m].offset
                               /\ m < j => End(new[m]) < new[j].offset
    BY <1>1, <1>2, <1>3, <1>4
  <2> QED
    BY <2>1, <2>2, <2>3, Zenon DEF Rearranged
<1>6. new[m] = last /\ m \in 1..Len(new)
  BY <1>2, <1>3
<1>7. Ordered(new)
  BY <1>5, RearrangedKeeps
<1>8. Inside(new, newTotal)
  <2>1. \A i \in 1..Len(slots) : End(slots[i]) <= newTotal
    <3>1. \A i \in 1..Len(slots) : End(slots[i]) \in Nat
      BY SlotNumbers
    <3> QED
      BY <3>1 DEF Inside
  <2> QED
    <3>1. Inside(slots, newTotal)
      BY <2>1 DEF Inside
    <3> QED
      BY <1>1, <1>5, <1>6, <3>1, RearrangedKeeps
<1>9. ASSUME NEW r \in Bytes, End(r) <= total, Clear(slots, r)
      PROVE  Clear(new, r)
  <2>1. r.offset \in Nat /\ End(r) \in Nat /\ r.offset < End(r)
    BY DEF Bytes, End
  <2>2. ASSUME merge
        PROVE  ~Overlap(last, r)
    <3>1. /\ slots[Len(slots)].offset \in Nat /\ End(slots[Len(slots)]) = total
          /\ ~Overlap(slots[Len(slots)], r)
          /\ first = slots[Len(slots)].offset
      BY <1>0, <1>9, <2>2, SlotNumbers DEF Clear, Last, merge, first
    <3> QED
      BY <1>1, <1>9, <2>1, <3>1 DEF Overlap
  <2>3. ASSUME ~merge
        PROVE  ~Overlap(last, r)
    <3>1. first = total
      BY <2>3 DEF first, merge
    <3> QED
      BY <1>1, <1>9, <2>1, <3>1 DEF Overlap
  <2>4. ~Overlap(new[m], r)
    BY <1>6, <2>2, <2>3
  <2> QED
    BY <1>5, <1>9, <2>4, RearrangedKeeps
<1>10. ASSUME NEW n \in Nat, n <= newTotal - total
       PROVE  Candidates(new, n) # {}
  <2>1. new[m].capacity >= n /\ m \in DOMAIN new
    BY <1>1, <1>3, <1>6, <1>10, LenProperties
  <2> QED
    BY <2>1 DEF Candidates
<1> QED
  BY <1>3, <1>7, <1>8, <1>9, <1>10

-----------------------------------------------------------------------------
(* free_slot                                                               *)

\* The loop of free_slot stops where the freed range belongs: the slots before
\* end before it, the slots from there on begin after it.  So both asserts of
\* free_slot hold when no byte of the range is free already.
LEMMA AfterProperties ==
  ASSUME NEW slots \in Seq(Bytes), Ordered(slots),
         NEW offset \in Nat, NEW n \in Nat \ {0},
         Clear(slots, Slot(offset, n)),
         NEW i, i = After(slots, offset)
  PROVE  /\ i \in 1..(Len(slots) + 1)
         /\ \A j \in 1..Len(slots) :
              /\ j < i => End(slots[j]) <= offset
              /\ i <= j => offset + n <= slots[j].offset
         /\ FreeAsserts(slots, offset, n)
<1> DEFINE later == {j \in DOMAIN slots : slots[j].offset > offset}
<1>0. /\ Len(slots) \in Nat /\ DOMAIN slots = 1..Len(slots)
      /\ \A j \in 1..Len(slots) :
           /\ slots[j].offset \in Nat /\ End(slots[j]) \in Nat
           /\ slots[j].offset < End(slots[j])
  BY SlotNumbers
<1>1. later \subseteq Nat /\ later \subseteq 1..Len(slots)
  BY <1>0
<1>2. /\ i \in 1..(Len(slots) + 1)
      /\ \A j \in 1..Len(slots) : j < i => slots[j].offset <= offset
      /\ i <= Len(slots) => slots[i].offset > offset
  <2>1. CASE later = {}
    <3>1. i = Len(slots) + 1
      BY <2>1 DEF After
    <3> QED
      BY <1>0, <2>1, <3>1
  <2>2. CASE later # {}
    <3> HIDE DEF later
    <3>1. i \in later /\ \A j \in later : i <= j
      <4>1. i = CHOOSE k \in later : \A j \in later : k <= j
        BY <2>2 DEF After, later
      <4> QED
        BY <1>1, <2>2, <4>1, LeastNumber
    <3>2. \A j \in 1..Len(slots) : j < i => j \notin later
      BY <1>0, <1>1, <3>1
    <3> QED
      BY <1>0, <1>1, <3>1, <3>2 DEF later
  <2> QED
    BY <2>1, <2>2
<1>3. \A j \in 1..Len(slots) : i <= j => offset < slots[j].offset
  <2> SUFFICES ASSUME NEW j \in 1..Len(slots), i <= j
               PROVE  offset < slots[j].offset
    OBVIOUS
  <2>1. i \in 1..Len(slots)
    BY <1>0, <1>2
  <2>2. CASE i = j
    BY <1>0, <1>2, <2>1, <2>2
  <2>3. CASE i < j
    BY <1>0, <1>2, <2>1, <2>3 DEF Ordered
  <2> QED
    BY <1>0, <1>2, <2>2, <2>3
<1>4. \A j \in 1..Len(slots) :
        \/ offset + n <= slots[j].offset
        \/ End(slots[j]) <= offset
  <2> TAKE j \in 1..Len(slots)
  <2>1. /\ ~Overlap(slots[j], Slot(offset, n))
        /\ slots[j].offset \in Nat /\ End(slots[j]) \in Nat
    BY <1>0 DEF Clear
  <2>2. ~(slots[j].offset < offset + n /\ offset < End(slots[j]))
    BY <2>1 DEF Overlap, Slot, End
  <2> QED
    BY <2>1, <2>2
<1>5. \A j \in 1..Len(slots) :
        /\ j < i => End(slots[j]) <= offset
        /\ i <= j => offset + n <= slots[j].offset
  BY <1>0, <1>2, <1>3, <1>4
<1>6. FreeAsserts(slots, offset, n)
  <2>1. i > 1 => i - 1 \in 1..Len(slots) /\ i - 1 < i
    BY <1>0, <1>2
  <2>2. i <= Len(slots) => i \in 1..Len(slots)
    BY <1>0, <1>2
  <2>3. /\ i > 1 => offset >= End(slots[i - 1])
        /\ i <= Len(slots) => offset + n <= slots[i].offset
    BY <1>0, <1>2, <1>5, <2>1, <2>2
  <2> QED
    BY <2>3 DEF FreeAsserts
<1> QED
  BY <1>2, <1>5, <1>6

\* The slot a freed range becomes part of.
Joined(slots, offset, n) ==
  LET i == After(slots, offset)
      first == IF TouchesPrevious(slots, i, offset)
               THEN slots[i - 1].offset ELSE offset
      end == IF TouchesNext(slots, i, offset + n)
             THEN End(slots[i]) ELSE offset + n IN
  Slot(first, end - first)

\* It replaces the slots from position From to position To - 1.
From(slots, offset) ==
  LET i == After(slots, offset) IN
  IF TouchesPrevious(slots, i, offset) THEN i - 1 ELSE i

To(slots, offset, n) ==
  LET i == After(slots, offset) IN
  IF TouchesNext(slots, i, offset + n) THEN i + 1 ELSE i

\* That slot covers the range and the slots it touches, and nothing else.
LEMMA JoinedProperties ==
  ASSUME NEW slots \in Seq(Bytes), Ordered(slots),
         NEW offset \in Nat, NEW n \in Nat \ {0},
         Clear(slots, Slot(offset, n)),
         NEW k, k = From(slots, offset),
         NEW hi, hi = To(slots, offset, n),
         NEW joined, joined = Joined(slots, offset, n)
  PROVE  /\ joined \in Bytes
         /\ \A j \in 1..Len(slots) :
              /\ j < k => End(slots[j]) < joined.offset
              /\ hi <= j => End(joined) < slots[j].offset
         /\ \A r \in Bytes : Clear(slots, r) /\ ~Overlap(Slot(offset, n), r)
                             => ~Overlap(joined, r)
         /\ \A total \in Nat : Inside(slots, total) /\ offset + n <= total
                             => End(joined) <= total
<1> DEFINE i == After(slots, offset)
           prev == TouchesPrevious(slots, i, offset)
           next == TouchesNext(slots, i, offset + n)
           first == IF prev THEN slots[i - 1].offset ELSE offset
           end == IF next THEN End(slots[i]) ELSE offset + n
<1>0. /\ Len(slots) \in Nat /\ i \in 1..(Len(slots) + 1)
      /\ \A j \in 1..Len(slots) :
           /\ slots[j].offset \in Nat /\ End(slots[j]) \in Nat
           /\ slots[j].offset < End(slots[j])
           /\ j < i => End(slots[j]) <= offset
           /\ i <= j => offset + n <= slots[j].offset
  BY SlotNumbers, AfterProperties
<1>1. prev => i - 1 \in 1..Len(slots) /\ End(slots[i - 1]) = offset
  BY <1>0 DEF TouchesPrevious
<1>2. next => i \in 1..Len(slots) /\ slots[i].offset = offset + n
  BY <1>0 DEF TouchesNext
<1>3. /\ joined = Slot(first, end - first)
      /\ k = IF prev THEN i - 1 ELSE i
      /\ hi = IF next THEN i + 1 ELSE i
  BY DEF Joined, From, To
<1>p. ~prev => i = 1 \/ End(slots[i - 1]) # offset
  BY <1>0 DEF TouchesPrevious
<1>n. ~next => i > Len(slots) \/ slots[i].offset # offset + n
  BY <1>0 DEF TouchesNext
<1> HIDE DEF i, prev, next
<1>4. /\ first \in Nat /\ first <= offset
      /\ end \in Nat /\ offset + n <= end
  BY <1>0, <1>1, <1>2
<1> HIDE DEF first, end
<1>5. joined.offset = first /\ End(joined) = end
  BY <1>3, <1>4 DEF Slot, End
<1>6. joined \in Bytes
  BY <1>3, <1>4 DEF Bytes, Slot
<1>7. ASSUME NEW j \in 1..Len(slots), j < k
      PROVE  End(slots[j]) < joined.offset
  <2>1. CASE prev
    BY <1>0, <1>1, <1>3, <1>5, <1>7, <2>1 DEF Ordered, first
  <2>2. CASE ~prev
    <3>0. j < i /\ joined.offset = offset
      BY <1>3, <1>5, <1>7, <2>2 DEF first
    <3>1. i - 1 \in 1..Len(slots) /\ j < i /\ End(slots[i - 1]) # offset
      BY <1>0, <1>p, <2>2, <3>0
    <3>2. j < i - 1 => End(slots[j]) < slots[i - 1].offset
      BY <3>1 DEF Ordered
    <3>3. j = i - 1 \/ j < i - 1
      BY <1>0, <3>1
    <3>4. End(slots[i - 1]) < offset
      <4>1. i - 1 < i /\ i - 1 \in 1..Len(slots)
        BY <1>0, <3>1
      <4>2. End(slots[i - 1]) \in Nat /\ End(slots[i - 1]) <= offset
        BY <1>0, <4>1, Zenon
      <4> QED
        BY <3>1, <4>2
    <3>5. CASE j = i - 1
      BY <3>0, <3>4, <3>5, Zenon
    <3>6. CASE j < i - 1
      BY <1>0, <3>0, <3>1, <3>2, <3>4, <3>6
    <3> QED
      BY <3>3, <3>5, <3>6, Zenon
  <2> QED
    BY <2>1, <2>2
<1>8. ASSUME NEW j \in 1..Len(slots), hi <= j
      PROVE  End(joined) < slots[j].offset
  <2>1. CASE next
    BY <1>0, <1>2, <1>3, <1>5, <1>8, <2>1 DEF Ordered, end
  <2>2. CASE ~next
    <3>0. i <= j /\ End(joined) = offset + n
      BY <1>3, <1>5, <1>8, <2>2 DEF end
    <3>1. i \in 1..Len(slots) /\ i <= j /\ slots[i].offset # offset + n
      BY <1>0, <1>n, <2>2, <3>0
    <3>2. i < j => End(slots[i]) < slots[j].offset
      BY <3>1 DEF Ordered
    <3>3. i = j \/ i < j
      BY <1>0, <3>1
    <3>4. offset + n < slots[i].offset
      <4>1. i <= i
        BY <1>0
      <4>2. slots[i].offset \in Nat /\ offset + n <= slots[i].offset
        BY <1>0, <3>1, <4>1, Zenon
      <4> QED
        BY <3>1, <4>2
    <3>5. CASE i = j
      BY <3>0, <3>4, <3>5, Zenon
    <3>6. CASE i < j
      BY <1>0, <3>0, <3>1, <3>2, <3>4, <3>6
    <3> QED
      BY <3>3, <3>5, <3>6, Zenon
  <2> QED
    BY <2>1, <2>2
<1>9. ASSUME NEW r \in Bytes, Clear(slots, r), ~Overlap(Slot(offset, n), r)
      PROVE  ~Overlap(joined, r)
  <2>1. r.offset \in Nat /\ End(r) \in Nat /\ r.offset < End(r)
    BY DEF Bytes, End
  <2>2. ~(offset < End(r) /\ r.offset < offset + n)
    BY <1>9 DEF Overlap, End, Slot
  <2>3. prev => ~(slots[i - 1].offset < End(r) /\ r.offset < offset)
    BY <1>1, <1>9 DEF Clear, Overlap
  <2>4. next => ~(offset + n < End(r) /\ r.offset < End(slots[i]))
    BY <1>2, <1>9 DEF Clear, Overlap
  <2>5. /\ joined.offset = IF prev THEN slots[i - 1].offset ELSE offset
        /\ End(joined) = IF next THEN End(slots[i]) ELSE offset + n
    BY <1>5 DEF first, end
  <2>6. /\ prev => slots[i - 1].offset \in Nat
        /\ next => End(slots[i]) \in Nat
    BY <1>0, <1>1, <1>2
  <2> QED
    BY <2>1, <2>2, <2>3, <2>4, <2>5, <2>6 DEF Overlap
<1>10. ASSUME NEW total \in Nat, Inside(slots, total), offset + n <= total
       PROVE  End(joined) <= total
  BY <1>2, <1>5, <1>10 DEF Inside, end
<1> QED
  BY <1>6, <1>7, <1>8, <1>9, <1>10

\* The list free_slot leaves: the joined slot is at position k.
LEMMA FreeShape ==
  ASSUME NEW slots \in Seq(Bytes), Ordered(slots),
         NEW offset \in Nat, NEW n \in Nat \ {0},
         Clear(slots, Slot(offset, n)),
         NEW k, k = From(slots, offset),
         NEW hi, hi = To(slots, offset, n),
         NEW joined, joined = Joined(slots, offset, n),
         NEW new, new = Free(slots, offset, n)
  PROVE  /\ k \in Nat /\ hi \in Nat /\ Len(slots) \in Nat
         /\ 1 <= k /\ k <= hi /\ hi <= Len(slots) + 1 /\ hi <= k + 2
         /\ new \in Seq(Bytes)
         /\ Len(new) = Len(slots) + 1 - (hi - k)
         /\ k \in 1..Len(new)
         /\ \A j \in 1..Len(new) :
              new[j] = IF j < k THEN slots[j]
                       ELSE IF j = k THEN joined
                       ELSE slots[j + (hi - k) - 1]
<1> DEFINE i == After(slots, offset)
           prev == TouchesPrevious(slots, i, offset)
           next == TouchesNext(slots, i, offset + n)
<1>0. /\ Len(slots) \in Nat /\ i \in 1..(Len(slots) + 1)
      /\ \A j \in 1..Len(slots) : slots[j] \in Bytes
  BY SlotNumbers, AfterProperties
<1>1. joined \in Bytes
  BY JoinedProperties
<1>2. /\ prev => i - 1 \in 1..Len(slots) /\ End(slots[i - 1]) = offset
      /\ next => i \in 1..Len(slots) /\ slots[i].offset = offset + n
  BY <1>0 DEF TouchesPrevious, TouchesNext
<1>3. /\ prev => /\ slots[i - 1].offset \in Nat
                 /\ slots[i - 1].capacity \in Nat
                 /\ slots[i - 1] = Slot(slots[i - 1].offset,
                                        slots[i - 1].capacity)
      /\ next => slots[i].offset \in Nat /\ slots[i].capacity \in Nat
  <2>1. \A r \in Bytes : /\ r.offset \in Nat /\ r.capacity \in Nat
                         /\ r = Slot(r.offset, r.capacity)
    BY DEF Bytes, Slot
  <2> QED
    BY <1>0, <1>2, <2>1
<1>j. /\ prev /\ next => joined = Slot(slots[i - 1].offset,
                                      End(slots[i]) - slots[i - 1].offset)
      /\ prev /\ ~next => joined = Slot(slots[i - 1].offset,
                                       (offset + n) - slots[i - 1].offset)
      /\ ~prev /\ next => joined = Slot(offset, End(slots[i]) - offset)
      /\ ~prev /\ ~next => joined = Slot(offset, (offset + n) - offset)
  <2> DEFINE first == IF prev THEN slots[i - 1].offset ELSE offset
             end == IF next THEN End(slots[i]) ELSE offset + n
  <2>1. joined = Slot(first, end - first)
    BY DEF Joined
  <2>2. /\ prev => first = slots[i - 1].offset
        /\ ~prev => first = offset
        /\ next => end = End(slots[i])
        /\ ~next => end = offset + n
    OBVIOUS
  <2> HIDE DEF i, prev, next, first, end
  <2>3. CASE prev /\ next
    BY <2>1, <2>2, <2>3
  <2>4. CASE prev /\ ~next
    BY <2>1, <2>2, <2>4
  <2>5. CASE ~prev /\ next
    BY <2>1, <2>2, <2>5
  <2>6. CASE ~prev /\ ~next
    BY <2>1, <2>2, <2>6
  <2> QED
    BY <2>3, <2>4, <2>5, <2>6
<1>f. /\ prev /\ next =>
           new = RemoveAt([slots EXCEPT ![i - 1].capacity =
                                          @ + n + slots[i].capacity], i)
      /\ prev /\ ~next => new = [slots EXCEPT ![i - 1].capacity = @ + n]
      /\ ~prev /\ next =>
           new = [slots EXCEPT ![i] = Slot(offset, slots[i].capacity + n)]
      /\ ~prev /\ ~next => new = InsertAt(slots, i, Slot(offset, n))
  BY DEF Free
<1>k. /\ k = IF prev THEN i - 1 ELSE i
      /\ hi = IF next THEN i + 1 ELSE i
  BY DEF From, To
<1> HIDE DEF i, prev, next
<1>4. CASE prev /\ next
  <2> DEFINE s == [slots EXCEPT ![i - 1].capacity =
                                   @ + n + slots[i].capacity]
  <2>1. /\ [slots[i - 1] EXCEPT !.capacity = @ + n + slots[i].capacity] = joined
    <3>1. joined = Slot(slots[i - 1].offset,
                        End(slots[i]) - slots[i - 1].offset)
      BY <1>4, <1>j
    <3>2. End(slots[i]) - slots[i - 1].offset
            = slots[i - 1].capacity + n + slots[i].capacity
      <4> DEFINE o == slots[i - 1].offset
                 c == slots[i - 1].capacity
                 d == slots[i].capacity
                 e == End(slots[i])
      <4>1. o + c = offset /\ e = offset + n + d
        BY <1>2, <1>4 DEF End
      <4>2. o \in Nat /\ c \in Nat /\ d \in Nat
        BY <1>3, <1>4
      <4> HIDE DEF o, c, d, e
      <4>3. e - o = c + n + d
        BY <4>1, <4>2
      <4> QED
        BY <4>3 DEF o, c, d, e
    <3> QED
      BY <1>3, <1>4, <3>1, <3>2 DEF Slot
  <2>2. s = [slots EXCEPT ![i - 1] = joined]
    BY <2>1
  <2>3. new = RemoveAt(s, i) /\ k = i - 1 /\ hi = i + 1
    BY <1>4, <1>f, <1>k
  <2> HIDE DEF s
  <2>4. /\ s \in Seq(Bytes) /\ Len(s) = Len(slots)
        /\ \A j \in 1..Len(slots) :
             s[j] = IF j = i - 1 THEN joined ELSE slots[j]
    BY <1>1, <1>2, <1>4, <2>2, ExceptSeq
  <2>5. /\ new \in Seq(Bytes) /\ Len(new) = Len(slots) - 1
        /\ \A j \in 1..(Len(slots) - 1) :
             new[j] = IF j < i THEN s[j] ELSE s[j + 1]
    <3>1. i \in 1..Len(s)
      BY <1>2, <1>4, <2>4
    <3>2. /\ RemoveAt(s, i) \in Seq(Bytes) /\ Len(RemoveAt(s, i)) = Len(s) - 1
          /\ \A j \in 1..(Len(s) - 1) :
               RemoveAt(s, i)[j] = IF j < i THEN s[j] ELSE s[j + 1]
      BY <2>4, <3>1, RemoveAtProperties
    <3> QED
      BY <2>3, <2>4, <3>2, Zenon
  <2>6. ASSUME NEW j \in 1..(Len(slots) - 1)
        PROVE  new[j] = IF j < k THEN slots[j]
                        ELSE IF j = k THEN joined
                        ELSE slots[j + (hi - k) - 1]
    <3>1. /\ j + (hi - k) - 1 = j + 1 /\ j + 1 \in 1..Len(slots)
          /\ j \in 1..Len(slots) /\ k = i - 1 /\ i \in Nat /\ j \in Nat
      BY <1>0, <2>3
    <3>2. CASE j < k
      <4>1. j < i /\ j # i - 1
        BY <1>0, <2>3, <3>2
      <4>2. new[j] = s[j] /\ s[j] = slots[j]
        BY <2>4, <2>5, <3>1, <4>1, Zenon
      <4> QED
        BY <3>2, <4>2
    <3>3. CASE j = k
      <4>1. j < i /\ j = i - 1
        BY <1>0, <2>3, <3>3
      <4>2. new[j] = s[j] /\ s[j] = joined /\ ~(j < k)
        BY <2>4, <2>5, <3>1, <4>1
      <4> QED
        BY <3>3, <4>2
    <3>4. CASE j > k
      <4>1. ~(j < i) /\ j + 1 # i - 1
        BY <1>0, <2>3, <3>4
      <4>2. new[j] = s[j + 1] /\ s[j + 1] = slots[j + 1]
        BY <2>4, <2>5, <3>1, <4>1, Zenon
      <4> QED
        BY <3>1, <3>4, <4>2
    <3> QED
      BY <3>1, <3>2, <3>3, <3>4
  <2>7. /\ hi - k = 2 /\ k \in Nat /\ hi \in Nat /\ 1 <= k /\ k <= hi
        /\ hi <= Len(slots) + 1 /\ Len(slots) + 1 - (hi - k) = Len(slots) - 1
        /\ k \in 1..(Len(slots) - 1)
    BY <1>0, <1>2, <1>4, <2>3
  <2> QED
    BY <1>0, <2>5, <2>6, <2>7
<1>5. CASE prev /\ ~next
  <2>1. [slots[i - 1] EXCEPT !.capacity = @ + n] = joined
    <3>1. joined = Slot(slots[i - 1].offset, (offset + n) - slots[i - 1].offset)
      BY <1>5, <1>j
    <3>2. (offset + n) - slots[i - 1].offset = slots[i - 1].capacity + n
      BY <1>2, <1>3, <1>5 DEF End
    <3> QED
      BY <1>3, <1>5, <3>1, <3>2 DEF Slot
  <2>2. new = [slots EXCEPT ![i - 1] = joined] /\ k = i - 1 /\ hi = i
    <3>1. new = [slots EXCEPT ![i - 1].capacity = @ + n]
      BY <1>5, <1>f
    <3> QED
      BY <1>5, <1>k, <2>1, <3>1
  <2>3. /\ new \in Seq(Bytes) /\ Len(new) = Len(slots)
        /\ \A j \in 1..Len(slots) :
             new[j] = IF j = i - 1 THEN joined ELSE slots[j]
    BY <1>1, <1>2, <1>5, <2>2, ExceptSeq
  <2>4. ASSUME NEW j \in 1..Len(slots)
        PROVE  new[j] = IF j < k THEN slots[j]
                        ELSE IF j = k THEN joined
                        ELSE slots[j + (hi - k) - 1]
    BY <1>0, <1>2, <1>5, <2>2, <2>3
  <2> QED
    BY <1>0, <1>2, <1>5, <2>2, <2>3, <2>4
<1>6. CASE ~prev /\ next
  <2>1. Slot(offset, slots[i].capacity + n) = joined
    <3>1. joined = Slot(offset, End(slots[i]) - offset)
      BY <1>6, <1>j
    <3>2. End(slots[i]) - offset = slots[i].capacity + n
      BY <1>2, <1>3, <1>6 DEF End
    <3> QED
      BY <3>1, <3>2
  <2>2. new = [slots EXCEPT ![i] = joined] /\ k = i /\ hi = i + 1
    <3>1. new = [slots EXCEPT ![i] = Slot(offset, slots[i].capacity + n)]
      BY <1>6, <1>f
    <3> QED
      BY <1>6, <1>k, <2>1, <3>1
  <2>3. /\ new \in Seq(Bytes) /\ Len(new) = Len(slots)
        /\ \A j \in 1..Len(slots) : new[j] = IF j = i THEN joined ELSE slots[j]
    BY <1>1, <1>2, <1>6, <2>2, ExceptSeq
  <2>4. ASSUME NEW j \in 1..Len(slots)
        PROVE  new[j] = IF j < k THEN slots[j]
                        ELSE IF j = k THEN joined
                        ELSE slots[j + (hi - k) - 1]
    BY <1>0, <1>2, <1>6, <2>2, <2>3
  <2>5. /\ hi - k = 1 /\ k \in Nat /\ hi \in Nat /\ 1 <= k /\ k <= hi
        /\ hi <= Len(slots) + 1 /\ Len(slots) + 1 - (hi - k) = Len(slots)
        /\ k \in 1..Len(slots)
    BY <1>0, <1>2, <1>6, <2>2
  <2> QED
    BY <1>0, <2>3, <2>4, <2>5
<1>7. CASE ~prev /\ ~next
  <2>1. Slot(offset, n) = joined
    <3>1. joined = Slot(offset, (offset + n) - offset)
      BY <1>7, <1>j
    <3> QED
      BY <3>1
  <2>2. new = InsertAt(slots, i, joined) /\ k = i /\ hi = i
    BY <1>7, <2>1, <1>f, <1>k
  <2>3. /\ new \in Seq(Bytes) /\ Len(new) = Len(slots) + 1
        /\ \A j \in 1..(Len(slots) + 1) :
             new[j] = IF j < i THEN slots[j]
                      ELSE IF j = i THEN joined ELSE slots[j - 1]
    <3>1. /\ InsertAt(slots, i, joined) \in Seq(Bytes)
          /\ Len(InsertAt(slots, i, joined)) = Len(slots) + 1
          /\ \A j \in 1..(Len(slots) + 1) :
               InsertAt(slots, i, joined)[j]
                 = IF j < i THEN slots[j]
                   ELSE IF j = i THEN joined ELSE slots[j - 1]
      <4>1. i \in 1..(Len(slots) + 1) /\ joined \in Bytes
        BY <1>0, <1>1
      <4>2. /\ InsertAt(slots, i, joined) \in Seq(Bytes)
            /\ Len(InsertAt(slots, i, joined)) = Len(slots) + 1
        BY <4>1, InsertAtProperties
      <4>3. \A j \in 1..(Len(slots) + 1) :
              InsertAt(slots, i, joined)[j]
                = IF j < i THEN slots[j]
                  ELSE IF j = i THEN joined ELSE slots[j - 1]
        <5>1. \A h \in 1..(Len(slots) + 1), e \in Bytes :
                \A j \in 1..(Len(slots) + 1) :
                  InsertAt(slots, h, e)[j]
                    = IF j < h THEN slots[j]
                      ELSE IF j = h THEN e ELSE slots[j - 1]
          BY InsertAtProperties
        <5> QED
          BY <4>1, <5>1, Zenon
      <4> QED
        BY <4>2, <4>3
    <3> QED
      BY <2>2, <3>1, Zenon
  <2>4. ASSUME NEW j \in 1..(Len(slots) + 1)
        PROVE  new[j] = IF j < k THEN slots[j]
                        ELSE IF j = k THEN joined
                        ELSE slots[j + (hi - k) - 1]
    BY <1>0, <2>2, <2>3
  <2> QED
    BY <1>0, <2>2, <2>3, <2>4
<1> QED
  BY <1>4, <1>5, <1>6, <1>7

\* free_slot gives back the bytes of the range and no others, and leaves the
\* slots in order with gaps between them.
LEMMA FreeKeeps ==
  ASSUME NEW slots \in Seq(Bytes), Ordered(slots),
         NEW offset \in Nat, NEW n \in Nat \ {0},
         Clear(slots, Slot(offset, n)),
         NEW new, new = Free(slots, offset, n)
  PROVE  /\ new \in Seq(Bytes)
         /\ Ordered(new)
         /\ \A r \in Bytes : Clear(slots, r) /\ ~Overlap(Slot(offset, n), r)
                             => Clear(new, r)
         /\ \A total \in Nat : Inside(slots, total) /\ offset + n <= total
                               => Inside(new, total)
<1> DEFINE k == From(slots, offset)
           hi == To(slots, offset, n)
           joined == Joined(slots, offset, n)
           p == [j \in 1..Len(new) |-> IF j < k THEN j ELSE j + (hi - k) - 1]
<1>1. /\ joined \in Bytes
      /\ \A j \in 1..Len(slots) :
           /\ j < k => End(slots[j]) < joined.offset
           /\ hi <= j => End(joined) < slots[j].offset
      /\ \A r \in Bytes : Clear(slots, r) /\ ~Overlap(Slot(offset, n), r)
                          => ~Overlap(joined, r)
      /\ \A total \in Nat : Inside(slots, total) /\ offset + n <= total
                            => End(joined) <= total
  BY JoinedProperties
<1>2. /\ k \in Nat /\ hi \in Nat /\ Len(slots) \in Nat
      /\ 1 <= k /\ k <= hi /\ hi <= Len(slots) + 1 /\ hi <= k + 2
      /\ new \in Seq(Bytes)
      /\ Len(new) = Len(slots) + 1 - (hi - k)
      /\ k \in 1..Len(new)
      /\ \A j \in 1..Len(new) :
           new[j] = IF j < k THEN slots[j]
                    ELSE IF j = k THEN joined
                    ELSE slots[j + (hi - k) - 1]
  BY FreeShape
<1> HIDE DEF k, hi, joined
<1>3. ASSUME NEW j \in 1..Len(new), j # k
      PROVE  /\ p[j] \in 1..Len(slots) /\ new[j] = slots[p[j]]
             /\ j < k => p[j] = j
             /\ k < j => hi <= p[j] /\ p[j] = j + (hi - k) - 1
  BY <1>2, <1>3
<1>4. \A i, j \in 1..Len(new) \ {k} : i < j => p[i] < p[j]
  BY <1>2
<1>5. new[k] = joined
  BY <1>2
<1>6. ASSUME NEW j \in 1..Len(new)
      PROVE  /\ j < k => End(new[j]) < new[k].offset
             /\ k < j => End(new[k]) < new[j].offset
  <2>1. j < k => j # k
    BY <1>2
  <2>2. k < j => j # k
    BY <1>2
  <2> QED
    BY <1>1, <1>3, <1>5, <2>1, <2>2
<1> HIDE DEF p
<1>7. Rearranged(slots, new, k, p)
  BY <1>3, <1>4, <1>6 DEF Rearranged
<1>8. Ordered(new)
  BY <1>7, RearrangedKeeps
<1>9. ASSUME NEW r \in Bytes, Clear(slots, r), ~Overlap(Slot(offset, n), r)
      PROVE  Clear(new, r)
  <2>1. ~Overlap(new[k], r)
    BY <1>1, <1>5, <1>9
  <2> QED
    BY <1>7, <1>9, <2>1, RearrangedKeeps
<1>10. ASSUME NEW total \in Nat, Inside(slots, total), offset + n <= total
       PROVE  Inside(new, total)
  <2>1. End(new[k]) <= total
    BY <1>1, <1>5, <1>10
  <2> QED
    BY <1>7, <1>10, <2>1, RearrangedKeeps
<1> QED
  BY <1>2, <1>8, <1>9, <1>10
=============================================================================

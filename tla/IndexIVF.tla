------------------------------ MODULE IndexIVF --------------------------------
(***************************************************************************)
(* The bookkeeping of IndexIVF (faiss/IndexIVF.cpp) over in-memory lists    *)
(* (ArrayInvertedLists of faiss/invlists/InvertedLists.cpp) with a          *)
(* DirectMap (faiss/invlists/DirectMap.cpp): which list has which vector,   *)
(* where, and what the direct map says of it.                               *)
(*                                                                          *)
(* A list is a sequence of entries [id, code]; positions count from 1 here. *)
(* A place (the code's LO) is a list and a position.  An add is done by a   *)
(* team of threads, each for its own lists; every other call is sequential. *)
(***************************************************************************)
EXTENDS Integers, SequencesExt

CONSTANTS
  NList,        \* lists
  Codes,        \* codes of vectors
  Assign,       \* the list the coarse quantizer gives a code, or -1
  Ids,          \* ids the caller may give
  NThreads,     \* threads of the team that adds
  MaxBatch,     \* bound on the vectors of a call
  MaxVectors,   \* bound on ntotal
  MaxCalls      \* bound on the number of calls

ListNos == 0..(NList - 1)

ASSUME IVFAssumption ==
  /\ {NList, NThreads, MaxBatch} \subseteq Nat \ {0}
  /\ Assign \in [Codes -> ListNos \cup {-1}]
  /\ Ids \subseteq Nat
  /\ {MaxVectors, MaxCalls} \subseteq Nat

VARIABLES
  lists, ntotal,
  type, array, hashtable,  \* the DirectMap
  next,      \* where each thread is in the batch that is added, or 0
  all_ofs,   \* DirectMapAdd: places the hash table gets at the end
  incomplete,  \* ghost: set_type threw before it was through
  call,      \* the call under way
  calls      \* calls made so far

dmVars == <<type, array, hashtable, incomplete>>
team == <<next, all_ofs>>
ivfVars == <<lists, ntotal, dmVars, team>>

Ranks == 0..(NThreads - 1)
Nowhere == <<-1, 0>>      \* -1, or lo_build(-1, 0), which is negative too
Idle == [op |-> "idle", ids |-> <<>>, codes |-> <<>>, type |-> "NoMap"]

Entry(id, code) == [id |-> id, code |-> code]
EntriesOf(ls) == UNION {ToSet(ls[l]) : l \in ListNos}
Stored == {e.id : e \in EntriesOf(lists)}

\* An empty index, whose map may have been given its type.
IVFInit ==
  /\ lists = [l \in ListNos |-> <<>>]
  /\ ntotal = 0
  /\ type \in {"NoMap", "Array", "Hashtable"}
  /\ array = <<>> /\ hashtable = <<>> /\ incomplete = FALSE
  /\ next = [r \in Ranks |-> 0] /\ all_ofs = <<>>
  /\ call = Idle /\ calls = 0

\* The caller begins a call; xids = nullptr is <<>>.
Invoke(op, ids, codes, t) ==
  /\ call = Idle /\ calls < MaxCalls
  /\ call' = [op |-> op, ids |-> ids, codes |-> codes, type |-> t]
  /\ calls' = calls + 1

Return == call' = Idle /\ UNCHANGED calls

\* A map of sequential ids takes none from the caller.
CanAdd(xids) == ~(type = "Array" /\ xids # <<>>)

\* The calls that throw before they change anything: what a kind of map does
\* not support.
Throws(c) ==
  \/ c.op \in {"add", "add_sa_codes"} /\ ~CanAdd(c.ids)
  \/ c.op = "remove" /\ type = "Array"
  \/ c.op = "remove_selected" /\ type # "NoMap"
  \/ c.op = "update" /\ type = "NoMap"
  \/ c.op = "merge_from" /\ type # "NoMap"

Throw == Throws(call) /\ Return /\ UNCHANGED ivfVars

-----------------------------------------------------------------------------
(* add_core: a team of threads                                             *)

IdOf(xids, i) == IF xids = <<>> THEN ntotal + i - 1 ELSE xids[i]

\* The constructor of DirectMapAdd, before the team starts.
BeginAdd(xids) ==
  LET n == Len(call.codes) IN
  /\ call.op = "add" /\ CanAdd(xids)
  /\ \A r \in Ranks : next[r] = 0
  /\ next' = [r \in Ranks |-> 1]
  /\ array' = IF type = "Array" THEN array \o [i \in 1..n |-> Nowhere] ELSE array
  /\ all_ofs' = IF type = "Hashtable" THEN [i \in 1..n |-> Nowhere] ELSE <<>>
  /\ UNCHANGED <<lists, ntotal, type, hashtable, incomplete, call, calls>>

\* Thread r takes the vectors of its lists, thread 0 also those without one.
Mine(r, i) ==
  LET l == Assign[call.codes[i]] IN
  IF l >= 0 THEN l % NThreads = r ELSE r = 0

Left(r) == {i \in DOMAIN call.codes : i >= next[r] /\ Mine(r, i)}

\* DirectMapAdd::add
Note(i, place) ==
  /\ array' = IF type = "Array"
              THEN [array EXCEPT ![Len(array) - Len(call.codes) + i] = place]
              ELSE array
  /\ all_ofs' = IF type = "Hashtable" THEN [all_ofs EXCEPT ![i] = place] ELSE all_ofs

AddEntry(r, xids) ==
  LET i == Min(Left(r))
      l == Assign[call.codes[i]] IN
  /\ next[r] > 0 /\ Left(r) # {}
  /\ next' = [next EXCEPT ![r] = i + 1]
  /\ IF l >= 0
     THEN /\ lists' = [lists EXCEPT ![l] =
                         Append(@, Entry(IdOf(xids, i), call.codes[i]))]
          /\ Note(i, <<l, Len(lists[l]) + 1>>)
     ELSE Note(i, Nowhere) /\ UNCHANGED lists
  /\ UNCHANGED <<ntotal, type, hashtable, incomplete, call, calls>>

Counted(codes) == Len(codes)

\* The end of the team, the new total, the destructor of DirectMapAdd.
EndAdd(xids) ==
  LET place == [id \in {xids[i] : i \in DOMAIN all_ofs} |->
                  all_ofs[CHOOSE i \in DOMAIN all_ofs : xids[i] = id]] IN
  /\ \A r \in Ranks : next[r] > 0 /\ Left(r) = {}
  /\ next' = [r \in Ranks |-> 0] /\ all_ofs' = <<>>
  /\ hashtable' = [id \in DOMAIN hashtable \cup DOMAIN place |->
                      IF id \in DOMAIN place THEN place[id] ELSE hashtable[id]]
  /\ ntotal' = ntotal + Counted(call.codes)
  /\ Return
  /\ UNCHANGED <<lists, type, array, incomplete>>

-----------------------------------------------------------------------------
(* Sequential calls that add                                               *)

\* Lists with the vectors that have one appended in their order.
Filled(ls, ids, codes) ==
  [l \in ListNos |->
     LET its == SelectSeq([i \in DOMAIN codes |-> i], LAMBDA i : Assign[codes[i]] = l) IN
     ls[l] \o [k \in DOMAIN its |-> Entry(ids[its[k]], codes[its[k]])]]

PlaceOf(ls, id) ==
  CHOOSE p \in ListNos \X (1..MaxVectors) :
    p[2] <= Len(ls[p[1]]) /\ ls[p[1]][p[2]].id = id

AddSaCodes ==
  LET ids == [i \in DOMAIN call.codes |-> IdOf(call.ids, i)]
      filled == Filled(lists, ids, call.codes) IN
  /\ call.op = "add_sa_codes" /\ ~Throws(call)
  /\ lists' = filled
  /\ array' = IF type = "Array"
              THEN array \o [i \in DOMAIN ids |-> PlaceOf(filled, ids[i])] ELSE array
  /\ hashtable' = IF type = "Hashtable"
                  THEN [id \in DOMAIN hashtable \cup ToSet(ids) |->
                          IF id \in ToSet(ids) THEN PlaceOf(filled, id) ELSE hashtable[id]]
                  ELSE hashtable
  /\ ntotal' = ntotal + Len(ids)
  /\ Return
  /\ UNCHANGED <<type, incomplete, team>>

\* The other index has been filled with call.codes; its entries come to the
\* end of the lists, their ids shifted to call.ids.
MergeFrom ==
  /\ call.op = "merge_from" /\ ~Throws(call)
  /\ lists' = Filled(lists, call.ids, call.codes)
  /\ ntotal' = ntotal + Len(call.codes)
  /\ Return
  /\ UNCHANGED <<dmVars, team>>

-----------------------------------------------------------------------------
(* DirectMap                                                               *)

\* Ids and places, list after list.
InOrder ==
  FlattenSeq([k \in 1..NList |->
    [j \in DOMAIN lists[k - 1] |-> <<lists[k - 1][j].id, <<k - 1, j>>>>]])

\* set_type: an id that is not below ntotal throws when it is met; the type
\* and what was entered before stay.
SetType ==
  LET t == call.type
      bad == {i \in DOMAIN InOrder : InOrder[i][1] >= ntotal}
      entered == IF t = "Array" /\ bad # {} THEN SubSeq(InOrder, 1, Min(bad) - 1)
                 ELSE InOrder
      place(id) == entered[CHOOSE i \in DOMAIN entered : entered[i][1] = id][2]
      ids == {entered[i][1] : i \in DOMAIN entered} IN
  /\ call.op = "set_type"
  /\ IF t = type THEN UNCHANGED dmVars
     ELSE /\ type' = t
          /\ array' = IF t # "Array" THEN <<>>
                      ELSE [i \in 1..ntotal |->
                              IF i - 1 \in ids THEN place(i - 1) ELSE Nowhere]
          /\ hashtable' = IF t = "Hashtable" THEN [id \in ids |-> place(id)] ELSE <<>>
          /\ incomplete' = (t = "Array" /\ bad # {})
  /\ Return
  /\ UNCHANGED <<lists, ntotal, team>>

\* Faulty variant: the entry moved into the hole is not tested.
ScanPast(S, a) ==
  IF a.j > a.l THEN a
  ELSE IF a.list[a.j].id \in S
  THEN [list |-> [a.list EXCEPT ![a.j] = a.list[a.l]], j |-> a.j + 1, l |-> a.l - 1]
  ELSE [a EXCEPT !.j = @ + 1]

\* One turn of the scan of a list: an entry to remove is overwritten by the
\* last one, which is then tested in its place.
ScanStep(S, a) ==
  IF a.list[a.j].id \in S
  THEN [list |-> [a.list EXCEPT ![a.j] = a.list[a.l]], j |-> a.j, l |-> a.l - 1]
  ELSE [a EXCEPT !.j = @ + 1]

Scanned(list, S) ==
  LET end == FoldLeft(LAMBDA a, e : ScanStep(S, a),
                      [list |-> list, j |-> 1, l |-> Len(list)], list) IN
  SubSeq(end.list, 1, end.l)

Size(ls) == FoldLeft(LAMBDA n, k : n + Len(ls[k - 1]), 0, [k \in 1..NList |-> k])

\* remove_ids without a map: every list is scanned.
RemoveByScan ==
  LET scanned == [l \in ListNos |-> Scanned(lists[l], ToSet(call.ids))] IN
  /\ call.op \in {"remove", "remove_selected"} /\ type = "NoMap"
  /\ lists' = scanned
  /\ ntotal' = ntotal - (Size(lists) - Size(scanned))
  /\ Return
  /\ UNCHANGED <<dmVars, team>>

\* Close the hole at a place: the last entry of the list moves there.
Closed(list, j) == Front([list EXCEPT ![j] = Last(list)])

\* Faulty variant: the entry that moved keeps its old place.
HashRemovedStale(a, id) ==
  IF id \notin DOMAIN a.hashtable THEN a
  ELSE LET p == a.hashtable[id] IN
    [lists |-> [a.lists EXCEPT ![p[1]] = Closed(@, p[2])],
     hashtable |-> [k \in DOMAIN a.hashtable \ {id} |-> a.hashtable[k]]]

HashRemoved(a, id) ==
  IF id \notin DOMAIN a.hashtable THEN a
  ELSE LET p == a.hashtable[id]
           last == Last(a.lists[p[1]]).id IN
    [lists |-> [a.lists EXCEPT ![p[1]] = Closed(@, p[2])],
     hashtable |-> [k \in DOMAIN a.hashtable \ {id} |->
                      IF k = last THEN p ELSE a.hashtable[k]]]

AllHashRemoved ==
  FoldLeft(HashRemoved, [lists |-> lists, hashtable |-> hashtable], call.ids)

RemoveByHash ==
  /\ call.op = "remove" /\ type = "Hashtable"
  /\ lists' = AllHashRemoved.lists /\ hashtable' = AllHashRemoved.hashtable
  /\ ntotal' = ntotal - (Size(lists) - Size(lists'))
  /\ Return
  /\ UNCHANGED <<type, array, incomplete, team>>

\* update_vectors with a hash table removes, and then adds if it found them
\* all; else it throws and they are gone.
UpdateByHash ==
  /\ call.op = "update" /\ type = "Hashtable"
  /\ lists' = AllHashRemoved.lists /\ hashtable' = AllHashRemoved.hashtable
  /\ ntotal' = ntotal - (Size(lists) - Size(lists'))
  /\ IF Size(lists) - Size(lists') = Len(call.ids)
     THEN call' = [call EXCEPT !.op = "add"] /\ UNCHANGED calls
     ELSE Return
  /\ UNCHANGED <<type, array, incomplete, team>>

\* update_codes: the vector leaves its list and comes to the end of another;
\* an id out of range throws, and what was done before stays.
CodeUpdated(a, i) ==
  LET id == call.ids[i] IN
  IF a.thrown \/ id >= Len(a.array) THEN [a EXCEPT !.thrown = TRUE]
  ELSE LET p == a.array[id + 1]
           id2 == Last(a.lists[p[1]]).id
           closed == [a.lists EXCEPT ![p[1]] = Closed(@, p[2])]
           l == Assign[call.codes[i]] IN
    [thrown |-> FALSE,
     lists |-> [closed EXCEPT ![l] = Append(@, Entry(id, call.codes[i]))],
     array |-> [[a.array EXCEPT ![id2 + 1] = p]
                  EXCEPT ![id + 1] = <<l, Len(closed[l]) + 1>>]]

UpdateByArray ==
  LET end == FoldLeft(CodeUpdated,
                      [thrown |-> FALSE, lists |-> lists, array |-> array],
                      [i \in DOMAIN call.ids |-> i]) IN
  /\ call.op = "update" /\ type = "Array"
  /\ lists' = end.lists /\ array' = end.array
  /\ Return
  /\ UNCHANGED <<ntotal, type, hashtable, incomplete, team>>

Reset ==
  /\ call.op = "reset"
  /\ lists' = [l \in ListNos |-> <<>>]
  /\ ntotal' = 0
  /\ array' = <<>> /\ hashtable' = <<>> /\ incomplete' = FALSE
  /\ Return
  /\ UNCHANGED <<type, team>>

-----------------------------------------------------------------------------
(* The calls a caller makes.  New vectors have ids that are free; a         *)
(* caller that lets the index number its vectors has removed none, and      *)
(* uses no hash table (DirectMapAdd then takes an uninitialised total).     *)

Batches == UNION {[1..n -> Codes] : n \in 1..MaxBatch}
IdLists == UNION {[1..n -> Ids] : n \in 1..MaxBatch}
Assigned(batch) == \A i \in DOMAIN batch : Assign[batch[i]] >= 0

FreshIds(ids) == IsInjective(ids) /\ ToSet(ids) \cap (Stored \cup DOMAIN hashtable) = {}
MayNumber == type # "Hashtable" /\ \A id \in Stored : id < ntotal

\* Ids from a number on, as merge_from gives them.
From(first, batch) == [i \in DOMAIN batch |-> first + i - 1]

InvokeIVF ==
  /\ \/ \E batch \in Batches, ids \in {<<>>} \cup IdLists,
           op \in {"add", "add_sa_codes"} :
          /\ ntotal + Len(batch) <= MaxVectors
          /\ op = "add_sa_codes" => Assigned(batch)
          /\ IF ids = <<>> THEN MayNumber
             ELSE Len(ids) = Len(batch) /\ FreshIds(ids)
          /\ Invoke(op, ids, batch, "NoMap")
     \/ \E batch \in Batches, add_id \in Ids :
          /\ ntotal + Len(batch) <= MaxVectors
          /\ ToSet(From(add_id, batch)) \subseteq Ids /\ FreshIds(From(add_id, batch))
          /\ Invoke("merge_from", From(add_id, batch), batch, "NoMap")
     \/ \E ids \in IdLists, op \in {"remove", "remove_selected"} :
          /\ \A id \in ToSet(ids) \cap DOMAIN hashtable : hashtable[id] # Nowhere
          /\ Invoke(op, ids, <<>>, "NoMap")
     \/ \E ids \in IdLists, batch \in Batches :
          /\ IsInjective(ids) /\ Len(batch) = Len(ids) /\ Assigned(batch)
          /\ ~incomplete
          /\ \A id \in ToSet(ids) :
               /\ id \in DOMAIN hashtable => hashtable[id] # Nowhere
               /\ id < Len(array) => array[id + 1] # Nowhere
          /\ Invoke("update", ids, batch, "NoMap")
     \/ \E t \in {"NoMap", "Array", "Hashtable"} : Invoke("set_type", <<>>, <<>>, t)
     \/ Invoke("reset", <<>>, <<>>, "NoMap")
  /\ UNCHANGED ivfVars

\* What a call of the index itself does.
IVFStep ==
  \/ Throw
  \/ BeginAdd(call.ids) \/ (\E r \in Ranks : AddEntry(r, call.ids)) \/ EndAdd(call.ids)
  \/ AddSaCodes \/ MergeFrom \/ SetType
  \/ RemoveByScan \/ RemoveByHash \/ UpdateByHash \/ UpdateByArray \/ Reset
=============================================================================

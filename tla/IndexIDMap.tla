----------------------------- MODULE IndexIDMap -------------------------------
(***************************************************************************)
(* IndexIDMap2 (faiss/IndexIDMap.cpp) over a flat index (IndexFlatCodes) or *)
(* over an IndexIVF, and an IndexIVF used alone, as stores of vectors.      *)
(*                                                                          *)
(* The vector at position i of the sub-index (from 1 here) has the id       *)
(* id_map[i] for the caller; rev_map leads back.                            *)
(***************************************************************************)
EXTENDS IndexIVF

VARIABLES
  kind,        \* "ivf" alone; IndexIDMap2 over "flat" or "map_ivf"
  flat,        \* the codes of the flat index
  id_map, rev_map

mapVars == <<flat, id_map, rev_map>>
vars == <<ivfVars, kind, mapVars, call, calls>>

Init ==
  /\ IVFInit
  /\ kind \in {"ivf", "flat", "map_ivf"}
  /\ kind = "flat" => type = "NoMap"          \* has no map
  /\ kind = "map_ivf" => type # "Hashtable"   \* adds without ids
  /\ flat = <<>> /\ id_map = <<>> /\ rev_map = <<>>

Positions(map) == [id \in ToSet(map) |-> CHOOSE i \in DOMAIN map : map[i] = id]

\* Every old key stays, new ones lead to the new positions.
Extended(ids) ==
  [id \in DOMAIN rev_map \cup ToSet(ids) |->
     IF id \in ToSet(ids) THEN Positions(id_map \o ids)[id] ELSE rev_map[id]]

\* add_with_ids and merge_from, when the sub-index has its vectors.
MapMore(ids) == id_map' = id_map \o ids /\ rev_map' = Extended(ids)

FlatAdd ==
  /\ kind = "flat" /\ call.op \in {"add", "merge_from"}
  /\ flat' = flat \o call.codes
  /\ MapMore(call.ids)
  /\ Return
  /\ UNCHANGED <<ivfVars, kind>>

\* The sub-index numbers the vectors; a vector without a list has an id too.
MappedIVFAdd ==
  /\ kind = "map_ivf" /\ call.op = "add"
  /\ \/ (BeginAdd(<<>>) \/ \E r \in Ranks : AddEntry(r, <<>>)) /\ UNCHANGED mapVars
     \/ EndAdd(<<>>) /\ MapMore(call.ids) /\ UNCHANGED flat
  /\ UNCHANGED kind

\* The positions that stay, in order, and what stands there.
Stay == SelectSeq([i \in DOMAIN id_map |-> i], LAMBDA i : id_map[i] \notin ToSet(call.ids))
Keep(seq) == [i \in DOMAIN Stay |-> seq[Stay[i]]]

\* Faulty variant: the reverse map is not made again.
FlatRemoveOneWay ==
  /\ kind = "flat" /\ call.op \in {"remove", "remove_selected"}
  /\ flat' = Keep(flat)
  /\ id_map' = Keep(id_map)
  /\ Return
  /\ UNCHANGED <<ivfVars, kind, rev_map>>

\* The sub-index is asked through IDSelectorTranslated; what stays keeps its
\* order in both; construct_rev_map.
FlatRemove ==
  /\ kind = "flat" /\ call.op \in {"remove", "remove_selected"}
  /\ flat' = Keep(flat)
  /\ id_map' = Keep(id_map)
  /\ rev_map' = Positions(id_map')
  /\ Return
  /\ UNCHANGED <<ivfVars, kind>>

\* IndexIDMap::reset, which IndexIDMap2 inherits: rev_map stays.
MapReset ==
  /\ call.op = "reset"
  /\ \/ kind = "map_ivf" /\ Reset /\ UNCHANGED flat
     \/ kind = "flat" /\ flat' = <<>> /\ Return /\ UNCHANGED ivfVars
  /\ id_map' = <<>>
  /\ UNCHANGED <<kind, rev_map>>

-----------------------------------------------------------------------------
\* remove_ids is "adapted to IndexFlat" (IndexIDMap.h): it is not called over
\* an IndexIVF, whose ids are not positions after it, nor is merge_from, which
\* gives the sub-index no add_id.
InvokeMap ==
  /\ \/ \E batch \in Batches, ids \in IdLists :
          /\ Len(ids) = Len(batch)
          /\ Len(id_map) + Len(batch) <= MaxVectors
          /\ IsInjective(ids) /\ ToSet(ids) \cap ToSet(id_map) = {}
          /\ \/ Invoke("add", ids, batch, "NoMap")
             \/ kind = "flat" /\ Invoke("merge_from", ids, batch, "NoMap")
     \/ \E ids \in IdLists : kind = "flat" /\ Invoke("remove_selected", ids, <<>>, "NoMap")
     \/ Invoke("reset", <<>>, <<>>, "NoMap")
  /\ UNCHANGED <<ivfVars, kind, mapVars>>

Step ==
  \/ kind = "ivf" /\ IVFStep /\ UNCHANGED <<kind, mapVars>>
  \/ FlatAdd \/ MappedIVFAdd \/ FlatRemove \/ (kind # "ivf" /\ MapReset)

Next ==
  \/ kind = "ivf" /\ InvokeIVF /\ UNCHANGED <<kind, mapVars>>
  \/ kind # "ivf" /\ InvokeMap
  \/ Step

\* The team that adds is scheduled.
Spec == Init /\ [][Next]_vars /\ WF_vars(Step)

-----------------------------------------------------------------------------
(* Properties                                                              *)

Places == (ListNos \X (1..MaxVectors)) \cup {Nowhere}

\* The shape of the state; between calls a map of sequential ids has one
\* place for each vector that was counted, with a list or without.
TypeOK ==
  /\ \A l \in ListNos : \A j \in DOMAIN lists[l] :
       lists[l][j].id \in Nat /\ Assign[lists[l][j].code] = l
  /\ ntotal \in 0..MaxVectors
  /\ type \in {"NoMap", "Array", "Hashtable"}
  /\ ToSet(array) \subseteq Places
  /\ \A id \in DOMAIN hashtable : id \in Ids /\ hashtable[id] \in Places
  /\ type = "Array" /\ call = Idle => Len(array) = ntotal
  /\ type # "Array" => array = <<>>
  /\ type # "Hashtable" => hashtable = <<>>
  /\ next \in [Ranks -> 0..(MaxBatch + 1)]
  /\ Len(flat) <= MaxVectors /\ Len(id_map) <= MaxVectors
  /\ calls \in 0..MaxCalls

\* The entry a place leads to has that id.
Leads(p, id) ==
  p # Nowhere => p[2] <= Len(lists[p[1]]) /\ lists[p[1]][p[2]].id = id

\* Between calls the direct map leads from each id to its vector and to no
\* other, whatever removals and updates have swapped within the lists; and no
\* id is stored twice.
DirectMapExact ==
  call = Idle =>
    /\ Cardinality(Stored) = Size(lists)
    /\ \A i \in DOMAIN array : Leads(array[i], i - 1)
    /\ \A id \in DOMAIN hashtable : Leads(hashtable[id], id)
    /\ ~incomplete => \A id \in Stored :
         /\ type = "Array" => array[id + 1] # Nowhere
         /\ type = "Hashtable" => hashtable[id] # Nowhere

\* Between calls id_map has one id for each vector of the sub-index, all
\* different, and rev_map leads each of them back to its position (after reset
\* it may also hold others).
RevMapInverts ==
  call = Idle =>
    /\ Len(id_map) = (IF kind = "flat" THEN Len(flat) ELSE IF kind = "map_ivf" THEN ntotal ELSE 0)
    /\ IsInjective(id_map)
    /\ \A i \in DOMAIN id_map : id_map[i] \in DOMAIN rev_map /\ rev_map[id_map[i]] = i

\* The maps of an IndexIDMap2 are in order, and so are those below them.
MapsInOrder == TypeOK /\ RevMapInverts

\* What the caller can find: a vector of the sub-index whose position has an id.
CodeOf(id) == (CHOOSE e \in EntriesOf(lists) : e.id = id).code
Contents ==
  CASE kind = "ivf" -> [id \in Stored |-> CodeOf(id)]
    [] kind = "flat" -> [u \in ToSet(id_map) |-> flat[Positions(id_map)[u]]]
    [] kind = "map_ivf" ->
         [u \in {id_map[i] : i \in {j \in DOMAIN id_map : j - 1 \in Stored}} |->
            CodeOf(Positions(id_map)[u] - 1)]

\* The call as the caller means it.
Meant ==
  LET named == [i \in DOMAIN call.codes |-> IdOf(call.ids, i)]
      op == CASE call.op = "idle" -> "idle"
              [] kind = "ivf" /\ Throws(call) -> "none"
              [] call.op \in {"add", "add_sa_codes", "merge_from"} -> "put"
              [] call.op = "update" -> "replace"
              [] call.op \in {"remove", "remove_selected"} -> "delete"
              [] call.op = "reset" -> "clear"
              [] call.op = "set_type" -> "none"
      stored == {i \in DOMAIN named : kind = "flat" \/ Assign[call.codes[i]] >= 0} IN
  [op |-> op,
   vectors |-> IF op \notin {"put", "replace"} THEN <<>>
               ELSE [id \in {named[i] : i \in stored} |->
                       call.codes[CHOOSE i \in stored : named[i] = id]],
   ids |-> IF op = "delete" THEN ToSet(call.ids) ELSE {}]

V == INSTANCE VectorStore WITH store <- Contents, call <- Meant

\* The index is a store of vectors: calls change what they name and nothing
\* else, each vector added is there once it is added, under its id, and every
\* call returns.
StoreImplemented == V!FairSpec
=============================================================================

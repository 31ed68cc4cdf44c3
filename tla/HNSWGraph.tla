----------------------------- MODULE HNSWGraph -------------------------------
(***************************************************************************)
(* The neighbor tables of faiss/impl/HNSW.cpp and the operations on them    *)
(* that take no lock, as operators: the neighbors of a node at a level, the *)
(* greedy descent, the heuristic that prunes neighbors, and add_link.       *)
(*                                                                          *)
(* A table maps <<node, level>> to the slots neighbor_range gives, of which *)
(* the unused ones hold -1 (None).  Levels count from 0; the code's vector  *)
(* levels holds this number plus one.                                       *)
(***************************************************************************)
EXTENDS Integers, SequencesExt

CONSTANTS
  Nodes,         \* storage ids
  Level,         \* the level of each node
  NbNeighbors,   \* slots of a node at each level
  Distance       \* distance between two nodes, a point and a query being one

None == -1

ASSUME GraphAssumption ==
  /\ IsFiniteSet(Nodes) /\ Nodes # {} /\ Nodes \subseteq Nat
  /\ Level \in [Nodes -> Nat]
  /\ DOMAIN NbNeighbors = 0..Max({Level[v] : v \in Nodes})
  /\ \A l \in DOMAIN NbNeighbors : NbNeighbors[l] \in Nat \ {0}
  /\ Distance \in [Nodes \X Nodes -> Nat]
  \* the order of a priority queue is not defined among equals
  /\ \A q, v, w \in Nodes : Distance[<<q, v>>] = Distance[<<q, w>>] => v = w

Levels == DOMAIN NbNeighbors

\* neighbor_range gives slots of the node itself only at its own levels.
InRange(v, l) == l <= Level[v]

EmptyTable == [vl \in Nodes \X Levels |-> [i \in 1..NbNeighbors[vl[2]] |-> None]]

\* The neighbors a reader sees: it stops at the first free slot.
Used(slots) ==
  LET free == {i \in DOMAIN slots : slots[i] = None} IN
  IF free = {} THEN slots ELSE SubSeq(slots, 1, Min(free) - 1)

-----------------------------------------------------------------------------
Closer(q, v, w) == Distance[<<q, v>>] < Distance[<<q, w>>]

Nearest(q, S) == CHOOSE v \in S : \A w \in S : ~Closer(q, w, v)
Farthest(q, S) == CHOOSE v \in S : \A w \in S : ~Closer(q, v, w)

\* What a priority queue holds when all but the n nearest are popped.
NearestOf(q, S, n) == {v \in S : Cardinality({w \in S : Closer(q, w, v)}) < n}

\* The order in which a queue whose top is the farthest is emptied.
FarthestFirst(q, S) ==
  [i \in 1..Cardinality(S) |->
     CHOOSE v \in S : Cardinality({w \in S : Closer(q, v, w)}) = i - 1]

\* greedy_update_nearest at one level: go to the nearest neighbor as long as
\* that is nearer to q.
GreedyUpdateNearest(table, q, l, start) ==
  LET best(v) == Nearest(q, {v} \cup ToSet(Used(table[<<v, l>>])))
      walk[v \in Nodes] == IF best(v) = v THEN v ELSE walk[best(v)] IN
  walk[start]

\* The descent of add_with_locks and search, from level top down to level
\* bottom + 1.
Descend(table, q, start, top, bottom) ==
  LET at[l \in (bottom + 1)..top] ==
        GreedyUpdateNearest(table, q, l,
                            IF l = top THEN start ELSE at[l + 1]) IN
  IF top <= bottom THEN start ELSE at[bottom + 1]

-----------------------------------------------------------------------------
\* HNSW::shrink_neighbor_list: nearest first, a node is good if no good node
\* before it is nearer to it than q is...
Good(q, S) ==
  LET good[v \in S] ==
        \A w \in S : Closer(q, w, v) /\ good[w] =>
                       Distance[<<w, v>>] >= Distance[<<q, v>>] IN
  {v \in S : good[v]}

\* ... the first max_size of the good ones are kept; with
\* keep_max_size_level0 others fill what room is left.
Pruned(q, S, max_size, keep) ==
  LET good == Good(q, S)
      kept == NearestOf(q, good, max_size) IN
  IF keep THEN kept \cup NearestOf(q, S \ good, max_size - Cardinality(kept))
          ELSE kept

\* The wrapper that leaves a short list alone.
ShrinkNeighborList(q, S, max_size, keep) ==
  IF Cardinality(S) < max_size THEN S ELSE Pruned(q, S, max_size, keep)

\* Faulty variant: what the list held fights without dest.
RewrittenWithout(slots, src, dest, keep) ==
  LET kept == FarthestFirst(src,
                ShrinkNeighborList(src, ToSet(slots), Len(slots), keep)) IN
  [i \in DOMAIN slots |-> IF i <= Len(kept) THEN kept[i] ELSE None]

\* The list add_link leaves at src when dest is added to a full list: what
\* the heuristic keeps of both, farthest first, then free slots.
Rewritten(slots, src, dest, keep) ==
  LET kept == FarthestFirst(src,
                ShrinkNeighborList(src, ToSet(slots) \cup {dest},
                                   Len(slots), keep)) IN
  [i \in DOMAIN slots |-> IF i <= Len(kept) THEN kept[i] ELSE None]

Full(slots) == slots[Len(slots)] # None

\* Faulty variant: dest goes to the last slot.
AppendedLast(slots, dest) == [slots EXCEPT ![Len(slots)] = dest]

\* The slots after the last used one take dest.
Appended(slots, dest) ==
  LET last == Max({0} \cup {i \in DOMAIN slots : slots[i] # None}) IN
  [slots EXCEPT ![last + 1] = dest]

\* add_link, when nobody else sees the list in between.
AddLink(slots, src, dest, keep) ==
  IF Full(slots) THEN Rewritten(slots, src, dest, keep)
                 ELSE Appended(slots, dest)

\* add_link of each of dests in turn.
AddLinks(slots, src, dests, keep) ==
  LET filled[i \in 0..Len(dests)] ==
        IF i = 0 THEN slots
        ELSE AddLink(filled[i - 1], src, dests[i], keep) IN
  filled[Len(dests)]
=============================================================================

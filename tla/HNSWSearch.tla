----------------------------- MODULE HNSWSearch ------------------------------
(***************************************************************************)
(* One thread of IndexHNSW::search or navix_search: it answers queries on a  *)
(* finished graph, one after the other, with the same VisitedTable           *)
(* (faiss/impl/HNSW.cpp).  Four ways to search level 0, each iteration of    *)
(* whose loop is an action:                                                  *)
(*   bounded    search_from_candidates, with check_relative_distance         *)
(*   steps      search_from_candidates, which counts its steps instead       *)
(*   unbounded  search_from_candidate_unbounded                              *)
(*   navix      navix_hybrid_search, which filters with a mask               *)
(*                                                                           *)
(* The order of the pushes of one iteration is that of the neighbor lists.   *)
(* Among entries of a MinimaxHeap with the same distance, which are copies   *)
(* of one node here, the later copy is popped first.                         *)
(***************************************************************************)
EXTENDS HNSWGraph

CONSTANTS
  Tables,        \* neighbor tables that may have been built
  EntryPoint,    \* a node of the highest level
  Queries,       \* the points that are searched
  K,             \* results asked for
  EfSearches,    \* values of efSearch
  Selections,    \* what an IDSelector or a mask may let through
  Methods,       \* the ways to search that are used
  StartNodes,    \* how many nodes navix takes from the mask: 10 in the code
  CostPercent,   \* cost of a full two-hop distance: 40 in the code
  VisitedLimit   \* visno at which the table is cleared: 250 in the code

ASSUME SearchAssumption ==
  /\ Tables \subseteq [Nodes \X Levels -> Seq(Nodes \cup {None})]
  /\ EntryPoint \in Nodes /\ \A v \in Nodes : Level[v] <= Level[EntryPoint]
  /\ Queries \subseteq Nodes /\ K \in Nat \ {0}
  /\ EfSearches \subseteq Nat \ {0}
  /\ Selections \subseteq SUBSET Nodes
  /\ Methods \subseteq {"bounded", "steps", "unbounded", "navix"}
  /\ StartNodes \in Nat \ {0} /\ CostPercent \in Nat
  /\ VisitedLimit \in Nat /\ VisitedLimit > 1

VARIABLES
  table,      \* HNSW::neighbors
  query,      \* the parameters of the search under way
  pc,         \* "idle", "enter", "loop" or "done"
  heap,       \* candidates: a MinimaxHeap
  frontier,   \* candidates of the unbounded search
  top,        \* its top_candidates
  results,    \* the ResultHandler's heap, nearest first
  nstep,      \* iterations of the loop: nstep or stats.nhops
  visited,    \* VisitedTable::visited...
  visno       \* ...and the mark that means "visited" now

search == <<heap, frontier, top, results, nstep, visited>>
vars == <<table, query, pc, search, visno>>

-----------------------------------------------------------------------------
(* MinimaxHeap: entries keep their distance when pop_min takes their id.    *)
Entries == Nodes \X (1..2)

EmptyHeap == [held |-> {}, holes |-> {}, nvalid |-> 0]

Size == Cardinality(heap.held)
Valid(h) == h.held \ h.holes
Max2(m, n) == IF m > n THEN m ELSE n
Ef == Max2(query.ef, K)

Further(e, f) == Closer(query.q, f[1], e[1]) \/ (e[1] = f[1] /\ e[2] > f[2])
TopOf(h) == CHOOSE e \in h.held : \A f \in h.held \ {e} : Further(e, f)

Copy(h, v) == <<v, 1 + Cardinality({e \in h.held : e[1] = v})>>

\* Faulty variant: what the full heap drops always counts.
PushCounting(h, v) ==
  IF Cardinality(h.held) < Ef
  THEN [h EXCEPT !.held = @ \cup {Copy(h, v)}, !.nvalid = @ + 1]
  ELSE LET e == TopOf(h) IN
       IF ~Closer(query.q, v, e[1]) THEN h
       ELSE [held |-> (h.held \ {e}) \cup {Copy(h, v)}, holes |-> h.holes \ {e},
             nvalid |-> h.nvalid]

\* Faulty variant: the last place of the heap is never used.
PushShort(h, v) ==
  IF Cardinality(h.held) + 1 < Ef
  THEN [h EXCEPT !.held = @ \cup {Copy(h, v)}, !.nvalid = @ + 1]
  ELSE h

\* MinimaxHeap::push
Push(h, v) ==
  IF Cardinality(h.held) < Ef
  THEN [h EXCEPT !.held = @ \cup {Copy(h, v)}, !.nvalid = @ + 1]
  ELSE LET e == TopOf(h) IN
       IF ~Closer(query.q, v, e[1]) THEN h
       ELSE [held |-> (h.held \ {e}) \cup {Copy(h, v)}, holes |-> h.holes \ {e},
             nvalid |-> h.nvalid + IF e \in h.holes THEN 1 ELSE 0]

MinOf(h) == CHOOSE e \in Valid(h) : \A f \in Valid(h) \ {e} : Further(f, e)
PopMin(h) == [h EXCEPT !.holes = @ \cup {MinOf(h)}, !.nvalid = @ - 1]

CountBelow(h, v) == Cardinality({e \in h.held : Closer(query.q, e[1], v)})

-----------------------------------------------------------------------------
(* Results and visited nodes.                                               *)

\* Faulty variant: a full heap of results takes no nearer one.
AddResultIfRoom(r, v) ==
  IF Len(r) < K
  THEN InsertAt(r, 1 + Cardinality({i \in DOMAIN r : ~Closer(query.q, v, r[i])}), v)
  ELSE r

\* add_result, with the test of the threshold that each caller makes first
AddResult(r, v) ==
  IF Len(r) = K /\ ~Closer(query.q, v, r[K]) THEN r
  ELSE LET i == 1 + Cardinality({j \in DOMAIN r : ~Closer(query.q, v, r[j])})
           s == InsertAt(r, i, v) IN
       SubSeq(s, 1, IF Len(s) > K THEN K ELSE Len(s))

Admitted(s) == SelectSeq(s, LAMBDA v : v \in query.sel)

\* FoldLeft, whose definition goes through the subsets of the list's domain
Over(op(_, _), base, s) ==
  LET upTo[i \in 0..Len(s)] == IF i = 0 THEN base ELSE op(upTo[i - 1], s[i]) IN
  upTo[Len(s)]

\* candidates and results, a whole list of nodes later
PushAll(h, s) == Over(Push, h, s)
AddAll(r, s) == Over(AddResult, r, Admitted(s))

Seen == {v \in Nodes : visited[v] = visno}
Unseen(s) == SelectSeq(s, LAMBDA v : v \notin Seen)

\* Faulty variant: nodes that the search does not admit are not marked.
MarkAdmitted(S) ==
  visited' = [v \in Nodes |-> IF v \in S \cap query.sel THEN visno ELSE visited[v]]

Mark(S) == visited' = [v \in Nodes |-> IF v \in S THEN visno ELSE visited[v]]

\* Faulty variant: the marks of the last round are not cleared.
AdvanceUncleared ==
  /\ visno' = IF visno + 1 = VisitedLimit THEN 1 ELSE visno + 1
  /\ UNCHANGED visited

\* VisitedTable::advance
Advance ==
  IF visno + 1 = VisitedLimit
  THEN visno' = 1 /\ visited' = [v \in Nodes |-> 0]
  ELSE visno' = visno + 1 /\ UNCHANGED visited

-----------------------------------------------------------------------------
Idle == [method |-> "none", q |-> EntryPoint, ef |-> 1, sel |-> {}]

Init ==
  /\ table \in Tables /\ query = Idle /\ pc = "idle"
  /\ heap = EmptyHeap /\ frontier = {} /\ top = {} /\ results = <<>> /\ nstep = 0
  /\ visited = [v \in Nodes |-> 0] /\ visno = 1

Ask ==
  /\ pc = "idle"
  /\ \E m \in Methods, q \in Queries, ef \in EfSearches, sel \in Selections :
        query' = [method |-> m, q |-> q, ef |-> ef, sel |-> sel]
  /\ pc' = "enter"
  /\ UNCHANGED <<table, search, visno>>

\* Where the descent through the upper levels ends.
Start == Descend(table, query.q, EntryPoint, Level[EntryPoint], 0)
List0(v) == Used(table[<<v, 0>>])

\* navix_add_filtered_nodes_to_candidates takes the first ones of the mask.
FirstAdmitted ==
  SelectSeq(SetToSortSeq(query.sel, <),
            LAMBDA v : Cardinality({w \in query.sel : w < v}) < StartNodes)

EnterBounded ==
  /\ query.method \in {"bounded", "steps"}
  /\ heap' = Push(heap, Start)
  /\ results' = AddAll(results, <<Start>>)
  /\ Mark({Start})
  /\ UNCHANGED <<frontier, top>>

EnterUnbounded ==
  /\ query.method = "unbounded"
  /\ frontier' = {Start} /\ top' = {Start}
  /\ Mark({Start})
  /\ UNCHANGED <<heap, results>>

EnterNavix ==
  /\ query.method = "navix"
  /\ heap' = PushAll(Push(heap, Start), FirstAdmitted)
  /\ results' = AddAll(results, <<Start>> \o FirstAdmitted)
  /\ Mark(ToSet(Admitted(<<Start>>) \o FirstAdmitted))
  /\ UNCHANGED <<frontier, top>>

Enter ==
  /\ pc = "enter"
  /\ pc' = "loop" /\ nstep' = 0
  /\ EnterBounded \/ EnterUnbounded \/ EnterNavix
  /\ UNCHANGED <<table, query, visno>>

-----------------------------------------------------------------------------
(* The loops.                                                               *)

\* Enough distances below that of the entry that is popped.
Covered ==
  /\ query.method # "steps" /\ heap.nvalid > 0
  /\ CountBelow(heap, MinOf(heap)[1]) >= query.ef

StopBounded ==
  /\ pc = "loop" /\ query.method # "unbounded"
  /\ heap.nvalid > 0 => Covered \/ (query.method = "steps" /\ nstep > query.ef)
  /\ pc' = "done"
  /\ UNCHANGED <<table, query, search, visno>>

\* The nearest candidate is no use, and the results are handed over.
StopUnbounded ==
  /\ pc = "loop" /\ query.method = "unbounded"
  /\ frontier # {} =>
       Closer(query.q, Farthest(query.q, top), Nearest(query.q, frontier))
  /\ pc' = "done"
  /\ results' = Over(AddResult, results,
                     FarthestFirst(query.q, NearestOf(query.q, top, K)))
  /\ UNCHANGED <<table, query, heap, frontier, top, nstep, visited, visno>>

Stop == StopBounded \/ StopUnbounded

MayExpand ==
  /\ pc = "loop" /\ query.method # "unbounded"
  /\ heap.nvalid > 0 /\ ~Covered /\ ~(query.method = "steps" /\ nstep > query.ef)

\* An iteration of search_from_candidates: all nodes are candidates, those
\* the selector admits are results.
ExpandBounded ==
  /\ MayExpand /\ query.method \in {"bounded", "steps"}
  /\ LET new == Unseen(List0(MinOf(heap)[1])) IN
     /\ heap' = PushAll(PopMin(heap), new)
     /\ results' = AddAll(results, new)
     /\ Mark(Seen \cup ToSet(new))
  /\ nstep' = nstep + 1
  /\ UNCHANGED <<table, query, pc, frontier, top, visno>>

\* add_to_heap of the unbounded search, for one neighbor
Offered(f, v) ==
  IF Closer(query.q, v, Farthest(query.q, f.top)) \/ Cardinality(f.top) < Ef
  THEN [frontier |-> f.frontier \cup {v},
        top |-> NearestOf(query.q, f.top \cup {v}, Ef)]
  ELSE f

ExpandUnbounded ==
  /\ pc = "loop" /\ query.method = "unbounded" /\ frontier # {}
  /\ LET v0 == Nearest(query.q, frontier)
         new == Unseen(List0(v0))
         after == Over(Offered, [frontier |-> frontier \ {v0}, top |-> top], new) IN
     /\ ~Closer(query.q, Farthest(query.q, top), v0)
     /\ frontier' = after.frontier /\ top' = after.top
     /\ Mark(Seen \cup ToSet(new))
  /\ nstep' = nstep + 1
  /\ UNCHANGED <<table, query, pc, heap, results, visno>>

-----------------------------------------------------------------------------
(* navix: which nodes an iteration computes the distance to, in order       *)
(* (nodes) and which it marks (seen).                                       *)

OneHop(v0) ==
  LET nodes == Unseen(Admitted(List0(v0))) IN
  [nodes |-> nodes, seen |-> Seen \cup ToSet(nodes)]

\* One node after the other: itself if it is admitted, then its neighbors.
TakeUnseen(s, v) ==
  IF v \in query.sel \ s.seen
  THEN [s EXCEPT !.nodes = Append(@, v), !.seen = @ \cup {v}] ELSE s

FullTwoHop(v0) ==
  Over(TakeUnseen, [nodes |-> <<>>, seen |-> Seen],
           Over(LAMBDA s, v : s \o <<v>> \o List0(v), <<>>, List0(v0)))

\* The neighbors, then those of the nearest neighbors that are not admitted,
\* until total admitted ones have been met.
Directed(v0) ==
  LET nbrs == List0(v0)
      new == Unseen(nbrs)
      first == [nodes |-> Admitted(new), seen |-> Seen \cup ToSet(Admitted(new)),
                met |-> Len(Admitted(nbrs))]
      explore(s, v) ==
        IF s.met >= Len(nbrs) \/ v \in s.seen THEN s
        ELSE LET next == Over(TakeUnseen, [s EXCEPT !.seen = @ \cup {v}], List0(v))
             IN [next EXCEPT !.met = @ + Len(Admitted(List0(v)))] IN
  Over(explore, first, Reverse(FarthestFirst(query.q, ToSet(new))))

\* The local selectivity decides.
Hops(v0) ==
  LET total == Len(List0(v0))
      filtered == Len(Admitted(List0(v0))) IN
  IF total > 0 /\ 2 * filtered >= total THEN OneHop(v0)
  ELSE IF CostPercent * (total * filtered + filtered) > 100 * (2 * total - filtered)
  THEN Directed(v0) ELSE FullTwoHop(v0)

\* An iteration of navix_hybrid_search.
ExpandNavix ==
  /\ MayExpand /\ query.method = "navix"
  /\ LET hops == Hops(MinOf(heap)[1]) IN
     /\ heap' = PushAll(PopMin(heap), hops.nodes)
     /\ results' = AddAll(results, hops.nodes)
     /\ Mark(hops.seen)
  /\ nstep' = nstep + 1
  /\ UNCHANGED <<table, query, pc, frontier, top, visno>>

\* The caller takes the results and advances the table.
Answer ==
  /\ pc = "done"
  /\ pc' = "idle" /\ query' = Idle
  /\ heap' = EmptyHeap /\ frontier' = {} /\ top' = {} /\ results' = <<>> /\ nstep' = 0
  /\ Advance
  /\ UNCHANGED table

Expand == ExpandBounded \/ ExpandUnbounded \/ ExpandNavix

Next == Ask \/ Enter \/ Stop \/ Expand \/ Answer

Spec == Init /\ [][Next]_vars

-----------------------------------------------------------------------------
\* The state is of the expected types: in particular nvalid is the number of
\* entries that still have an id, so that a loop that tests size() never pops
\* -1 and takes the neighbors of that.
TypeOK ==
  /\ table \in [Nodes \X Levels -> Seq(Nodes \cup {None})]
  /\ pc \in {"idle", "enter", "loop", "done"}
  /\ heap.held \subseteq Entries /\ heap.holes \subseteq heap.held
  /\ heap.nvalid = Cardinality(Valid(heap)) /\ Size <= Ef
  /\ frontier \subseteq Nodes /\ top \subseteq Nodes
  /\ results \in Seq(Nodes) /\ Len(results) <= K /\ nstep \in Nat
  /\ visited \in [Nodes -> 0..VisitedLimit - 1] /\ visno \in 1..VisitedLimit - 1

\* A MinimaxHeap of which entries are popped and dropped in any order still
\* holds the distances of the ef nearest nodes it was given: count_below, which
\* ends the search, counts what it should.
HeapHoldsNearest ==
  pc \in {"loop", "done"} /\ query.method \in {"bounded", "steps"} =>
    {e[1] : e \in heap.held} = NearestOf(query.q, Seen, Ef) /\ Size = Cardinality({e[1] : e \in heap.held})

\* What a search returns are the k nearest of the nodes it has visited and
\* admits, nearest first.  The unbounded search admits all: it looks at no
\* selector, though Index.h (line 65) promises that only its ids are considered.
\* Navix may return its starting node twice, since
\* navix_add_filtered_nodes_to_candidates adds it again, but loses nothing else.
ResultsNearest ==
  pc = "done" =>
    LET admitted == Seen \cap (IF query.method = "unbounded" THEN Nodes ELSE query.sel)
        twice == IF Len(results) > Cardinality(ToSet(results)) THEN 1 ELSE 0 IN
    /\ ToSet(results) = NearestOf(query.q, admitted, K - twice)
    /\ \A i \in 1..Len(results) - 1 : ~Closer(query.q, results[i + 1], results[i])
    /\ twice = 1 => query.method = "navix"
                    /\ Cardinality({i \in DOMAIN results : results[i] = Start}) = 2

Reached ==
  LET within[n \in 0..Cardinality(Nodes)] ==
        IF n = 0 THEN {Start}
        ELSE within[n - 1] \cup UNION {ToSet(List0(v)) : v \in within[n - 1]} IN
  within[Cardinality(Nodes)]

\* With efSearch as large as the index, all the ways to search that do not
\* filter hops return the same: the k nearest of the nodes reached from the
\* starting one, whatever was searched before with the same table.
WideSearchExact ==
  pc = "done" /\ query.method # "navix" /\ query.ef >= Cardinality(Nodes) =>
    ToSet(results) = NearestOf(query.q,
                       IF query.method = "unbounded" THEN Reached
                                                     ELSE Reached \cap query.sel, K)

\* A search ends: no node is a candidate again and again, whichever hops the
\* filter makes navix take.  It expands each node once, and its starting node
\* once more, which navix may push twice.
SearchEnds ==
  nstep <= Cardinality(Nodes) + IF query.method = "navix" THEN 1 ELSE 0
=============================================================================

----------------------------- MODULE HNSWBuild -------------------------------
(***************************************************************************)
(* The parallel construction of an HNSW graph: hnsw_add_vertices of         *)
(* faiss/IndexHNSW.cpp and add_with_locks, search_neighbors_to_add,         *)
(* add_links_starting_from and add_link of faiss/impl/HNSW.cpp.             *)
(*                                                                          *)
(* A call of hnsw_add_vertices adds a set of nodes, one bucket of equal     *)
(* level after the other from the highest level down; the nodes of a bucket *)
(* are added by threads that share entry_point, max_level and the tables.   *)
(* A node's lock protects its lists against writers; readers take no lock,  *)
(* so that one who reads a list while it is rewritten sees, slot by slot,   *)
(* what was there or what comes.                                            *)
(***************************************************************************)
EXTENDS HNSWGraph

CONSTANTS
  Threads,
  Calls,            \* the node sets of successive calls, a sequence
  EfConstruction,
  KeepMaxSizeLevel0,
  ParallelAbove     \* a bucket of at most this many nodes has one thread

ASSUME BuildAssumption ==
  /\ Threads # {}
  /\ Calls \in Seq(SUBSET Nodes)
  /\ UNION {Calls[i] : i \in DOMAIN Calls} = Nodes
  /\ \A i, j \in DOMAIN Calls : i # j => Calls[i] \cap Calls[j] = {}
  /\ EfConstruction \in Nat \ {0}
  /\ KeepMaxSizeLevel0 \in BOOLEAN
  /\ ParallelAbove \in Nat

VARIABLES
  entry_point, max_level,
  neighbors,     \* the table
  locks,         \* who holds each node's lock: nobody or one thread
  callNo,        \* the call of hnsw_add_vertices that runs
  bucket,        \* its bucket, a level
  todo,          \* nodes of the bucket no thread has taken
  pc,            \* where each thread is
  pt_id,         \* the node each thread adds
  nearest,       \* where its search starts
  level,         \* the level it links
  candidates, results, visited,  \* its search
  targets,       \* the neighbors it still has to link back, farthest first
  pending        \* what it writes to the slots of the next target, or <<>>

shared == <<entry_point, max_level>>
work == <<callNo, bucket, todo>>
place == <<pt_id, nearest, level>>
search == <<candidates, results, visited>>
vars == <<shared, neighbors, locks, work, pc, place, search, targets, pending>>

InBucket(c, l) == {v \in Calls[c] : Level[v] = l}

Init ==
  /\ entry_point = None /\ max_level = -1
  /\ neighbors = EmptyTable
  /\ locks = [v \in Nodes |-> {}]
  /\ callNo = 1
  /\ bucket = Max(Levels)
  /\ todo = InBucket(1, bucket)
  /\ pc = [t \in Threads |-> "idle"]
  /\ pt_id = [t \in Threads |-> None]
  /\ nearest = [t \in Threads |-> None]
  /\ level = [t \in Threads |-> -1]
  /\ candidates = [t \in Threads |-> {}]
  /\ results = [t \in Threads |-> {}]
  /\ visited = [t \in Threads |-> {}]
  /\ targets = [t \in Threads |-> <<>>]
  /\ pending = [t \in Threads |-> <<>>]

Goto(t, s) == pc' = [pc EXCEPT ![t] = s]
Set(f, t, x) == [f EXCEPT ![t] = x]

-----------------------------------------------------------------------------
(* hnsw_add_vertices                                                       *)

Idle == \A t \in Threads : pc[t] = "idle"

\* omp parallel if (i1 > i0 + 100): a small bucket has one thread.
MayRun(t) ==
  \/ Cardinality(InBucket(callNo, bucket)) > ParallelAbove
  \/ t = CHOOSE u \in Threads : TRUE

\* A thread takes a node of the bucket; which, the permutation decides.
TakeNode(t, v) ==
  /\ pc[t] = "idle" /\ MayRun(t)
  /\ v \in todo
  /\ todo' = todo \ {v}
  /\ pt_id' = Set(pt_id, t, v)
  /\ Goto(t, "enter")
  /\ UNCHANGED <<shared, neighbors, locks, callNo, bucket, nearest, level,
                 search, targets, pending>>

\* The barrier at the end of a bucket, the end of a call, the next call.
NextBucket ==
  /\ Idle /\ todo = {}
  /\ \/ bucket > 0 /\ bucket' = bucket - 1 /\ UNCHANGED callNo
     \/ /\ bucket = 0 /\ callNo < Len(Calls)
        /\ callNo' = callNo + 1 /\ bucket' = Max(Levels)
  /\ todo' = InBucket(callNo', bucket')
  /\ UNCHANGED <<shared, neighbors, locks, pc, place, search, targets, pending>>

-----------------------------------------------------------------------------
(* add_with_locks                                                          *)

\* The critical section: the first node becomes the entry point, unlinked.
Enter(t) ==
  /\ pc[t] = "enter"
  /\ nearest' = Set(nearest, t, entry_point)
  /\ IF entry_point = None
     THEN /\ max_level' = Level[pt_id[t]]
          /\ entry_point' = pt_id[t]
          /\ Goto(t, "idle")
     ELSE UNCHANGED shared /\ Goto(t, "lock_own")
  /\ UNCHANGED <<neighbors, locks, work, pt_id, level, search, targets, pending>>

Acquire(t, v) == locks[v] = {} /\ locks' = Set(locks, v, {t})

\* The search at a level begins at the same nearest at every level.
StartSearch(t, from) ==
  /\ candidates' = Set(candidates, t, {from})
  /\ results' = Set(results, t, {from})
  /\ visited' = Set(visited, t, {from})
  /\ Goto(t, "search")

\* Faulty variant: the levels above the node's own are linked too.
LockOwnAtMaxLevel(t) ==
  /\ pc[t] = "lock_own"
  /\ Acquire(t, pt_id[t])
  /\ level' = Set(level, t, max_level)
  /\ StartSearch(t, nearest[t])
  /\ UNCHANGED <<shared, neighbors, work, pt_id, nearest, targets, pending>>

\* Take the own lock, read max_level (outside the critical section), descend
\* to the level to link.
LockOwn(t) ==
  LET v == pt_id[t]
      start == Descend(neighbors, v, nearest[t], max_level, Level[v]) IN
  /\ pc[t] = "lock_own"
  /\ Acquire(t, v)
  /\ nearest' = Set(nearest, t, start)
  /\ level' = Set(level, t, Min({max_level, Level[v]}))
  /\ StartSearch(t, start)
  /\ UNCHANGED <<shared, neighbors, work, pt_id, targets, pending>>

-----------------------------------------------------------------------------
(* search_neighbors_to_add                                                 *)

\* The nearest candidate is farther than the farthest result, or there is no
\* candidate.
SearchEnds(t) ==
  \A c \in candidates[t] : Closer(pt_id[t], Farthest(pt_id[t], results[t]), c)

\* What a reader may see in the slots of c: those who rewrite them have
\* written some of the slots that change and not others.
Views(c, l) ==
  LET list == neighbors[<<c, l>>]
      writers == {t \in Threads :
                    pc[t] = "write" /\ Head(targets[t]) = c /\ level[t] = l}
      changes == {ti \in writers \X DOMAIN list : pending[ti[1]][ti[2]] # list[ti[2]]}
      view(written) ==
        [i \in DOMAIN list |->
           IF \E ti \in written : ti[2] = i
           THEN pending[(CHOOSE ti \in written : ti[2] = i)[1]][i]
           ELSE list[i]] IN
  {view(written) : written \in SUBSET changes}

\* Visit the neighbors of the nearest candidate: they become results if they
\* are among the efConstruction nearest so far, and then candidates too (the
\* code's queue also holds some that a nearer neighbor of the same list drops
\* from the results; the search ends before it reaches those).
Expand(t) ==
  LET q == pt_id[t]
      c == Nearest(q, candidates[t]) IN
  /\ pc[t] = "search"
  /\ ~SearchEnds(t)
  /\ \E view \in Views(c, level[t]) :
       LET new == ToSet(Used(view)) \ visited[t]
           best == NearestOf(q, results[t] \cup new, EfConstruction) IN
       /\ results' = Set(results, t, best)
       /\ candidates' = Set(candidates, t, (candidates[t] \ {c}) \cup (new \cap best))
       /\ visited' = Set(visited, t, visited[t] \cup new)
  /\ UNCHANGED <<shared, neighbors, locks, work, pc, place, targets, pending>>

-----------------------------------------------------------------------------
(* add_links_starting_from                                                 *)

\* keep_max_size_level0 is passed for the nodes of level 0.
Keep(t) == KeepMaxSizeLevel0 /\ Level[pt_id[t]] = 0

\* The results that are kept become the own neighbors, farthest first; then
\* the own lock is released.
LinkOwn(t) ==
  LET v == pt_id[t]
      l == level[t]
      kept == ShrinkNeighborList(v, results[t], NbNeighbors[l], Keep(t))
      order == FarthestFirst(v, kept) IN
  /\ pc[t] = "search"
  /\ SearchEnds(t)
  /\ neighbors' = [neighbors EXCEPT ![<<v, l>>] =
                     AddLinks(neighbors[<<v, l>>], v, order, Keep(t))]
  /\ locks' = Set(locks, v, {})
  /\ targets' = Set(targets, t, order)
  /\ Goto(t, "link_back")
  /\ UNCHANGED <<shared, work, place, search, pending>>

\* Faulty variant: the neighbor is not locked.
StartLinkBackUnlocked(t) ==
  LET w == Head(targets[t])
      l == level[t] IN
  /\ pc[t] = "link_back" /\ targets[t] # <<>>
  /\ pending' = Set(pending, t,
                    AddLink(neighbors[<<w, l>>], w, pt_id[t], Keep(t)))
  /\ Goto(t, "write")
  /\ UNCHANGED <<shared, neighbors, locks, work, place, search, targets>>

\* add_link at the next neighbor, under its lock: what its list becomes is
\* decided, and written over the slots in place while others may read them...
StartLinkBack(t) ==
  LET w == Head(targets[t])
      l == level[t] IN
  /\ pc[t] = "link_back" /\ targets[t] # <<>>
  /\ Acquire(t, w)
  /\ pending' = Set(pending, t,
                    AddLink(neighbors[<<w, l>>], w, pt_id[t], Keep(t)))
  /\ Goto(t, "write")
  /\ UNCHANGED <<shared, neighbors, work, place, search, targets>>

\* Faulty variant: the neighbor stays locked.
EndLinkBackLocked(t) ==
  LET w == Head(targets[t]) IN
  /\ pc[t] = "write"
  /\ neighbors' = [neighbors EXCEPT ![<<w, level[t]>>] = pending[t]]
  /\ pending' = Set(pending, t, <<>>)
  /\ targets' = Set(targets, t, Tail(targets[t]))
  /\ Goto(t, "link_back")
  /\ UNCHANGED <<shared, locks, work, place, search>>

\* ... until the last slot is written and the lock released.
EndLinkBack(t) ==
  LET w == Head(targets[t]) IN
  /\ pc[t] = "write"
  /\ neighbors' = [neighbors EXCEPT ![<<w, level[t]>>] = pending[t]]
  /\ locks' = Set(locks, w, {})
  /\ pending' = Set(pending, t, <<>>)
  /\ targets' = Set(targets, t, Tail(targets[t]))
  /\ Goto(t, "link_back")
  /\ UNCHANGED <<shared, work, place, search>>

\* Take the own lock back; the next level, or the end of add_with_locks,
\* which releases it and tests max_level.
Relock(t) ==
  LET v == pt_id[t] IN
  /\ pc[t] = "link_back" /\ targets[t] = <<>>
  /\ level' = Set(level, t, level[t] - 1)
  /\ IF level[t] > 0
     THEN Acquire(t, v) /\ StartSearch(t, nearest[t])
     ELSE /\ locks[v] = {}
          /\ Goto(t, "finish")
          /\ UNCHANGED <<locks, search>>
  /\ UNCHANGED <<shared, neighbors, work, pt_id, nearest, targets, pending>>

\* The two assignments at the end of add_with_locks, outside any lock.
RaiseMaxLevel(t) ==
  /\ pc[t] = "finish"
  /\ IF Level[pt_id[t]] > max_level
     THEN max_level' = Level[pt_id[t]] /\ Goto(t, "entry")
     ELSE UNCHANGED max_level /\ Goto(t, "idle")
  /\ UNCHANGED <<entry_point, neighbors, locks, work, place, search, targets,
                 pending>>

\* Faulty variant: entry_point stays behind.
RaiseEntryPointNot(t) ==
  /\ pc[t] = "entry"
  /\ Goto(t, "idle")
  /\ UNCHANGED <<shared, neighbors, locks, work, place, search, targets, pending>>

RaiseEntryPoint(t) ==
  /\ pc[t] = "entry"
  /\ entry_point' = pt_id[t]
  /\ Goto(t, "idle")
  /\ UNCHANGED <<max_level, neighbors, locks, work, place, search, targets,
                 pending>>

-----------------------------------------------------------------------------
Step(t) ==
  \/ \E v \in Nodes : TakeNode(t, v)
  \/ Enter(t) \/ LockOwn(t) \/ Expand(t) \/ LinkOwn(t)
  \/ StartLinkBack(t) \/ EndLinkBack(t)
  \/ Relock(t) \/ RaiseMaxLevel(t) \/ RaiseEntryPoint(t)

Built == Idle /\ todo = {} /\ bucket = 0 /\ callNo = Len(Calls)

Next ==
  \/ \E t \in Threads : Step(t)
  \/ NextBucket
  \/ Built /\ UNCHANGED vars

Spec == Init /\ [][Next]_vars

\* The threads of the team are scheduled.
FairSpec == Spec /\ WF_vars(NextBucket) /\ \A t \in Threads : WF_vars(Step(t))

-----------------------------------------------------------------------------
(* Properties                                                              *)

Id == Nodes \cup {None}

\* The shape of the state; a thread rewrites a list only while it holds the
\* lock of its node.
TypeOK ==
  /\ entry_point \in Id /\ max_level \in Levels \cup {-1}
  /\ DOMAIN neighbors = Nodes \X Levels
  /\ \A v \in Nodes, l \in Levels : neighbors[<<v, l>>] \in [1..NbNeighbors[l] -> Id]
  /\ locks \in [Nodes -> {{}} \cup {{t} : t \in Threads}]
  /\ callNo \in DOMAIN Calls /\ bucket \in Levels
  /\ todo \subseteq InBucket(callNo, bucket)
  /\ pt_id \in [Threads -> Id] /\ nearest \in [Threads -> Id]
  /\ level \in [Threads -> Levels \cup {-1}]
  /\ \A t \in Threads :
       /\ results[t] \cup candidates[t] \subseteq visited[t]
       /\ visited[t] \subseteq Nodes
       /\ Cardinality(results[t]) <= EfConstruction
       /\ pc[t] = "write" => locks[Head(targets[t])] = {t}

\* neighbor_range is only ever asked for a level that the node has: what a
\* thread reads and writes lies between offsets[i] and offsets[i + 1]
\* (HNSW.h:125-126), whatever the others do to entry_point and max_level.
NeighborRangeInside ==
  \A t \in Threads :
    /\ pc[t] = "search" =>
         \A v \in {pt_id[t]} \cup candidates[t] : InRange(v, level[t])
    /\ pc[t] \in {"link_back", "write"} =>
         \A v \in ToSet(targets[t]) : InRange(v, level[t])

\* t has not linked its node at level l yet.
Unlinked(t, l) ==
  \/ pc[t] \in {"enter", "lock_own"}
  \/ pc[t] = "search" /\ l <= level[t]
  \/ pc[t] \in {"link_back", "write"} /\ l < level[t]

\* No list at a level leads to a node before its thread has linked it there:
\* nobody reads or writes the own list while add_links_starting_from fills
\* it, and no search finds the node it is for.
PrivateUntilLinked ==
  \A t \in Threads, v \in Nodes, l \in Levels :
    Unlinked(t, l) => pt_id[t] \notin ToSet(neighbors[<<v, l>>])

\* A list holds distinct nodes of its level, not the node itself, before its
\* free slots: two threads that add_link to one node lose or repeat nothing.
ListsWellFormed ==
  \A v \in Nodes, l \in Levels :
    LET list == Used(neighbors[<<v, l>>]) IN
    /\ \A i \in DOMAIN neighbors[<<v, l>>] :
         neighbors[<<v, l>>][i] # None => i <= Len(list)
    /\ IsInjective(list)
    /\ ToSet(list) \subseteq {w \in Nodes \ {v} : InRange(w, l)}

\* What a thread may find in a list it reads, whatever others are writing.
GraphInOrder == TypeOK /\ PrivateUntilLinked /\ ListsWellFormed

\* When v has w for a neighbor, w has v, or one that is nearer: threads that
\* link to w at the same time do not lose the nearest of them, and pruning
\* never drops the nearest.
NearestLinksBack ==
  Idle => \A v \in Nodes, l \in Levels : \A w \in ToSet(Used(neighbors[<<v, l>>])) :
            \E u \in ToSet(neighbors[<<w, l>>]) \ {None} : ~Closer(w, v, u)

\* Between buckets the entry point is a node of the highest level there is.
EntryPointTop ==
  Idle /\ entry_point # None =>
    LET added == (UNION {Calls[c] : c \in 1..(callNo - 1)})
                 \cup ({v \in Calls[callNo] : Level[v] >= bucket} \ todo) IN
    /\ entry_point \in added
    /\ max_level = Max({Level[v] : v \in added})
    /\ Level[entry_point] = max_level

Neighbors(v, l) == ToSet(Used(neighbors[<<v, l>>]))

\* Levels whose lists cannot overflow.
Ample == {l \in Levels : NbNeighbors[l] >= Cardinality(Nodes)}

\* Where no list overflows no link is lost, whoever else links to the same
\* node: between buckets w is a neighbor of v exactly when v is one of w.
LinksMutual ==
  Idle => \A l \in Ample, v, w \in Nodes :
            w \in Neighbors(v, l) => v \in Neighbors(w, l)

\* And then a search from the entry point reaches every node at level 0.
AllReachable ==
  LET reach[n \in 0..Cardinality(Nodes)] ==
        IF n = 0 THEN {entry_point}
        ELSE UNION {{v} \cup Neighbors(v, 0) : v \in reach[n - 1]} IN
  Built /\ 0 \in Ample => reach[Cardinality(Nodes)] = Nodes

\* Parallel construction loses no link and no node.
NothingLost == LinksMutual /\ AllReachable

\* The threads never wait for each other for ever: the graph gets built.
GetsBuilt == <>Built
=============================================================================

--------------------------- MODULE HNSWBuildProofs ---------------------------
(***************************************************************************)
(* Proofs about HNSWBuild, for every finite set of nodes with any levels    *)
(* and distances, every sequence of calls and any threads.                  *)
(***************************************************************************)
EXTENDS HNSWBuild, ProofLemmas

Active(t) == pc[t] # "idle"

\* The nodes of the calls and buckets before this one.
Before ==
  (UNION {Calls[c] : c \in 1..(callNo - 1)})
    \cup {v \in Calls[callNo] : Level[v] > bucket}

\* The nodes that threads have taken.
Added == Before \cup (InBucket(callNo, bucket) \ todo)

PCs == {"idle", "enter", "lock_own", "search", "link_back", "write", "finish",
        "entry"}

\* Each thread adds a node of the bucket of its own.
Control ==
  /\ callNo \in DOMAIN Calls /\ bucket \in Levels
  /\ todo \subseteq InBucket(callNo, bucket)
  /\ pc \in [Threads -> PCs] /\ pt_id \in [Threads -> Id]
  /\ \A t \in Threads : Active(t) =>
       pt_id[t] \in InBucket(callNo, bucket) \ todo /\ MayRun(t)
  /\ \A t, u \in Threads :
       Active(t) /\ Active(u) /\ pt_id[t] = pt_id[u] => t = u

\* While there is no entry point, who has taken a node is about to make it
\* one.  Then max_level is the highest level there is, or of a node whose
\* thread has still to compare.
EntryFollows ==
  IF entry_point = None
  THEN /\ max_level = -1
       /\ \A t \in Threads : pc[t] \in {"idle", "enter"}
       /\ \A v \in Added : \E t \in Threads : pc[t] = "enter" /\ pt_id[t] = v
  ELSE /\ entry_point \in Added
       /\ \E v \in Added : max_level = Level[v]
       /\ Level[entry_point] <= max_level
       /\ Level[entry_point] = max_level \/ \E t \in Threads : pc[t] = "entry"
       /\ \A t \in Threads : pc[t] = "entry" => max_level = bucket
       /\ \A v \in Added :
            \/ Level[v] <= max_level
            \/ \E t \in Threads : pc[t] \notin {"idle", "entry"} /\ pt_id[t] = v

EInv == Control /\ EntryFollows

-----------------------------------------------------------------------------
(* Levels and calls                                                        *)

LEMMA LevelsProperties ==
  /\ Max(Levels) \in Nat /\ Levels = 0..Max(Levels)
  /\ \A v \in Nodes : Level[v] \in Levels
<1> DEFINE S == {Level[v] : v \in Nodes}
<1>0. /\ Level \in [Nodes -> Nat] /\ Nodes # {} /\ IsFiniteSet(Nodes)
      /\ DOMAIN NbNeighbors = 0..Max(S)
  BY GraphAssumption, Zenon
<1>1. S \in SUBSET Int /\ S # {} /\ \A v \in Nodes : Level[v] \in S
  BY <1>0
<1>3. S \subseteq Nat
  BY <1>0
<1>2. IsFiniteSet(S)
  <2>1. Level \in Surjection(Nodes, S)
    BY <1>0 DEF Surjection
  <2> QED
    BY <1>0, <2>1, FS_Surjection
<1> HIDE DEF S
<1>4. Max(S) \in S /\ \A n \in S : n <= Max(S)
  BY <1>1, <1>2, MaxProperties
<1>5. Levels = 0..Max(S)
  BY <1>0 DEF Levels
<1>6. Levels \in SUBSET Int /\ Levels # {} /\ IsFiniteSet(Levels)
  <2>1. Max(S) \in Nat
    BY <1>3, <1>4
  <2>2. IsFiniteSet(0..Max(S))
    BY <2>1, FS_Interval
  <2> QED
    BY <1>5, <2>1, <2>2
<1>7. Max(Levels) \in Levels /\ \A n \in Levels : n <= Max(Levels)
  BY <1>6, MaxProperties
<1> QED
  <2> DEFINE m == Max(S)
  <2>1. m \in Nat /\ m \in Levels
    <3>1. m \in Nat
      BY <1>3, <1>4
    <3> HIDE DEF m
    <3>2. m \in 0..m
      BY <3>1
    <3> QED
      BY <1>5, <3>1, <3>2 DEF m
  <2>2. Max(Levels) \in Nat /\ Max(Levels) <= Max(S) /\ Max(S) <= Max(Levels)
    BY <1>5, <1>7, <2>1
  <2>3. Max(Levels) = Max(S)
    BY <2>1, <2>2
  <2>4. Levels = 0..Max(Levels)
    BY <1>5, <2>3
  <2>5. \A v \in Nodes : Level[v] \in 0..m
    <3>1. \A v \in Nodes : Level[v] \in Nat /\ Level[v] <= m
      BY <1>1, <1>3, <1>4
    <3> HIDE DEF m
    <3> QED
      BY <2>1, <3>1
  <2> QED
    BY <1>5, <2>2, <2>4, <2>5

LEMMA CallsProperties ==
  /\ Len(Calls) \in Nat /\ DOMAIN Calls = 1..Len(Calls) /\ 1 \in DOMAIN Calls
  /\ \A c \in DOMAIN Calls : Calls[c] \subseteq Nodes
  /\ \A c, d \in DOMAIN Calls, v \in Nodes :
       v \in Calls[c] /\ v \in Calls[d] => c = d
  /\ None \notin Nodes
<1>1. /\ Len(Calls) \in Nat /\ DOMAIN Calls = 1..Len(Calls)
      /\ \A c \in DOMAIN Calls : Calls[c] \subseteq Nodes
  BY BuildAssumption, LenProperties, ElementOfSeq
<1>2. PICK c \in DOMAIN Calls : Calls[c] # {}
  BY BuildAssumption, GraphAssumption
<1>3. 1 \in DOMAIN Calls
  BY <1>1, <1>2
<1>4. None \notin Nodes
  BY GraphAssumption DEF None
<1> QED
  BY <1>1, <1>3, <1>4, BuildAssumption

-----------------------------------------------------------------------------
(* The steps keep threads on nodes of their own                            *)

LEMMA InitEstablishes == Init => EInv
<1> SUFFICES ASSUME Init PROVE EInv
  OBVIOUS
<1>1. /\ callNo = 1 /\ bucket = Max(Levels) /\ todo = InBucket(callNo, bucket)
      /\ pc = [t \in Threads |-> "idle"] /\ pt_id = [t \in Threads |-> None]
      /\ entry_point = None /\ max_level = -1
  BY DEF Init
<1>2. Control
  BY <1>1, LevelsProperties, CallsProperties DEF Control, Active, PCs, Id
<1>3. Added = {}
  <2>1. \A v \in Nodes : ~ (Level[v] > bucket)
    BY <1>1, LevelsProperties
  <2>2. 1..(callNo - 1) = {}
    BY <1>1
  <2> QED
    BY <1>1, <2>1, <2>2, CallsProperties DEF Added, Before
<1>4. EntryFollows
  BY <1>1, <1>3 DEF EntryFollows
<1> QED
  BY <1>2, <1>4 DEF EInv

\* A step of t but TakeNode: what it may do to the places of the threads.
Moves(t) ==
  /\ UNCHANGED <<work, pt_id>>
  /\ Active(t) /\ \E s \in PCs : Goto(t, s)

LEMMA StepsMove ==
  ASSUME Control, NEW t \in Threads, Step(t), ~ \E v \in Nodes : TakeNode(t, v)
  PROVE  Moves(t)
<1> USE DEF Moves, Active, PCs, Goto
<1>1. CASE Enter(t)
  BY <1>1 DEF Enter
<1>2. CASE LockOwn(t)
  BY <1>2 DEF LockOwn, StartSearch, work
<1>3. CASE Expand(t)
  <2>1. pc' = [pc EXCEPT ![t] = "search"]
    BY <1>3 DEF Expand, Control
  <2> QED
    BY <1>3, <2>1 DEF Expand, place
<1>4. CASE LinkOwn(t)
  BY <1>4 DEF LinkOwn, place
<1>5. CASE StartLinkBack(t) \/ EndLinkBack(t)
  BY <1>5 DEF StartLinkBack, EndLinkBack, place
<1>6. CASE Relock(t)
  BY <1>6 DEF Relock, StartSearch
<1>7. CASE RaiseMaxLevel(t) \/ RaiseEntryPoint(t)
  BY <1>7 DEF RaiseMaxLevel, RaiseEntryPoint, place
<1> QED
  BY <1>1, <1>2, <1>3, <1>4, <1>5, <1>6, <1>7 DEF Step

LEMMA MovesKeepControl ==
  ASSUME Control, NEW t \in Threads, Moves(t)
  PROVE  /\ Control' /\ Added' = Added /\ Before' = Before
         /\ \A u \in Threads \ {t} : pc'[u] = pc[u]
         /\ pc' \in [Threads -> PCs] /\ \A u \in Threads : pt_id'[u] = pt_id[u]
<1>1. /\ callNo' = callNo /\ bucket' = bucket /\ todo' = todo /\ pt_id' = pt_id
  BY DEF Moves, work
<1>2. PICK s \in PCs : pc' = [pc EXCEPT ![t] = s]
  BY DEF Moves, Goto
<1>3. /\ pc' \in [Threads -> PCs] /\ \A u \in Threads \ {t} : pc'[u] = pc[u]
      /\ \A u \in Threads : Active(u)' => Active(u)
  BY <1>2 DEF Control, Active, Moves
<1>4. \A u \in Threads : MayRun(u)' <=> MayRun(u)
  BY <1>1 DEF MayRun, InBucket
<1>5. Before' = Before /\ Added' = Added
  BY <1>1 DEF Before, Added, InBucket
<1>6. Control'
  BY <1>1, <1>3, <1>4 DEF Control, InBucket
<1> QED
  BY <1>1, <1>3, <1>5, <1>6

-----------------------------------------------------------------------------
(* The steps keep the entry point and max_level                            *)

\* Who has begun to link a node and has not compared its level yet.
Linking == {"lock_own", "search", "link_back", "write", "finish"}

LEMMA AddedNodes ==
  ASSUME Control
  PROVE  /\ Added \subseteq Nodes
         /\ \A v \in Added : Level[v] \in Nat
         /\ \A t \in Threads : Active(t) =>
              pt_id[t] \in Added /\ Level[pt_id[t]] = bucket
         /\ bucket \in Nat
<1>1. \A c \in 1..(callNo - 1) : c \in DOMAIN Calls
  BY CallsProperties DEF Control
<1>2. Added \subseteq Nodes
  <2>1. \A c \in 1..(callNo - 1) : Calls[c] \subseteq Nodes
    BY <1>1, CallsProperties
  <2>2. Calls[callNo] \subseteq Nodes
    BY CallsProperties DEF Control
  <2>3. (UNION {Calls[c] : c \in 1..(callNo - 1)}) \subseteq Nodes
    BY <2>1, Zenon
  <2>4. \A S : {v \in Calls[callNo] : Level[v] > bucket} \cup (InBucket(callNo, bucket) \ S)
                \subseteq Nodes
    BY <2>2 DEF InBucket
  <2> QED
    BY <2>3, <2>4 DEF Added, Before
<1>3. \A t \in Threads : Active(t) => pt_id[t] \in Added /\ Level[pt_id[t]] = bucket
  BY DEF Control, Added, InBucket
<1>4. \A v \in Nodes : Level[v] \in Nat
  BY GraphAssumption
<1>5. bucket \in Nat
  BY LevelsProperties DEF Control
<1> QED
  BY <1>2, <1>3, <1>4, <1>5

\* A thread that moves while it links leaves the entry point alone.
LEMMA LinkingKeepsEntry ==
  ASSUME EInv, NEW t \in Threads, Moves(t), UNCHANGED shared,
         pc[t] \in Linking, pc'[t] \in Linking
  PROVE  EInv'
<1>1. /\ Control' /\ Added' = Added /\ bucket' = bucket
      /\ \A u \in Threads \ {t} : pc'[u] = pc[u]
      /\ \A u \in Threads : pt_id'[u] = pt_id[u]
      /\ entry_point' = entry_point /\ max_level' = max_level
  BY MovesKeepControl DEF EInv, Moves, shared, work
<1>2. entry_point # None
  BY DEF EInv, EntryFollows, Linking
<1>3. \A u \in Threads : /\ pc'[u] = "entry" <=> pc[u] = "entry"
                         /\ pc'[u] \in {"idle", "entry"} <=> pc[u] \in {"idle", "entry"}
  <2> SUFFICES ASSUME NEW u \in Threads
               PROVE  /\ pc'[u] = "entry" <=> pc[u] = "entry"
                      /\ pc'[u] \in {"idle", "entry"} <=> pc[u] \in {"idle", "entry"}
    OBVIOUS
  <2>1. CASE u = t
    BY <2>1 DEF Linking
  <2>2. CASE u # t
    BY <1>1, <2>2
  <2> QED
    BY <2>1, <2>2
<1>4. EntryFollows'
  BY <1>1, <1>2, <1>3 DEF EInv, EntryFollows
<1> QED
  BY <1>1, <1>4 DEF EInv

LEMMA TakeNodeKeepsEntry ==
  ASSUME EInv, NEW t \in Threads, NEW v \in Nodes, TakeNode(t, v)
  PROVE  EInv'
<1>1. /\ pc[t] = "idle" /\ v \in todo /\ todo' = todo \ {v} /\ MayRun(t)
      /\ pc' = [pc EXCEPT ![t] = "enter"] /\ pt_id' = [pt_id EXCEPT ![t] = v]
      /\ callNo' = callNo /\ bucket' = bucket
      /\ entry_point' = entry_point /\ max_level' = max_level
  BY DEF TakeNode, Goto, Set, shared
<1>2. /\ pc \in [Threads -> PCs] /\ pt_id \in [Threads -> Id]
      /\ todo \subseteq InBucket(callNo, bucket)
  BY DEF EInv, Control
<1>3. /\ pc'[t] = "enter" /\ pt_id'[t] = v
      /\ \A u \in Threads \ {t} : pc'[u] = pc[u] /\ pt_id'[u] = pt_id[u]
      /\ pc' \in [Threads -> PCs] /\ pt_id' \in [Threads -> Id]
  BY <1>1, <1>2 DEF PCs, Id
<1>4. \A u \in Threads : MayRun(u)' <=> MayRun(u)
  BY <1>1 DEF MayRun, InBucket
<1>5. Added' = Added \cup {v}
  BY <1>1, <1>2 DEF Added, Before, InBucket
<1>6. Control'
  <2>1. \A u \in Threads \ {t} : Active(u) => pt_id[u] # v
    BY <1>1 DEF EInv, Control
  <2> QED
    BY <1>1, <1>2, <1>3, <1>4, <2>1 DEF EInv, Control, Active, InBucket
<1>7. EntryFollows'
  <2>1. CASE entry_point = None
    BY <1>1, <1>3, <1>5, <2>1 DEF EInv, EntryFollows
  <2>2. CASE entry_point # None
    <3>1. /\ entry_point \in Added' /\ \E u \in Added' : max_level' = Level[u]
          /\ Level[entry_point] <= max_level'
      BY <1>1, <1>5, <2>2 DEF EInv, EntryFollows
    <3>2. Level[entry_point] = max_level \/ \E u \in Threads : pc'[u] = "entry"
      BY <1>1, <1>3, <2>2 DEF EInv, EntryFollows
    <3>3. \A u \in Threads : pc'[u] = "entry" => max_level = bucket
      BY <1>3, <2>2 DEF EInv, EntryFollows
    <3>4. \A w \in Added' :
            \/ Level[w] <= max_level
            \/ \E u \in Threads : pc'[u] \notin {"idle", "entry"} /\ pt_id'[u] = w
      BY <1>1, <1>3, <1>5, <2>2 DEF EInv, EntryFollows
    <3> QED
      BY <1>1, <2>2, <3>1, <3>2, <3>3, <3>4 DEF EntryFollows
  <2> QED
    BY <2>1, <2>2
<1> QED
  BY <1>6, <1>7 DEF EInv

\* Taking the critical section: the first to get there becomes the entry
\* point, whoever has taken a node in the meantime comes after.
LEMMA EnterKeepsEntry ==
  ASSUME EInv, NEW t \in Threads, Enter(t), Moves(t)
  PROVE  EInv'
<1> USE DEF Linking
<1>1. /\ Control' /\ Added' = Added /\ bucket' = bucket
      /\ \A u \in Threads \ {t} : pc'[u] = pc[u]
      /\ \A u \in Threads : pt_id'[u] = pt_id[u]
  BY MovesKeepControl DEF EInv, Moves, work
<1>2. pt_id[t] \in Added /\ Level[pt_id[t]] = bucket /\ pc[t] = "enter"
      /\ pt_id[t] # None /\ bucket \in Nat
  BY AddedNodes, CallsProperties DEF EInv, Enter, Active
<1>3. CASE entry_point = None
  <2>1. /\ max_level' = Level[pt_id[t]] /\ entry_point' = pt_id[t]
        /\ pc'[t] = "idle"
    BY <1>3 DEF EInv, Control, Enter, Goto
  <2>2. \A u \in Threads : pc'[u] # "entry"
    BY <1>1, <1>3, <2>1 DEF EInv, EntryFollows
  <2>3. ASSUME NEW w \in Added
        PROVE  \/ Level[w] <= max_level'
               \/ \E u \in Threads : pc'[u] \notin {"idle", "entry"} /\ pt_id'[u] = w
    <3>1. PICK u \in Threads : pc[u] = "enter" /\ pt_id[u] = w
      BY <1>3 DEF EInv, EntryFollows
    <3>2. CASE u = t
      BY <1>2, <2>1, <3>1, <3>2
    <3>3. CASE u # t
      BY <1>1, <3>1, <3>3
    <3> QED
      BY <3>2, <3>3
  <2>4. EntryFollows'
    BY <1>1, <1>2, <2>1, <2>2, <2>3 DEF EntryFollows
  <2> QED
    BY <1>1, <2>4 DEF EInv
<1>4. CASE entry_point # None
  <2>1. entry_point' = entry_point /\ max_level' = max_level /\ pc'[t] = "lock_own"
    BY <1>4 DEF EInv, Control, Enter, Goto, shared
  <2>2. \A u \in Threads : /\ pc'[u] = "entry" <=> pc[u] = "entry"
                           /\ pc'[u] \in {"idle", "entry"} <=> pc[u] \in {"idle", "entry"}
    <3> SUFFICES ASSUME NEW u \in Threads
                 PROVE  /\ pc'[u] = "entry" <=> pc[u] = "entry"
                        /\ pc'[u] \in {"idle", "entry"} <=> pc[u] \in {"idle", "entry"}
      OBVIOUS
    <3>1. CASE u = t
      BY <1>2, <2>1, <3>1
    <3>2. CASE u # t
      BY <1>1, <3>2
    <3> QED
      BY <3>1, <3>2
  <2>3. EntryFollows'
    BY <1>1, <1>4, <2>1, <2>2 DEF EInv, EntryFollows
  <2> QED
    BY <1>1, <2>3 DEF EInv
<1> QED
  BY <1>3, <1>4

\* The comparison with max_level.  Of two threads whose node is higher, which
\* are in one bucket, the second finds that it is not.
LEMMA RaiseMaxLevelKeepsEntry ==
  ASSUME EInv, NEW t \in Threads, RaiseMaxLevel(t), Moves(t)
  PROVE  EInv'
<1>1. /\ Control' /\ Added' = Added /\ bucket' = bucket
      /\ \A u \in Threads \ {t} : pc'[u] = pc[u]
      /\ \A u \in Threads : pt_id'[u] = pt_id[u]
      /\ entry_point' = entry_point /\ pc[t] = "finish"
  BY MovesKeepControl DEF EInv, Moves, work, RaiseMaxLevel
<1>2. pt_id[t] \in Added /\ Level[pt_id[t]] = bucket /\ bucket \in Nat
  BY <1>1, AddedNodes DEF EInv, Active
<1>3. /\ entry_point # None /\ entry_point \in Added
      /\ \E v \in Added : max_level = Level[v]
      /\ Level[entry_point] <= max_level
      /\ Level[entry_point] = max_level \/ \E u \in Threads : pc[u] = "entry"
      /\ \A u \in Threads : pc[u] = "entry" => max_level = bucket
      /\ \A v \in Added :
           \/ Level[v] <= max_level
           \/ \E u \in Threads : pc[u] \notin {"idle", "entry"} /\ pt_id[u] = v
  BY <1>1 DEF EInv, EntryFollows
<1>4. max_level \in Nat /\ \A v \in Added : Level[v] \in Nat
  BY <1>3, AddedNodes DEF EInv
<1>5. CASE bucket > max_level
  <2>1. max_level' = bucket /\ pc'[t] = "entry"
    BY <1>2, <1>5 DEF EInv, Control, RaiseMaxLevel, Goto
  <2>2. \A v \in Added :
          \/ Level[v] <= max_level'
          \/ \E u \in Threads : pc'[u] \notin {"idle", "entry"} /\ pt_id'[u] = v
    <3> SUFFICES ASSUME NEW v \in Added, ~ (Level[v] <= bucket)
                 PROVE  \E u \in Threads : pc'[u] \notin {"idle", "entry"} /\ pt_id'[u] = v
      BY <2>1
    <3>1. ~ (Level[v] <= max_level)
      BY <1>2, <1>4, <1>5
    <3>2. PICK u \in Threads : pc[u] \notin {"idle", "entry"} /\ pt_id[u] = v
      BY <1>3, <3>1
    <3>3. u # t
      BY <1>2, <3>2
    <3> QED
      BY <1>1, <3>2, <3>3
  <2>3. Level[entry_point] <= bucket
    BY <1>2, <1>3, <1>4, <1>5
  <2>4. \E v \in Added : max_level' = Level[v]
    BY <1>2, <2>1
  <2>5. EntryFollows'
    BY <1>1, <1>3, <2>1, <2>2, <2>3, <2>4 DEF EntryFollows
  <2> QED
    BY <1>1, <2>5 DEF EInv
<1>6. CASE ~ (bucket > max_level)
  <2>1. max_level' = max_level /\ pc'[t] = "idle" /\ bucket <= max_level
    BY <1>2, <1>4, <1>6 DEF EInv, Control, RaiseMaxLevel, Goto
  <2>2. ASSUME NEW v \in Added
        PROVE  \/ Level[v] <= max_level
               \/ \E u \in Threads : pc'[u] \notin {"idle", "entry"} /\ pt_id'[u] = v
    <3> SUFFICES ASSUME ~ (Level[v] <= max_level)
                 PROVE  \E u \in Threads : pc'[u] \notin {"idle", "entry"} /\ pt_id'[u] = v
      OBVIOUS
    <3>1. PICK u \in Threads : pc[u] \notin {"idle", "entry"} /\ pt_id[u] = v
      BY <1>3
    <3>2. u # t
      BY <1>2, <2>1, <3>1
    <3> QED
      BY <1>1, <3>1, <3>2
  <2>3. Level[entry_point] = max_level \/ \E u \in Threads : pc'[u] = "entry"
    BY <1>1, <1>3
  <2>4. \A u \in Threads : pc'[u] = "entry" => max_level = bucket
    BY <1>1, <1>3, <2>1
  <2>5. EntryFollows'
    BY <1>1, <1>3, <2>1, <2>2, <2>3, <2>4 DEF EntryFollows
  <2> QED
    BY <1>1, <2>5 DEF EInv
<1> QED
  BY <1>5, <1>6

LEMMA RaiseEntryPointKeepsEntry ==
  ASSUME EInv, NEW t \in Threads, RaiseEntryPoint(t), Moves(t)
  PROVE  EInv'
<1>1. /\ Control' /\ Added' = Added /\ bucket' = bucket
      /\ \A u \in Threads \ {t} : pc'[u] = pc[u]
      /\ \A u \in Threads : pt_id'[u] = pt_id[u]
      /\ entry_point' = pt_id[t] /\ max_level' = max_level /\ pc[t] = "entry"
  BY MovesKeepControl DEF EInv, Moves, work, RaiseEntryPoint
<1>2. /\ pt_id[t] \in Added /\ Level[pt_id[t]] = bucket /\ bucket \in Nat
      /\ pt_id[t] # None
  BY <1>1, AddedNodes, CallsProperties DEF EInv, Active
<1>3. /\ max_level = bucket /\ \E v \in Added : max_level = Level[v]
      /\ \A u \in Threads : pc[u] = "entry" => max_level = bucket
      /\ \A v \in Added :
           \/ Level[v] <= max_level
           \/ \E u \in Threads : pc[u] \notin {"idle", "entry"} /\ pt_id[u] = v
  BY <1>1 DEF EInv, EntryFollows
<1>4. pc'[t] = "idle"
  BY DEF RaiseEntryPoint, Goto, EInv, Control
<1>5. ASSUME NEW v \in Added
      PROVE  \/ Level[v] <= max_level
             \/ \E u \in Threads : pc'[u] \notin {"idle", "entry"} /\ pt_id'[u] = v
  <2>1. ASSUME NEW u \in Threads, pc[u] \notin {"idle", "entry"}, pt_id[u] = v
        PROVE  pc'[u] \notin {"idle", "entry"} /\ pt_id'[u] = v
    BY <1>1, <2>1
  <2> QED
    BY <1>3, <2>1
<1>6. EntryFollows'
  BY <1>1, <1>2, <1>3, <1>4, <1>5 DEF EntryFollows
<1> QED
  BY <1>1, <1>6 DEF EInv

\* The next bucket or call adds nobody yet: the buckets before it are those
\* that are done, as no level is above the first.
\* The next bucket adds no node.
LEMMA NextBucketAddsNone ==
  ASSUME EInv, NextBucket
  PROVE  Added' = Added
<1>1. /\ Idle /\ todo = {} /\ todo' = InBucket(callNo', bucket')
  BY DEF NextBucket
<1>2. /\ callNo \in DOMAIN Calls /\ callNo \in Nat /\ bucket \in Nat
      /\ \A v \in Nodes : Level[v] \in Nat
      /\ Calls[callNo] \subseteq Nodes
  BY LevelsProperties, CallsProperties DEF EInv, Control
<1>3. Added = (UNION {Calls[c] : c \in 1..(callNo - 1)})
                \cup {v \in Calls[callNo] : Level[v] >= bucket}
  <2>1. {v \in Calls[callNo] : Level[v] > bucket} \cup InBucket(callNo, bucket)
          = {v \in Calls[callNo] : Level[v] >= bucket}
    BY <1>2 DEF InBucket
  <2>2. InBucket(callNo, bucket) \ todo = InBucket(callNo, bucket)
    BY <1>1
  <2> QED
    BY <2>1, <2>2 DEF Added, Before
<1>4. Added' = (UNION {Calls[c] : c \in 1..(callNo' - 1)})
                 \cup {v \in Calls[callNo'] : Level[v] > bucket'}
  <2>1. InBucket(callNo', bucket') \ todo' = {}
    BY <1>1
  <2>2. Before' = (UNION {Calls[c] : c \in 1..(callNo' - 1)})
                    \cup {v \in Calls[callNo'] : Level[v] > bucket'}
    BY DEF Before
  <2>3. Added' = Before' \cup (InBucket(callNo', bucket') \ todo')
    BY DEF Added, InBucket
  <2> QED
    BY <2>1, <2>2, <2>3
<1>5. CASE bucket > 0 /\ bucket' = bucket - 1 /\ callNo' = callNo
  <2>1. {v \in Calls[callNo'] : Level[v] > bucket'}
          = {v \in Calls[callNo] : Level[v] >= bucket}
    BY <1>2, <1>5
  <2> QED
    BY <1>3, <1>4, <1>5, <2>1
<1>6. CASE /\ bucket = 0 /\ callNo < Len(Calls)
           /\ callNo' = callNo + 1 /\ bucket' = Max(Levels)
  <2>1. callNo' \in DOMAIN Calls
    BY <1>2, <1>6, CallsProperties
  <2>2. {v \in Calls[callNo'] : Level[v] > bucket'} = {}
    <3>1. \A v \in Nodes : ~ (Level[v] > Max(Levels))
      BY LevelsProperties
    <3> QED
      BY <1>6, <2>1, <3>1, CallsProperties
  <2>3. {v \in Calls[callNo] : Level[v] >= bucket} = Calls[callNo]
    BY <1>2, <1>6
  <2>4. 1..(callNo' - 1) = 1..(callNo - 1) \cup {callNo}
    <3>1. callNo >= 1
      BY CallsProperties, <1>2
    <3> QED
      BY <1>2, <1>6, <3>1
  <2> QED
    BY <1>3, <1>4, <2>2, <2>3, <2>4
<1> QED
  BY <1>5, <1>6 DEF NextBucket

LEMMA NextBucketKeepsEntry ==
  ASSUME EInv, NextBucket
  PROVE  EInv'
<1>1. /\ Idle /\ todo = {} /\ todo' = InBucket(callNo', bucket')
      /\ pc' = pc /\ pt_id' = pt_id
      /\ entry_point' = entry_point /\ max_level' = max_level
  BY DEF NextBucket, shared, place
<1>2. callNo' \in DOMAIN Calls /\ bucket' \in Levels
  <2>1. CASE bucket > 0 /\ bucket' = bucket - 1 /\ callNo' = callNo
    BY <2>1, LevelsProperties DEF EInv, Control
  <2>2. CASE /\ bucket = 0 /\ callNo < Len(Calls)
             /\ callNo' = callNo + 1 /\ bucket' = Max(Levels)
    BY <2>2, CallsProperties, LevelsProperties DEF EInv, Control
  <2> QED
    BY <2>1, <2>2 DEF NextBucket
<1>3. Added' = Added
  BY NextBucketAddsNone
<1>4. Control'
  BY <1>1, <1>2 DEF EInv, Control, Active, Idle
<1>5. EntryFollows'
  BY <1>1, <1>3 DEF EInv, EntryFollows, Idle
<1> QED
  BY <1>4, <1>5 DEF EInv

LEMMA StepKeepsEntry ==
  ASSUME EInv, NEW t \in Threads, Step(t)
  PROVE  EInv'
<1>1. CASE \E v \in Nodes : TakeNode(t, v)
  BY <1>1, TakeNodeKeepsEntry
<1>2. CASE ~ \E v \in Nodes : TakeNode(t, v)
  <2>1. Moves(t) /\ pc \in [Threads -> PCs]
    BY <1>2, StepsMove DEF EInv, Control
  <2>2. CASE Enter(t)
    BY <2>1, <2>2, EnterKeepsEntry
  <2>3. CASE RaiseMaxLevel(t)
    BY <2>1, <2>3, RaiseMaxLevelKeepsEntry
  <2>4. CASE RaiseEntryPoint(t)
    BY <2>1, <2>4, RaiseEntryPointKeepsEntry
  <2>5. CASE \/ LockOwn(t) \/ Expand(t) \/ LinkOwn(t)
             \/ StartLinkBack(t) \/ EndLinkBack(t) \/ Relock(t)
    <3> USE DEF Goto, Linking
    <3>1. UNCHANGED shared
      BY <2>5 DEF LockOwn, Expand, LinkOwn, StartLinkBack, EndLinkBack, Relock
    <3>2. pc[t] \in Linking
      BY <2>5 DEF LockOwn, Expand, LinkOwn, StartLinkBack, EndLinkBack, Relock
    <3>3. pc'[t] \in Linking
      <4>1. CASE LockOwn(t)
        BY <2>1, <4>1 DEF LockOwn, StartSearch
      <4>2. CASE Expand(t)
        BY <3>2, <4>2 DEF Expand
      <4>3. CASE LinkOwn(t)
        BY <2>1, <4>3 DEF LinkOwn
      <4>4. CASE StartLinkBack(t) \/ EndLinkBack(t)
        BY <2>1, <4>4 DEF StartLinkBack, EndLinkBack
      <4>5. CASE Relock(t)
        BY <2>1, <4>5 DEF Relock, StartSearch
      <4> QED
        BY <2>5, <4>1, <4>2, <4>3, <4>4, <4>5
    <3> QED
      BY <2>1, <3>1, <3>2, <3>3, LinkingKeepsEntry
  <2> QED
    BY <1>2, <2>2, <2>3, <2>4, <2>5 DEF Step
<1> QED
  BY <1>1, <1>2

LEMMA StutterKeepsEntry ==
  ASSUME EInv, UNCHANGED vars
  PROVE  EInv'
<1>1. UNCHANGED <<entry_point, max_level, callNo, bucket, todo, pc, pt_id>>
  BY DEF vars, shared, work, place
<1> QED
  BY <1>1 DEF EInv, Control, EntryFollows, Added, Before, InBucket, MayRun,
              Active

\* EInv is inductive.
THEOREM EntryInvariance == Spec => []EInv
<1>1. EInv /\ [Next]_vars => EInv'
  BY StepKeepsEntry, NextBucketKeepsEntry, StutterKeepsEntry DEF Next
<1> QED
  BY <1>1, InitEstablishes, PTL DEF Spec

\* entry_point and max_level, which threads read and write outside of any lock,
\* agree between buckets with each other and with all nodes added so far.
THEOREM EntryPointIsTop == Spec => []EntryPointTop
<1>1. EInv => EntryPointTop
  <2> SUFFICES ASSUME EInv, Idle, entry_point # None
               PROVE  LET added == (UNION {Calls[c] : c \in 1..(callNo - 1)})
                            \cup ({v \in Calls[callNo] : Level[v] >= bucket} \ todo)
                      IN  /\ entry_point \in added
                          /\ max_level = Max({Level[v] : v \in added})
                          /\ Level[entry_point] = max_level
    BY DEF EntryPointTop
  <2>1. Added = (UNION {Calls[c] : c \in 1..(callNo - 1)})
                  \cup ({v \in Calls[callNo] : Level[v] >= bucket} \ todo)
    <3>1. /\ Calls[callNo] \subseteq Nodes /\ todo \subseteq InBucket(callNo, bucket)
          /\ bucket \in Nat /\ \A v \in Nodes : Level[v] \in Nat
      BY LevelsProperties, CallsProperties DEF EInv, Control
    <3>2. {v \in Calls[callNo] : Level[v] > bucket}
            \cup (InBucket(callNo, bucket) \ todo)
            = {v \in Calls[callNo] : Level[v] >= bucket} \ todo
      BY <3>1 DEF InBucket
    <3> QED
      BY <3>2 DEF Added, Before
  <2>2. /\ entry_point \in Added /\ \E v \in Added : max_level = Level[v]
        /\ Level[entry_point] = max_level
        /\ \A v \in Added : Level[v] <= max_level
    BY DEF EInv, EntryFollows, Idle
  <2>3. \A v \in Added : Level[v] \in Nat
    BY AddedNodes DEF EInv
  <2> DEFINE S == {Level[v] : v \in Added}
  <2>4. max_level \in S /\ S \subseteq Nat /\ \A n \in S : max_level >= n
    BY <2>2, <2>3
  <2> HIDE DEF S
  <2> DEFINE m == Max(S)
  <2>5. m \in S /\ \A n \in S : m >= n
    BY <2>4 DEF Max
  <2> HIDE DEF m
  <2>6. max_level = m
    <3>1. max_level >= m /\ m >= max_level /\ m \in Nat /\ max_level \in Nat
      BY <2>4, <2>5
    <3> QED
      BY <3>1
  <2> QED
    BY <2>1, <2>2, <2>6 DEF S, m
<1> QED
  BY <1>1, EntryInvariance, PTL

-----------------------------------------------------------------------------
(* Distances and lists                                                     *)

\* Nodes at any distance from q are ordered by it.
LEMMA DistanceOrders ==
  \A q, v, w \in Nodes :
    /\ Distance[<<q, v>>] \in Nat
    /\ Closer(q, v, w) <=> Distance[<<q, v>>] < Distance[<<q, w>>]
    /\ v = w \/ Closer(q, v, w) \/ Closer(q, w, v)
    /\ ~Closer(q, v, v)
<1> SUFFICES ASSUME NEW q \in Nodes, NEW v \in Nodes, NEW w \in Nodes
             PROVE  /\ Distance[<<q, v>>] \in Nat
                    /\ Closer(q, v, w) <=> Distance[<<q, v>>] < Distance[<<q, w>>]
                    /\ v = w \/ Closer(q, v, w) \/ Closer(q, w, v)
                    /\ ~Closer(q, v, v)
  OBVIOUS
<1>1. Distance[<<q, v>>] \in Nat /\ Distance[<<q, w>>] \in Nat
  BY GraphAssumption
<1>2. Distance[<<q, v>>] = Distance[<<q, w>>] => v = w
  BY GraphAssumption
<1> QED
  BY <1>1, <1>2 DEF Closer

LEMMA NearestProperties ==
  ASSUME NEW q \in Nodes, NEW S \in SUBSET Nodes, S # {}
  PROVE  Nearest(q, S) \in S /\ \A w \in S : ~Closer(q, w, Nearest(q, S))
<1> DEFINE d == [v \in S |-> Distance[<<q, v>>]]
<1>1. IsFiniteSet(S) /\ d \in [S -> Nat]
  BY GraphAssumption, FS_Subset, DistanceOrders
<1>2. PICK v \in S : \A w \in S : d[v] <= d[w]
  <2> HIDE DEF d
  <2> QED
    BY <1>1, LeastAndGreatest
<1>3. \A w \in S : ~Closer(q, w, v)
  <2> TAKE w \in S
  <2>1. v \in Nodes /\ w \in Nodes /\ d[v] = Distance[<<q, v>>] /\ d[w] = Distance[<<q, w>>]
    OBVIOUS
  <2>2. Distance[<<q, v>>] \in Nat /\ Distance[<<q, w>>] \in Nat
    BY <2>1, DistanceOrders
  <2> HIDE DEF d
  <2> QED
    BY <1>2, <2>1, <2>2 DEF Closer
<1> QED
  BY <1>3, Zenon DEF Nearest

LEMMA FarthestProperties ==
  ASSUME NEW q \in Nodes, NEW S \in SUBSET Nodes, S # {}
  PROVE  Farthest(q, S) \in S /\ \A w \in S : ~Closer(q, Farthest(q, S), w)
<1> DEFINE d == [v \in S |-> Distance[<<q, v>>]]
<1>1. IsFiniteSet(S) /\ d \in [S -> Nat]
  BY GraphAssumption, FS_Subset, DistanceOrders
<1>2. PICK v \in S : \A w \in S : d[w] <= d[v]
  <2> HIDE DEF d
  <2> QED
    BY <1>1, LeastAndGreatest
<1>3. \A w \in S : ~Closer(q, v, w)
  <2> TAKE w \in S
  <2>1. v \in Nodes /\ w \in Nodes /\ d[v] = Distance[<<q, v>>] /\ d[w] = Distance[<<q, w>>]
    OBVIOUS
  <2>2. Distance[<<q, v>>] \in Nat /\ Distance[<<q, w>>] \in Nat
    BY <2>1, DistanceOrders
  <2> HIDE DEF d
  <2> QED
    BY <1>2, <2>1, <2>2 DEF Closer
<1> QED
  BY <1>3, Zenon DEF Farthest

\* The n nearest are at most n.
LEMMA NearestOfProperties ==
  ASSUME NEW q \in Nodes, NEW S \in SUBSET Nodes, NEW n \in Nat
  PROVE  /\ NearestOf(q, S, n) \subseteq S
         /\ IsFiniteSet(NearestOf(q, S, n)) /\ Cardinality(NearestOf(q, S, n)) <= n
<1> DEFINE T == NearestOf(q, S, n)
<1>1. /\ T \subseteq S /\ IsFiniteSet(S) /\ IsFiniteSet(T)
      /\ \A v \in T : Cardinality({w \in S : Closer(q, w, v)}) < n
  <2>1. T \subseteq S
    BY DEF NearestOf
  <2>2. IsFiniteSet(S)
    BY GraphAssumption, FS_Subset
  <2>3. IsFiniteSet(T)
    BY <2>1, <2>2, FS_Subset
  <2> QED
    BY <2>1, <2>2, <2>3 DEF NearestOf
<1> HIDE DEF T
<1>2. CASE T = {}
  <2>1. Cardinality(T) = 0
    BY <1>2, FS_EmptySet
  <2> QED
    BY <1>1, <2>1 DEF T
<1>3. CASE T # {}
  <2>1. PICK f \in T : \A w \in T : ~Closer(q, f, w)
    BY <1>1, <1>3, FarthestProperties
  <2> DEFINE C == {w \in S : Closer(q, w, f)}
  <2>2. IsFiniteSet(C) /\ Cardinality(C) < n
    BY <1>1, FS_Subset
  <2>3. T \ {f} \subseteq C
    BY <1>1, <2>1, DistanceOrders
  <2> HIDE DEF C
  <2>4. Cardinality(T \ {f}) <= Cardinality(C)
    BY <2>2, <2>3, FS_Subset
  <2>5. Cardinality(T \ {f}) = Cardinality(T) - 1
    BY <1>1, FS_RemoveElement
  <2>6. Cardinality(T) \in Nat /\ Cardinality(C) \in Nat
    BY <1>1, <2>2, FS_CardinalityType
  <2> QED
    BY <1>1, <2>2, <2>4, <2>5, <2>6 DEF T
<1> QED
  BY <1>2, <1>3

\* The queue is emptied in an order in which each element comes once.
LEMMA FarthestFirstProperties ==
  ASSUME NEW q \in Nodes, NEW S \in SUBSET Nodes
  PROVE  LET s == FarthestFirst(q, S) IN
         /\ s \in Seq(S) /\ Len(s) = Cardinality(S) /\ Cardinality(S) \in Nat
         /\ IsInjective(s) /\ Range(s) = S
<1> DEFINE n == Cardinality(S)
           before(v) == {w \in S : Closer(q, v, w)}
           rank == [v \in S |-> Cardinality(before(v)) + 1]
           s == FarthestFirst(q, S)
<1>1. IsFiniteSet(S) /\ n \in Nat /\ \A v \in S : IsFiniteSet(before(v))
  BY GraphAssumption, FS_Subset, FS_CardinalityType
<1>2. \A v \in S : Cardinality(before(v)) \in 0..(n - 1)
  <2> TAKE v \in S
  <2>1. before(v) \subseteq S \ {v}
    <3>1. ~Closer(q, v, v)
      BY DistanceOrders, v \in Nodes
    <3> QED
      BY <3>1
  <2>2. IsFiniteSet(S \ {v}) /\ Cardinality(S \ {v}) = n - 1
    BY <1>1, FS_RemoveElement
  <2>3. Cardinality(before(v)) <= n - 1 /\ Cardinality(before(v)) \in Nat
    <3> HIDE DEF before, n
    <3> QED
      BY <2>1, <2>2, FS_Subset, FS_CardinalityType
  <2> QED
    <3> HIDE DEF before, n
    <3> QED
      BY <1>1, <2>3
<1>3. \A v, w \in S : Closer(q, v, w) => Cardinality(before(w)) < Cardinality(before(v))
  <2> TAKE v, w \in S
  <2> HAVE Closer(q, v, w)
  <2>1. before(w) \subseteq before(v) /\ w \in before(v) /\ w \notin before(w)
    <3>1. \A x \in S : Closer(q, w, x) => Closer(q, v, x)
      BY GraphAssumption DEF Closer
    <3>2. ~Closer(q, w, w)
      BY DistanceOrders, w \in Nodes
    <3> QED
      BY <3>1, <3>2
  <2>2. IsFiniteSet(before(v)) /\ IsFiniteSet(before(w))
    BY <1>1
  <2> HIDE DEF before
  <2>3. Cardinality(before(w)) <= Cardinality(before(v) \ {w})
    BY <2>1, <2>2, FS_Subset
  <2>4. Cardinality(before(v) \ {w}) = Cardinality(before(v)) - 1
    BY <2>1, <2>2, FS_RemoveElement
  <2>5. Cardinality(before(v)) \in Nat /\ Cardinality(before(w)) \in Nat
    BY <2>2, FS_CardinalityType
  <2> QED
    BY <2>3, <2>4, <2>5
<1>4. rank \in [S -> 1..n] /\ \A v, w \in S : rank[v] = rank[w] => v = w
  <2>1. rank \in [S -> 1..n]
    <3> HIDE DEF before, n
    <3> QED
      BY <1>1, <1>2
  <2>2. \A v, w \in S : rank[v] = rank[w] => v = w
    <3> TAKE v, w \in S
    <3>1. v = w \/ Closer(q, v, w) \/ Closer(q, w, v)
      BY DistanceOrders
    <3> HIDE DEF before
    <3> QED
      BY <1>2, <1>3, <3>1
  <2> QED
    BY <2>1, <2>2
<1>5. rank \in Surjection(S, 1..n)
  <2>1. rank \in Injection(S, 1..n)
    <3> HIDE DEF rank, n
    <3> QED
      BY <1>4 DEF Injection, IsInjective
  <2>2. IsFiniteSet(1..n) /\ Cardinality(1..n) = n
    BY <1>1, FS_Interval
  <2> HIDE DEF rank
  <2> QED
    BY <1>1, <2>1, <2>2, FS_Injection
<1>6. \A i \in 1..n : s[i] \in S /\ rank[s[i]] = i
  <2> TAKE i \in 1..n
  <2>1. PICK v \in S : rank[v] = i
    <3> HIDE DEF rank
    <3> QED
      BY <1>5 DEF Surjection
  <2>2. Cardinality({w \in S : Closer(q, v, w)}) = i - 1
    <3> HIDE DEF n
    <3> QED
      BY <1>1, <1>2, <2>1
  <2>3. s[i] = CHOOSE u \in S : Cardinality({w \in S : Closer(q, u, w)}) = i - 1
    BY DEF FarthestFirst
  <2>4. s[i] \in S /\ Cardinality({w \in S : Closer(q, s[i], w)}) = i - 1
    <3> HIDE DEF s
    <3> QED
      BY <2>2, <2>3, Zenon
  <2> HIDE DEF s, n
  <2> QED
    BY <1>1, <2>4
<1>7. s \in [1..n -> S]
  <2>1. s = [i \in 1..n |-> CHOOSE u \in S : Cardinality({w \in S : Closer(q, u, w)}) = i - 1]
    BY DEF FarthestFirst
  <2> HIDE DEF s, rank, n
  <2> QED
    BY <1>6, <2>1
<1>8. s \in Seq(S) /\ Len(s) = n /\ DOMAIN s = 1..n
  <2> HIDE DEF s, n
  <2>1. s \in Seq(S)
    BY <1>1, <1>7, SeqDef
  <2> QED
    BY <1>1, <1>7, <2>1, LenProperties
<1>9. Range(s) = S
  <2>1. \A v \in S : rank[v] \in 1..n /\ s[rank[v]] = v
    <3> HIDE DEF s, rank, n
    <3> QED
      BY <1>4, <1>6
  <2> HIDE DEF s, rank, n
  <2> QED
    BY <1>6, <1>8, <2>1 DEF Range
<1>10. IsInjective(s)
  <2> HIDE DEF s, rank, n
  <2> QED
    BY <1>6, <1>8 DEF IsInjective
<1> QED
  BY <1>1, <1>8, <1>9, <1>10

\* The heuristic keeps some of the nodes, as many as there is room for.
LEMMA ShrinkNeighborListKeeps ==
  ASSUME NEW q \in Nodes, NEW S \in SUBSET Nodes, NEW max_size \in Nat,
         NEW keep \in BOOLEAN
  PROVE  LET kept == ShrinkNeighborList(q, S, max_size, keep) IN
         kept \subseteq S /\ IsFiniteSet(kept) /\ Cardinality(kept) <= max_size
<1>1. IsFiniteSet(S) /\ Cardinality(S) \in Nat
  BY GraphAssumption, FS_Subset, FS_CardinalityType
<1>2. CASE Cardinality(S) < max_size
  BY <1>1, <1>2 DEF ShrinkNeighborList
<1>3. CASE ~(Cardinality(S) < max_size)
  <2> DEFINE good == Good(q, S)
             first == NearestOf(q, good, max_size)
             more == NearestOf(q, S \ good, max_size - Cardinality(first))
  <2>1. good \in SUBSET Nodes /\ good \subseteq S
    BY DEF Good
  <2> HIDE DEF good
  <2>2. first \subseteq S /\ IsFiniteSet(first) /\ Cardinality(first) <= max_size
    BY <2>1, NearestOfProperties
  <2> HIDE DEF first
  <2>3. Cardinality(first) \in Nat /\ max_size - Cardinality(first) \in Nat
    BY <2>2, FS_CardinalityType
  <2>4. /\ more \subseteq S /\ IsFiniteSet(more)
        /\ Cardinality(more) <= max_size - Cardinality(first)
    <3>1. S \ good \in SUBSET Nodes
      OBVIOUS
    <3> QED
      BY <2>3, <3>1, NearestOfProperties
  <2> HIDE DEF more
  <2>5. /\ IsFiniteSet(first \cup more)
        /\ Cardinality(first \cup more) <= Cardinality(first) + Cardinality(more)
    <3>1. IsFiniteSet(first \cup more) /\ IsFiniteSet(first \cap more)
      BY <2>2, <2>4, FS_Union, FS_Intersection
    <3>2. Cardinality(first \cup more)
            = Cardinality(first) + Cardinality(more) - Cardinality(first \cap more)
      BY <2>2, <2>4, FS_Union
    <3>3. Cardinality(first \cap more) \in Nat /\ Cardinality(more) \in Nat
          /\ Cardinality(first \cup more) \in Nat
      BY <2>4, <3>1, FS_CardinalityType
    <3> QED
      BY <2>3, <3>1, <3>2, <3>3
  <2>6. Cardinality(more) \in Nat /\ Cardinality(first \cup more) \in Nat
    BY <2>4, <2>5, FS_CardinalityType
  <2>7. Cardinality(first \cup more) <= max_size
    BY <2>3, <2>4, <2>5, <2>6
  <2>8. ShrinkNeighborList(q, S, max_size, keep)
          = IF keep THEN first \cup more ELSE first
    BY <1>3, Zenon DEF ShrinkNeighborList, Pruned, good, first, more
  <2> QED
    BY <2>2, <2>4, <2>5, <2>7, <2>8
<1> QED
  BY <1>2, <1>3
-----------------------------------------------------------------------------
(* Lists                                                                   *)

\* Distinct elements of S, before the free ones of n slots.
Tidy(slots, n, S) ==
  /\ slots \in [1..n -> Id]
  /\ \A i, j \in 1..n : i < j /\ slots[j] # None => slots[i] # None
  /\ \A i, j \in 1..n : slots[i] # None /\ slots[i] = slots[j] => i = j
  /\ \A i \in 1..n : slots[i] # None => slots[i] \in S

\* What the slots hold.
Held(slots) == Range(slots) \ {None}

LEMMA NoneIsNoNode == None \notin Nodes
BY GraphAssumption DEF None

LEMMA HeldProperties ==
  \A n, slots : slots \in [1..n -> Id] =>
    /\ Held(slots) \subseteq Nodes /\ None \notin Held(slots)
    /\ \A x \in Nodes : x \in Held(slots) <=> \E i \in 1..n : slots[i] = x
<1> SUFFICES ASSUME NEW n, NEW slots \in [1..n -> Id]
             PROVE  /\ Held(slots) \subseteq Nodes /\ None \notin Held(slots)
                    /\ \A x \in Nodes : x \in Held(slots) <=> \E i \in 1..n : slots[i] = x
  OBVIOUS
<1> QED
  BY NoneIsNoNode DEF Held, Range, Id

\* The last used slot and the first free one.
LEMMA UsedProperties ==
  ASSUME NEW n \in Nat, NEW slots \in [1..n -> Id]
  PROVE  /\ Used(slots) \in Seq(Nodes) /\ Range(Used(slots)) \subseteq Held(slots)
         /\ Len(Used(slots)) \in 0..n
         /\ \A i \in 1..Len(Used(slots)) : Used(slots)[i] = slots[i]
         /\ Len(Used(slots)) < n => slots[Len(Used(slots)) + 1] = None
<1> DEFINE free == {i \in DOMAIN slots : slots[i] = None}
           u == Used(slots)
<1>1. DOMAIN slots = 1..n /\ slots \in Seq(Id) /\ Len(slots) = n
  <2>1. slots \in Seq(Id)
    BY SeqDef
  <2> QED
    BY <2>1, LenProperties
<1>2. CASE free = {}
  <2>1. u = slots /\ \A i \in 1..n : slots[i] \in Nodes
    BY <1>1, <1>2 DEF Used, Id
  <2>2. slots \in [1..n -> Nodes]
    BY <2>1
  <2>3. u \in Seq(Nodes) /\ Len(u) = n
    <3> HIDE DEF u
    <3> QED
      BY <1>1, <2>1, <2>2, SeqDef
  <2>4. Range(u) = {slots[i] : i \in 1..n}
    BY <1>1, <2>1 DEF Range
  <2>5. Range(u) \subseteq Held(slots)
    <3> HIDE DEF u
    <3> QED
      BY <1>1, <2>1, <2>4, NoneIsNoNode DEF Held, Range
  <2> HIDE DEF u, free
  <2> QED
    BY <2>1, <2>3, <2>5 DEF u
<1>3. CASE free # {}
  <2> DEFINE m == Min(free)
  <2>1. m \in free /\ \A i \in free : m <= i
    <3>1. free \in SUBSET Nat
      BY <1>1
    <3>2. \E x \in free : \A y \in free : x <= y
      <4> HIDE DEF free
      <4> QED
        BY <1>3, <3>1, LeastNumber
    <3> HIDE DEF free
    <3> QED
      BY <3>2 DEF Min
  <2>2. u = SubSeq(slots, 1, m - 1)
    BY <1>3 DEF Used
  <2> HIDE DEF m, u
  <2>3. m \in 1..n /\ slots[m] = None /\ \A i \in 1..(m - 1) : i \in 1..n /\ slots[i] # None
    BY <1>1, <2>1
  <2> HIDE DEF free
  <2>4. /\ u \in Seq(Id) /\ Len(u) = m - 1
        /\ \A i \in 1..(m - 1) : u[i] = slots[i]
    BY <1>1, <2>2, <2>3, SubSeqProperties
  <2>5. \A i \in 1..Len(u) : u[i] \in Nodes
    BY <2>3, <2>4 DEF Id
  <2>6. DOMAIN u = 1..Len(u) /\ Len(u) \in Nat /\ u \in [1..Len(u) -> Nodes]
    <3>1. DOMAIN u = 1..Len(u) /\ Len(u) \in Nat /\ u = [i \in 1..Len(u) |-> u[i]]
      BY <2>4, LenProperties
    <3> QED
      BY <2>5, <3>1
  <2>7. u \in Seq(Nodes)
    BY <2>6, SeqDef
  <2>8. Range(u) \subseteq Held(slots)
    BY <1>1, <2>3, <2>4, <2>5, <2>6, NoneIsNoNode DEF Held, Range
  <2>9. Len(u) \in 0..n /\ Len(u) + 1 = m
    BY <2>3, <2>4
  <2> QED
    BY <2>3, <2>4, <2>7, <2>8, <2>9 DEF u
<1> QED
  BY <1>2, <1>3

\* A tidy list is what its readers see, and distinct.
LEMMA TidyUsed ==
  ASSUME NEW n \in Nat, NEW slots, NEW S, Tidy(slots, n, S)
  PROVE  /\ Range(Used(slots)) = Held(slots) /\ Held(slots) \subseteq S
         /\ IsInjective(Used(slots))
         /\ \A i \in 1..n : slots[i] # None => i <= Len(Used(slots))
<1> DEFINE u == Used(slots)
<1>1. slots \in [1..n -> Id]
  BY DEF Tidy
<1>2. /\ u \in Seq(Nodes) /\ Range(u) \subseteq Held(slots)
      /\ Len(u) \in 0..n
      /\ \A i \in 1..Len(u) : u[i] = slots[i]
      /\ Len(u) < n => slots[Len(u) + 1] = None
  BY <1>1, UsedProperties
<1> HIDE DEF u
<1>3. ASSUME NEW i \in 1..n, slots[i] # None
      PROVE  i <= Len(u)
  <2> SUFFICES ASSUME ~(i <= Len(u)) PROVE FALSE
    OBVIOUS
  <2>1. Len(u) + 1 \in 1..n /\ (Len(u) + 1 = i \/ Len(u) + 1 < i) /\ Len(u) < n
    BY <1>2
  <2> QED
    BY <1>2, <1>3, <2>1 DEF Tidy
<1>4. Held(slots) \subseteq Range(u)
  <2> SUFFICES ASSUME NEW x \in Held(slots) PROVE x \in Range(u)
    OBVIOUS
  <2>1. PICK i \in 1..n : x = slots[i] /\ slots[i] # None
    BY <1>1 DEF Held, Range
  <2>2. i \in 1..Len(u)
    BY <1>2, <1>3, <2>1
  <2>3. DOMAIN u = 1..Len(u)
    BY <1>2, LenProperties
  <2> QED
    BY <1>2, <2>1, <2>2, <2>3 DEF Range
<1>5. IsInjective(u)
  <2>1. DOMAIN u = 1..Len(u) /\ \A i \in 1..Len(u) : i \in 1..n /\ u[i] \in Nodes
    BY <1>2, LenProperties, ElementOfSeq
  <2>2. \A i, j \in 1..Len(u) : u[i] = u[j] => i = j
    BY <1>2, <2>1, NoneIsNoNode DEF Tidy
  <2> QED
    BY <2>1, <2>2 DEF IsInjective
<1>6. Held(slots) \subseteq S
  BY <1>1 DEF Held, Range, Tidy
<1> QED
  BY <1>2, <1>3, <1>4, <1>5, <1>6 DEF u

\* Where dest goes in a list with room.
LEMMA AppendedTidy ==
  ASSUME NEW n \in Nat \ {0}, NEW S \in SUBSET Nodes, NEW slots, Tidy(slots, n, S),
         ~Full(slots), NEW dest \in S, dest \notin Held(slots)
  PROVE  /\ Tidy(Appended(slots, dest), n, S)
         /\ Held(Appended(slots, dest)) = Held(slots) \cup {dest}
<1> DEFINE busy == {0} \cup {i \in DOMAIN slots : slots[i] # None}
           last == Max(busy)
           a == Appended(slots, dest)
<1>1. slots \in [1..n -> Id] /\ DOMAIN slots = 1..n /\ Len(slots) = n
  <2>1. slots \in [1..n -> Id]
    BY DEF Tidy
  <2>2. slots \in Seq(Id)
    BY <2>1, SeqDef
  <2> QED
    BY <2>1, <2>2, LenProperties
<1>2. slots[n] = None
  BY <1>1 DEF Full
<1>3. last \in busy /\ \A i \in busy : i <= last
  <2>1. busy \in SUBSET Int /\ busy # {} /\ busy \subseteq 0..n
    BY <1>1
  <2>2. IsFiniteSet(busy)
    <3>1. IsFiniteSet(0..n)
      BY FS_Interval
    <3> HIDE DEF busy
    <3> QED
      BY <2>1, <3>1, FS_Subset
  <2> HIDE DEF busy
  <2> QED
    BY <2>1, <2>2, MaxProperties
<1>4. a = [slots EXCEPT ![last + 1] = dest]
  BY DEF Appended
<1> HIDE DEF last, a
<1>5. /\ last \in 0..(n - 1) /\ \A i \in 1..n : slots[i] # None => i <= last
      /\ last # 0 => slots[last] # None
  BY <1>1, <1>2, <1>3
<1> HIDE DEF busy
<1>6. \A i \in 1..n : i <= last => slots[i] # None
  <2> TAKE i \in 1..n
  <2> HAVE i <= last
  <2>1. last \in 1..n /\ slots[last] # None
    BY <1>5
  <2>2. i = last \/ i < last
    BY <1>5
  <2> QED
    BY <2>1, <2>2 DEF Tidy
<1>7. last + 1 \in 1..n /\ dest \in Id /\ dest # None
  BY <1>5, NoneIsNoNode DEF Id
<1>8. /\ a \in [1..n -> Id] /\ a[last + 1] = dest
      /\ \A i \in 1..n : i # last + 1 => a[i] = slots[i]
  BY <1>1, <1>4, <1>7
<1>9. \A i \in 1..n : a[i] # None <=> i <= last + 1
  <2> TAKE i \in 1..n
  <2>1. CASE i = last + 1
    BY <1>5, <1>7, <1>8, <2>1
  <2>2. CASE i # last + 1
    <3>1. i <= last + 1 <=> i <= last
      BY <1>5, <2>2
    <3>2. a[i] = slots[i]
      BY <1>8, <2>2
    <3>3. slots[i] # None <=> i <= last
      BY <1>5, <1>6
    <3> QED
      BY <3>1, <3>2, <3>3
  <2> QED
    BY <2>1, <2>2
<1>10. \A i \in 1..n : slots[i] # dest
  BY <1>1, <1>7 DEF Held, Range
<1>11. Tidy(a, n, S)
  <2>1. \A i, j \in 1..n : i < j /\ a[j] # None => a[i] # None
    BY <1>5, <1>9
  <2>2. \A i, j \in 1..n : a[i] # None /\ a[i] = a[j] => i = j
    BY <1>8, <1>10 DEF Tidy
  <2>3. \A i \in 1..n : a[i] # None => a[i] \in S
    BY <1>8 DEF Tidy
  <2> QED
    BY <1>8, <2>1, <2>2, <2>3 DEF Tidy
<1>12. Held(a) = Held(slots) \cup {dest}
  <2>1. slots[last + 1] = None
    <3>1. ~(last + 1 <= last)
      BY <1>5
    <3> QED
      BY <1>5, <1>7, <3>1
  <2>2. Range(a) = {a[i] : i \in 1..n} /\ Range(slots) = {slots[i] : i \in 1..n}
    BY <1>1, <1>8 DEF Range
  <2>3. \A x : x \in Held(a) => x \in Held(slots) \cup {dest}
    BY <1>8, <2>2 DEF Held
  <2>4. \A x : x \in Held(slots) \cup {dest} => x \in Held(a)
    BY <1>7, <1>8, <2>1, <2>2 DEF Held
  <2> QED
    BY <2>3, <2>4
<1> QED
  BY <1>11, <1>12 DEF a

\* What is left of a full list and dest.
LEMMA RewrittenTidy ==
  ASSUME NEW n \in Nat \ {0}, NEW S \in SUBSET Nodes, NEW slots, Tidy(slots, n, S),
         Full(slots), NEW dest \in S, NEW src \in Nodes, NEW keep \in BOOLEAN
  PROVE  /\ Tidy(Rewritten(slots, src, dest, keep), n, S)
         /\ Held(Rewritten(slots, src, dest, keep))
              = ShrinkNeighborList(src, Held(slots) \cup {dest}, n, keep)
         /\ Held(Rewritten(slots, src, dest, keep)) \subseteq Held(slots) \cup {dest}
<1> DEFINE old == Held(slots) \cup {dest}
           kept == ShrinkNeighborList(src, old, n, keep)
           order == FarthestFirst(src, kept)
           r == Rewritten(slots, src, dest, keep)
<1>1. slots \in [1..n -> Id] /\ DOMAIN slots = 1..n /\ Len(slots) = n
  <2>1. slots \in [1..n -> Id]
    BY DEF Tidy
  <2>2. slots \in Seq(Id)
    BY <2>1, SeqDef
  <2> QED
    BY <2>1, <2>2, LenProperties
<1>2. ToSet(slots) = Held(slots)
  <2>1. slots[n] # None
    BY <1>1 DEF Full
  <2>2. \A i \in 1..n : slots[i] # None
    <3> TAKE i \in 1..n
    <3>1. n \in 1..n /\ (i = n \/ i < n)
      OBVIOUS
    <3> QED
      BY <2>1, <3>1 DEF Tidy
  <2>3. ToSet(slots) = Range(slots)
    BY DEF ToSet, Range
  <2> QED
    BY <1>1, <2>2, <2>3 DEF Held, Range
<1>3. old \in SUBSET Nodes /\ old \subseteq S
  BY <1>1 DEF Held, Range, Tidy
<1>4. kept \subseteq old /\ IsFiniteSet(kept) /\ Cardinality(kept) <= n
  <2> HIDE DEF old
  <2> QED
    BY <1>3, ShrinkNeighborListKeeps
<1>5. /\ order \in Seq(kept) /\ Len(order) = Cardinality(kept) /\ Cardinality(kept) \in Nat
      /\ IsInjective(order) /\ Range(order) = kept
  <2>1. kept \in SUBSET Nodes
    <3> HIDE DEF kept, old
    <3> QED
      BY <1>3, <1>4
  <2> HIDE DEF kept
  <2> QED
    BY <2>1, FarthestFirstProperties
<1>6. r = [i \in 1..n |-> IF i <= Len(order) THEN order[i] ELSE None]
  BY <1>1, <1>2, Zenon DEF Rewritten
<1> HIDE DEF kept, order, r
<1>7. /\ DOMAIN order = 1..Len(order) /\ Len(order) \in 0..n
      /\ \A i \in 1..Len(order) : order[i] \in kept
      /\ \A i, j \in 1..Len(order) : order[i] = order[j] => i = j
  <2>1. DOMAIN order = 1..Len(order) /\ \A i \in 1..Len(order) : order[i] \in kept
    BY <1>5, LenProperties, ElementOfSeq
  <2>2. \A i, j \in 1..Len(order) : order[i] = order[j] => i = j
    BY <1>5, <2>1 DEF IsInjective
  <2> QED
    BY <1>4, <1>5, <2>1, <2>2
<1>8. \A x \in kept : x \in S /\ x \in Id /\ x # None
  BY <1>3, <1>4, NoneIsNoNode DEF Id
<1>9. \A i \in 1..n : /\ i <= Len(order) => r[i] = order[i] /\ r[i] # None /\ r[i] \in kept
                      /\ ~(i <= Len(order)) => r[i] = None
  BY <1>6, <1>7, <1>8
<1>10. Tidy(r, n, S)
  <2>1. r \in [1..n -> Id]
    BY <1>6, <1>7, <1>8 DEF Id
  <2>2. \A i, j \in 1..n : i < j /\ r[j] # None => r[i] # None
    BY <1>7, <1>9
  <2>3. \A i, j \in 1..n : r[i] # None /\ r[i] = r[j] => i = j
    BY <1>7, <1>9
  <2>4. \A i \in 1..n : r[i] # None => r[i] \in S
    BY <1>8, <1>9
  <2> QED
    BY <2>1, <2>2, <2>3, <2>4 DEF Tidy
<1>11. Held(r) = kept
  <2>1. DOMAIN r = 1..n
    BY <1>6
  <2>2. \A x \in Held(r) : x \in kept
    BY <1>9, <2>1 DEF Held, Range
  <2>3. ASSUME NEW x \in kept PROVE x \in Held(r)
    <3>1. PICK i \in 1..Len(order) : x = order[i]
      BY <1>5, <1>7 DEF Range
    <3>2. i \in 1..n /\ r[i] = x /\ x # None
      BY <1>7, <1>8, <1>9, <3>1
    <3> QED
      BY <2>1, <3>2 DEF Held, Range
  <2> QED
    BY <2>2, <2>3
<1> QED
  BY <1>4, <1>10, <1>11 DEF kept, r

LEMMA AddLinkTidy ==
  ASSUME NEW n \in Nat \ {0}, NEW S \in SUBSET Nodes, NEW slots, Tidy(slots, n, S),
         NEW dest \in S, dest \notin Held(slots), NEW src \in Nodes,
         NEW keep \in BOOLEAN
  PROVE  /\ Tidy(AddLink(slots, src, dest, keep), n, S)
         /\ Held(AddLink(slots, src, dest, keep)) \subseteq Held(slots) \cup {dest}
<1>1. CASE Full(slots)
  <2>1. AddLink(slots, src, dest, keep) = Rewritten(slots, src, dest, keep)
    BY <1>1 DEF AddLink
  <2>2. /\ Tidy(Rewritten(slots, src, dest, keep), n, S)
        /\ Held(Rewritten(slots, src, dest, keep)) \subseteq Held(slots) \cup {dest}
    BY <1>1, RewrittenTidy
  <2> QED
    BY <2>1, <2>2
<1>2. CASE ~Full(slots)
  <2>1. AddLink(slots, src, dest, keep) = Appended(slots, dest)
    BY <1>2 DEF AddLink
  <2>2. /\ Tidy(Appended(slots, dest), n, S)
        /\ Held(Appended(slots, dest)) = Held(slots) \cup {dest}
    BY <1>2, AppendedTidy
  <2> QED
    BY <2>1, <2>2
<1> QED
  BY <1>1, <1>2

\* The nearest of some nodes is not pruned.
LEMMA NearestIsOf ==
  ASSUME NEW q \in Nodes, NEW S \in SUBSET Nodes, NEW R \in SUBSET S, S # {},
         Nearest(q, S) \in R, NEW n \in Nat \ {0}
  PROVE  Nearest(q, S) \in NearestOf(q, R, n)
<1> DEFINE v == Nearest(q, S)
<1>1. v \in R /\ \A w \in S : ~Closer(q, w, v)
  BY NearestProperties
<1> HIDE DEF v
<1>2. {w \in R : Closer(q, w, v)} = {}
  BY <1>1
<1>3. Cardinality({}) = 0 /\ 0 < n
  BY FS_EmptySet
<1>4. Cardinality({w \in R : Closer(q, w, v)}) < n
  BY <1>2, <1>3
<1> QED
  BY <1>1, <1>4 DEF NearestOf, v

LEMMA NearestIsGood ==
  ASSUME NEW q \in Nodes, NEW S \in SUBSET Nodes, S # {}
  PROVE  Nearest(q, S) \in Good(q, S)
<1> DEFINE ok(f, v) == \A w \in S : Closer(q, w, v) /\ f[w] =>
                         Distance[<<w, v>>] >= Distance[<<q, v>>]
           good == CHOOSE f : f = [v \in S |-> ok(f, v)]
           d == [v \in S |-> Distance[<<q, v>>]]
           G == [vf \in S \X [S -> BOOLEAN] |-> ok(vf[2], vf[1])]
<1>1. d \in [S -> Nat]
  BY DistanceOrders
<1>2. PICK m \in Nat : \A v \in S : d[v] < m
  <2>1. IsFiniteSet(S)
    BY GraphAssumption, FS_Subset
  <2>2. PICK v \in S : \A w \in S : d[w] <= d[v]
    <3> HIDE DEF d
    <3> QED
      BY <1>1, <2>1, LeastAndGreatest
  <2>3. d[v] + 1 \in Nat /\ \A w \in S : d[w] < d[v] + 1
    <3> HIDE DEF d
    <3> QED
      BY <1>1, <2>2
  <2> QED
    BY <2>3
<1>3. \E f \in [S -> BOOLEAN] : \A v \in S : f[v] = G[<<v, f>>]
  <2>1. G \in [S \X [S -> BOOLEAN] -> BOOLEAN]
    OBVIOUS
  <2>2. ASSUME NEW v \in S, NEW f \in [S -> BOOLEAN], NEW g \in [S -> BOOLEAN],
               \A w \in S : d[w] < d[v] => f[w] = g[w]
        PROVE  G[<<v, f>>] = G[<<v, g>>]
    <3>1. \A w \in S : Closer(q, w, v) => f[w] = g[w]
      BY <2>2 DEF Closer
    <3>2. ok(f, v) <=> ok(g, v)
      <4> HIDE DEF d, G
      <4> QED
        BY <3>1, Zenon
    <3>3. G[<<v, f>>] = ok(f, v) /\ G[<<v, g>>] = ok(g, v)
      <4> HIDE DEF ok
      <4> QED
        OBVIOUS
    <3>4. ok(f, v) \in BOOLEAN /\ ok(g, v) \in BOOLEAN
      OBVIOUS
    <3> HIDE DEF G, ok
    <3> QED
      BY <3>2, <3>3, <3>4
  <2>3. BOOLEAN # {}
    OBVIOUS
  <2> HIDE DEF G, d
  <2>4. Ranked(S, BOOLEAN, d, m, G)
    BY <1>1, <1>2, <2>1, <2>2, <2>3 DEF Ranked
  <2> QED
    BY <2>4, RankRecursion
<1>4. \E f : f = [v \in S |-> ok(f, v)]
  <2>1. PICK f \in [S -> BOOLEAN] : \A v \in S : f[v] = G[<<v, f>>]
    BY <1>3
  <2>2. \A v \in S : f[v] = ok(f, v)
    <3> HIDE DEF ok
    <3> QED
      BY <2>1
  <2>3. f = [v \in S |-> f[v]]
    OBVIOUS
  <2> HIDE DEF ok
  <2>4. f = [v \in S |-> ok(f, v)]
    BY <2>2, <2>3
  <2> QED
    BY <2>4
<1>5. good = [v \in S |-> ok(good, v)]
  BY <1>4
<1>6. Good(q, S) = {v \in S : good[v]}
  BY DEF Good
<1> HIDE DEF good
<1> DEFINE v == Nearest(q, S)
<1>7. v \in S /\ \A w \in S : ~Closer(q, w, v)
  BY NearestProperties
<1> HIDE DEF v
<1>8. ok(good, v)
  BY <1>7
<1>9. good[v]
  <2> HIDE DEF ok
  <2> QED
    BY <1>5, <1>7, <1>8
<1> QED
  BY <1>6, <1>7, <1>9 DEF v

LEMMA ShrinkKeepsNearest ==
  ASSUME NEW q \in Nodes, NEW S \in SUBSET Nodes, S # {}, NEW n \in Nat \ {0},
         NEW keep \in BOOLEAN
  PROVE  Nearest(q, S) \in ShrinkNeighborList(q, S, n, keep)
<1>1. Nearest(q, S) \in Good(q, S) /\ Good(q, S) \in SUBSET S
  BY NearestIsGood DEF Good
<1>2. Nearest(q, S) \in NearestOf(q, Good(q, S), n)
  BY <1>1, NearestIsOf
<1>3. Nearest(q, S) \in Pruned(q, S, n, keep)
  BY <1>2 DEF Pruned
<1> QED
  BY <1>1, <1>3 DEF ShrinkNeighborList

\* For each node of X the slots hold one that is no farther; where lists
\* cannot overflow they hold it itself.
Answered(q, X, slots, n) ==
  /\ \A w \in X : \E u \in Held(slots) : ~Closer(q, w, u)
  /\ n >= Cardinality(Nodes) => X \subseteq Held(slots)

LEMMA AnsweredOnwards ==
  ASSUME NEW q \in Nodes, NEW X \in SUBSET Nodes, NEW Y \in SUBSET Nodes, NEW n,
         NEW s, NEW r, Held(s) \subseteq Nodes, Held(r) \subseteq Nodes,
         Answered(q, X, s, n), Answered(q, Held(s) \cup Y, r, n)
  PROVE  Answered(q, X \cup Y, r, n)
<1> USE DEF Answered
<1>1. \A w \in X : \E u \in Held(r) : ~Closer(q, w, u)
  <2> TAKE w \in X
  <2>1. PICK u \in Held(s) : ~Closer(q, w, u)
    OBVIOUS
  <2>2. PICK z \in Held(r) : ~Closer(q, u, z)
    OBVIOUS
  <2>3. ~Closer(q, w, z)
    <3>1. w \in Nodes /\ u \in Nodes /\ z \in Nodes
      OBVIOUS
    <3>2. /\ Distance[<<q, w>>] \in Nat /\ Distance[<<q, u>>] \in Nat
          /\ Distance[<<q, z>>] \in Nat
      BY <3>1, DistanceOrders
    <3> QED
      BY <2>1, <2>2, <3>2 DEF Closer
  <2> QED
    BY <2>3
<1> QED
  BY <1>1

\* A list with a slot for each node but its own has a free one.
LEMMA NeverFull ==
  ASSUME NEW n \in Nat \ {0}, NEW src \in Nodes, NEW S \in SUBSET (Nodes \ {src}),
         NEW slots, Tidy(slots, n, S), n >= Cardinality(Nodes)
  PROVE  ~Full(slots)
<1> SUFFICES ASSUME Full(slots) PROVE FALSE
  OBVIOUS
<1>1. \A i \in 1..n : slots[i] # None
  <2>1. DOMAIN slots = 1..n /\ Len(slots) = n
    BY SeqDef DEF Tidy
  <2>2. slots[n] # None
    BY <2>1 DEF Full
  <2> QED
    BY <2>2 DEF Tidy
<1>2. slots \in Injection(1..n, S)
  BY <1>1 DEF Tidy, Injection, IsInjective
<1>3. IsFiniteSet(Nodes) /\ IsFiniteSet(S) /\ Cardinality(S) \in Nat
  BY GraphAssumption, FS_Subset, FS_CardinalityType
<1>4. Cardinality(1..n) = n
  BY FS_Interval
<1>5. n <= Cardinality(S)
  BY <1>2, <1>3, <1>4, FS_Injection
<1>6. Cardinality(S) < Cardinality(Nodes)
  <2>1. S \subseteq Nodes /\ S # Nodes
    OBVIOUS
  <2> QED
    BY <1>3, <2>1, FS_Subset, FS_CardinalityType
<1> QED
  BY <1>3, <1>5, <1>6, FS_CardinalityType

\* What add_link has been given is answered by what it leaves.
LEMMA AddLinkAnswers ==
  ASSUME NEW n \in Nat \ {0}, NEW src \in Nodes, NEW S \in SUBSET (Nodes \ {src}),
         NEW slots, Tidy(slots, n, S), NEW dest \in S, dest \notin Held(slots),
         NEW keep \in BOOLEAN
  PROVE  Answered(src, Held(slots) \cup {dest}, AddLink(slots, src, dest, keep), n)
<1> DEFINE X == Held(slots) \cup {dest}
<1>0. X \in SUBSET Nodes /\ X # {}
  BY TidyUsed
<1>1. CASE Full(slots)
  <2>1. AddLink(slots, src, dest, keep) = Rewritten(slots, src, dest, keep)
    BY <1>1 DEF AddLink
  <2>2. Held(Rewritten(slots, src, dest, keep)) = ShrinkNeighborList(src, X, n, keep)
    <3>1. S \in SUBSET Nodes
      OBVIOUS
    <3> QED
      BY <1>1, <3>1, RewrittenTidy
  <2> HIDE DEF X
  <2>3. Nearest(src, X) \in ShrinkNeighborList(src, X, n, keep)
    BY <1>0, ShrinkKeepsNearest
  <2>4. \A w \in X : ~Closer(src, w, Nearest(src, X))
    BY <1>0, NearestProperties
  <2>5. ~(n >= Cardinality(Nodes))
    BY <1>1, NeverFull
  <2> QED
    BY <2>1, <2>2, <2>3, <2>4, <2>5 DEF Answered, X
<1>2. CASE ~Full(slots)
  <2>1. AddLink(slots, src, dest, keep) = Appended(slots, dest)
    BY <1>2 DEF AddLink
  <2>2. Held(Appended(slots, dest)) = X
    BY <1>2, AppendedTidy
  <2> HIDE DEF X
  <2>3. \A w \in X : ~Closer(src, w, w)
    BY <1>0, DistanceOrders
  <2> QED
    BY <2>1, <2>2, <2>3 DEF Answered, X
<1> QED
  BY <1>1, <1>2

\* The own list filled: add_link of each of some distinct nodes.
LEMMA AddLinksTidy ==
  ASSUME NEW n \in Nat \ {0}, NEW src \in Nodes, NEW S \in SUBSET (Nodes \ {src}),
         NEW slots, Tidy(slots, n, S),
         NEW dests \in Seq(S), IsInjective(dests), Range(dests) \cap Held(slots) = {},
         NEW keep \in BOOLEAN
  PROVE  LET list == AddLinks(slots, src, dests, keep) IN
         /\ Tidy(list, n, S)
         /\ Held(list) \subseteq Held(slots) \cup Range(dests)
         /\ Answered(src, Held(slots) \cup Range(dests), list, n)
<1> DEFINE m == Len(dests)
           filled == CHOOSE f : f = [i \in 0..m |->
                       IF i = 0 THEN slots ELSE AddLink(f[i - 1], src, dests[i], keep)]
           so(i) == Held(slots) \cup {dests[j] : j \in 1..i}
<1>1. /\ m \in Nat /\ DOMAIN dests = 1..m /\ Range(dests) = {dests[j] : j \in 1..m}
      /\ \A i \in 1..m : dests[i] \in S
      /\ \A i, j \in 1..m : dests[i] = dests[j] => i = j
  <2>1. DOMAIN dests = 1..m /\ m \in Nat /\ \A i \in 1..m : dests[i] \in S
    BY LenProperties, ElementOfSeq
  <2> QED
    BY <2>1 DEF Range, IsInjective
<1>2. ASSUME NEW s, Tidy(s, n, S), NEW x \in S, x \notin Held(s)
      PROVE  /\ Tidy(AddLink(s, src, x, keep), n, S)
             /\ Held(AddLink(s, src, x, keep)) \subseteq Held(s) \cup {x}
             /\ Answered(src, Held(s) \cup {x}, AddLink(s, src, x, keep), n)
  <2>1. S \in SUBSET Nodes
    OBVIOUS
  <2> QED
    BY <1>2, <2>1, AddLinkTidy, AddLinkAnswers
<1>a. Held(slots) \subseteq S /\ \A s : Tidy(s, n, S) => Held(s) \subseteq S
  BY TidyUsed
<1>b. Answered(src, Held(slots), slots, n)
  <2>1. \A w \in Held(slots) : ~Closer(src, w, w)
    BY <1>a, DistanceOrders
  <2> QED
    BY <2>1 DEF Answered
<1> HIDE DEF m
<1> DEFINE fill(f, i) == IF i = 0 THEN slots ELSE AddLink(f[i - 1], src, dests[i], keep)
           Filled(f, i) == /\ Tidy(f[i], n, S) /\ Held(f[i]) \subseteq so(i)
                           /\ Answered(src, so(i), f[i], n)
<1>3. ASSUME NEW f, NEW k \in 0..m, \A i \in 0..k : f[i] = fill(f, i)
      PROVE  \A i \in 0..k : Filled(f, i)
  <2> DEFINE d == [i \in 0..k |-> i]
             T == {i \in 0..k : Filled(f, i)}
  <2>1. ASSUME NEW i \in 0..k, \A j \in 0..k : d[j] < d[i] => j \in T
        PROVE  i \in T
    <3>1. CASE i = 0
      <4>1. f[0] = slots /\ so(0) = Held(slots)
        BY <1>3, <3>1
      <4> HIDE DEF so
      <4> QED
        BY <1>b, <3>1, <4>1
    <3>2. CASE i # 0
      <4>1. i - 1 \in 0..k /\ i - 1 < i /\ i \in 1..m /\ k \in Nat
        BY <1>1, <3>2
      <4>2. /\ Tidy(f[i - 1], n, S) /\ Held(f[i - 1]) \subseteq so(i - 1)
            /\ Answered(src, so(i - 1), f[i - 1], n)
        BY <2>1, <4>1
      <4>3. dests[i] \in S /\ dests[i] \notin so(i - 1)
        <5>1. dests[i] \notin Held(slots)
          BY <1>1, <4>1
        <5>2. \A j \in 1..(i - 1) : j \in 1..m /\ j # i
          BY <1>1, <4>1
        <5> QED
          BY <1>1, <4>1, <5>1, <5>2
      <4>4. f[i] = AddLink(f[i - 1], src, dests[i], keep)
        BY <1>3, <3>2
      <4>5. /\ Tidy(f[i], n, S) /\ Held(f[i]) \subseteq Held(f[i - 1]) \cup {dests[i]}
            /\ Answered(src, Held(f[i - 1]) \cup {dests[i]}, f[i], n)
        <5>1. dests[i] \notin Held(f[i - 1])
          BY <4>2, <4>3
        <5> HIDE DEF so
        <5>2. PICK s, x : s = f[i - 1] /\ x = dests[i]
          OBVIOUS
        <5>3. Tidy(s, n, S) /\ x \in S /\ x \notin Held(s)
          BY <4>2, <4>3, <5>1, <5>2
        <5>4. /\ Tidy(AddLink(s, src, x, keep), n, S)
              /\ Held(AddLink(s, src, x, keep)) \subseteq Held(s) \cup {x}
              /\ Answered(src, Held(s) \cup {x}, AddLink(s, src, x, keep), n)
          BY <1>2, <5>3
        <5> QED
          BY <4>4, <5>2, <5>4
      <4>6. so(i - 1) \cup {dests[i]} = so(i)
        <5>1. i \in 1..i /\ \A j \in 1..(i - 1) : j \in 1..i
          BY <4>1
        <5>2. \A j \in 1..i : j = i \/ j \in 1..(i - 1)
          BY <4>1
        <5> QED
          BY <5>1, <5>2
      <4>7. so(i - 1) \in SUBSET Nodes
        <5>1. \A j \in 1..(i - 1) : dests[j] \in Nodes
          BY <1>1, <4>1
        <5> QED
          BY <1>a, <5>1
      <4> HIDE DEF so
      <4>8. Answered(src, so(i - 1) \cup {dests[i]}, f[i], n)
        <5>1. {dests[i]} \in SUBSET Nodes /\ Held(f[i - 1]) \subseteq Nodes
              /\ Held(f[i]) \subseteq Nodes
          BY <1>a, <4>2, <4>3, <4>5
        <5> QED
          BY <4>2, <4>5, <4>7, <5>1, AnsweredOnwards
      <4> QED
        BY <4>2, <4>5, <4>6, <4>8
    <3> QED
      BY <3>1, <3>2
  <2>2. d \in [0..k -> Nat]
    BY <1>1
  <2>3. 0..k \subseteq T
    <3> DEFINE D == 0..k
    <3> HIDE DEF d, T
    <3>1. Inherits(D, d, T)
      BY <2>1 DEF Inherits
    <3>2. d \in [D -> Nat]
      BY <2>2
    <3> HIDE DEF D
    <3>3. D \subseteq T
      BY <3>1, <3>2, RankInduction
    <3> QED
      BY <3>3 DEF D
  <2> QED
    BY <2>3
<1>4. \E f : f = [i \in 0..m |-> fill(f, i)]
  <2> DEFINE Solved(k) == \E f : f = [i \in 0..k |-> fill(f, i)]
             Open == {k \in Nat : k <= m /\ ~Solved(k)}
  <2> SUFFICES ASSUME Open # {} PROVE FALSE
    <3>1. m \in Nat /\ m <= m
      BY <1>1
    <3> HIDE DEF Solved
    <3>2. Open = {} => Solved(m)
      BY <3>1
    <3> QED
      BY <3>2 DEF Solved
  <2>1. PICK k \in Open : \A j \in Open : k <= j
    <3>1. Open \in SUBSET Nat
      OBVIOUS
    <3> HIDE DEF Open
    <3> QED
      BY <3>1, LeastNumber
  <2>2. k \in Nat /\ k <= m /\ ~Solved(k)
    BY <2>1
  <2>3. k # 0
    <3> DEFINE f0 == [i \in 0..0 |-> slots]
    <3>1. \A i \in 0..0 : i = 0
      OBVIOUS
    <3>2. f0 = [i \in 0..0 |-> fill(f0, i)]
      BY <3>1
    <3>3. Solved(0)
      <4> HIDE DEF f0, fill
      <4> QED
        BY <3>2
    <3> QED
      BY <2>2, <3>3
  <2>4. k - 1 \in Nat /\ k - 1 <= m /\ ~(k <= k - 1)
    <3> HIDE DEF Solved, Open
    <3> QED
      BY <1>1, <2>2, <2>3
  <2>5. Solved(k - 1)
    <3> HIDE DEF Solved
    <3> QED
      BY <2>1, <2>4
  <2>6. PICK f : f = [i \in 0..(k - 1) |-> fill(f, i)]
    BY <2>5
  <2> DEFINE g == [i \in 0..k |-> IF i < k THEN f[i] ELSE AddLink(f[k - 1], src, dests[k], keep)]
  <2>7. \A i \in 0..k : g[i] = fill(g, i)
    <3> TAKE i \in 0..k
    <3>1. CASE i = 0
      <4>1. i < k /\ i \in 0..(k - 1)
        BY <2>2, <2>3, <3>1
      <4>2. f[i] = fill(f, i)
        <5> HIDE DEF fill
        <5> QED
          BY <2>6, <4>1
      <4> QED
        BY <3>1, <4>1, <4>2
    <3>2. CASE i # 0
      <4>1. i - 1 \in 0..k /\ i - 1 < k /\ (i < k => i \in 0..(k - 1)) /\ (~(i < k) => i = k)
        BY <2>2, <3>2
      <4>2. g[i - 1] = f[i - 1]
        BY <4>1
      <4>3. CASE i < k
        <5>1. f[i] = fill(f, i)
          <6> HIDE DEF fill
          <6> QED
            BY <2>6, <4>1, <4>3
        <5>2. g[i] = f[i]
          BY <4>3
        <5> HIDE DEF g
        <5> QED
          BY <3>2, <4>2, <5>1, <5>2
      <4>4. CASE ~(i < k)
        <5>1. g[i] = AddLink(f[i - 1], src, dests[i], keep)
          BY <4>1, <4>4
        <5> HIDE DEF g
        <5> QED
          BY <3>2, <4>2, <5>1
      <4> QED
        BY <4>3, <4>4
    <3> QED
      BY <3>1, <3>2
  <2>8. Solved(k)
    <3>1. g = [i \in 0..k |-> g[i]]
      OBVIOUS
    <3> HIDE DEF g, fill
    <3>2. g = [i \in 0..k |-> fill(g, i)]
      BY <2>7, <3>1
    <3> QED
      BY <3>2
  <2> HIDE DEF Solved
  <2> QED
    BY <2>2, <2>8
<1>5. filled = [i \in 0..m |-> fill(filled, i)]
  BY <1>4
<1>6. AddLinks(slots, src, dests, keep) = filled[m]
  BY DEF AddLinks, m
<1> HIDE DEF filled
<1>7. Filled(filled, m)
  <2>1. \A i \in 0..m : filled[i] = fill(filled, i)
    <3> HIDE DEF fill
    <3> QED
      BY <1>5
  <2>2. m \in 0..m
    BY <1>1
  <2> HIDE DEF fill, Filled
  <2> QED
    BY <1>3, <2>1, <2>2
<1> QED
  BY <1>1, <1>6, <1>7

-----------------------------------------------------------------------------
(* The descent                                                             *)

\* A greedy walk ends, and in any set that the lists do not lead out of.
LEMMA GreedyStays ==
  ASSUME NEW q \in Nodes, NEW l, NEW n \in Nat, NEW table,
         \A v \in Nodes : table[<<v, l>>] \in [1..n -> Id],
         NEW P \in SUBSET Nodes, \A v \in P : Held(table[<<v, l>>]) \subseteq P,
         NEW start \in P
  PROVE  GreedyUpdateNearest(table, q, l, start) \in P
<1> DEFINE near(v) == {v} \cup ToSet(Used(table[<<v, l>>]))
           best(v) == Nearest(q, near(v))
           walk == CHOOSE f : f = [v \in Nodes |->
                                     IF best(v) = v THEN v ELSE f[best(v)]]
           d == [v \in Nodes |-> Distance[<<q, v>>]]
           G == [vf \in Nodes \X [Nodes -> Nodes] |->
                   IF best(vf[1]) = vf[1] THEN vf[1] ELSE vf[2][best(vf[1])]]
<1>1. ASSUME NEW v \in Nodes
      PROVE  /\ near(v) \in SUBSET Nodes
             /\ v \in P => near(v) \subseteq P
  <2>1. /\ Used(table[<<v, l>>]) \in Seq(Nodes)
        /\ Range(Used(table[<<v, l>>])) \subseteq Held(table[<<v, l>>])
    BY UsedProperties
  <2>2. Range(Used(table[<<v, l>>])) = ToSet(Used(table[<<v, l>>]))
    BY DEF Range, ToSet
  <2>3. Held(table[<<v, l>>]) \subseteq Nodes
    BY DEF Held, Range, Id
  <2> QED
    BY <2>1, <2>2, <2>3
<1>2. ASSUME NEW v \in Nodes
      PROVE  /\ best(v) \in Nodes /\ (v \in P => best(v) \in P)
             /\ best(v) = v \/ d[best(v)] < d[v]
  <2>1. near(v) \in SUBSET Nodes /\ v \in near(v) /\ near(v) # {}
    BY <1>1
  <2>2. best(v) \in near(v) /\ ~Closer(q, v, best(v))
    <3> HIDE DEF near
    <3> QED
      BY <2>1, NearestProperties
  <2>3. best(v) \in Nodes /\ (v \in P => best(v) \in P)
    <3> HIDE DEF near, best
    <3> QED
      BY <1>1, <2>1, <2>2
  <2>4. best(v) = v \/ Closer(q, best(v), v)
    <3> HIDE DEF near, best
    <3> QED
      BY <2>2, <2>3, DistanceOrders
  <2> HIDE DEF near, best
  <2> QED
    BY <2>3, <2>4 DEF Closer
<1> HIDE DEF near, best
<1>3. d \in [Nodes -> Nat]
  BY DistanceOrders
<1>4. PICK m \in Nat : \A v \in Nodes : d[v] < m
  <2>1. PICK v \in Nodes : \A w \in Nodes : d[w] <= d[v]
    <3> HIDE DEF d
    <3> QED
      BY <1>3, GraphAssumption, LeastAndGreatest
  <2>2. d[v] + 1 \in Nat /\ \A w \in Nodes : d[w] < d[v] + 1
    <3> HIDE DEF d
    <3> QED
      BY <1>3, <2>1
  <2> QED
    BY <2>2
<1>5. \E f \in [Nodes -> Nodes] : \A v \in Nodes : f[v] = G[<<v, f>>]
  <2>1. G \in [Nodes \X [Nodes -> Nodes] -> Nodes]
    BY <1>2
  <2>2. \A v \in Nodes : \A f, g \in [Nodes -> Nodes] :
          (\A w \in Nodes : d[w] < d[v] => f[w] = g[w]) => G[<<v, f>>] = G[<<v, g>>]
    <3> TAKE v \in Nodes
    <3> TAKE f, g \in [Nodes -> Nodes]
    <3> HAVE \A w \in Nodes : d[w] < d[v] => f[w] = g[w]
    <3>1. /\ G[<<v, f>>] = IF best(v) = v THEN v ELSE f[best(v)]
          /\ G[<<v, g>>] = IF best(v) = v THEN v ELSE g[best(v)]
      OBVIOUS
    <3> HIDE DEF G, d
    <3> QED
      BY <1>2, <3>1
  <2>3. Nodes # {} /\ m \in Nat /\ \A v \in Nodes : d[v] < m
    BY <1>4, GraphAssumption
  <2> HIDE DEF G, d
  <2>4. Ranked(Nodes, Nodes, d, m, G)
    BY <1>3, <2>1, <2>2, <2>3 DEF Ranked
  <2> QED
    BY <2>4, RankRecursion
<1>6. \E f : f = [v \in Nodes |-> IF best(v) = v THEN v ELSE f[best(v)]]
  <2>1. PICK f \in [Nodes -> Nodes] : \A v \in Nodes : f[v] = G[<<v, f>>]
    BY <1>5
  <2>2. \A v \in Nodes : f[v] = IF best(v) = v THEN v ELSE f[best(v)]
    BY <2>1
  <2>3. f = [v \in Nodes |-> f[v]]
    OBVIOUS
  <2>4. f = [v \in Nodes |-> IF best(v) = v THEN v ELSE f[best(v)]]
    BY <2>2, <2>3
  <2> QED
    BY <2>4
<1>7. \A v \in Nodes : walk[v] = IF best(v) = v THEN v ELSE walk[best(v)]
  <2>1. walk = [v \in Nodes |-> IF best(v) = v THEN v ELSE walk[best(v)]]
    BY <1>6
  <2> HIDE DEF walk
  <2> QED
    BY <2>1
<1>8. GreedyUpdateNearest(table, q, l, start) = walk[start]
  BY DEF GreedyUpdateNearest, best, near
<1> HIDE DEF walk
<1> DEFINE T == {v \in Nodes : v \in P => walk[v] \in P}
<1>9. \A v \in Nodes : (\A w \in Nodes : d[w] < d[v] => w \in T) => v \in T
  <2> HIDE DEF d
  <2> QED
    BY <1>2, <1>7
<1>10. Nodes \subseteq T
  <2> HIDE DEF d, T
  <2>1. Inherits(Nodes, d, T)
    BY <1>9 DEF Inherits
  <2> QED
    BY <1>3, <2>1, RankInduction
<1> QED
  BY <1>8, <1>10

\* A descent walks in such sets at one level after the other.
LEMMA DescendStays ==
  ASSUME NEW q \in Nodes, NEW top \in Int, NEW bottom \in Int, bottom < top,
         NEW size \in [(bottom + 1)..top -> Nat], NEW table,
         \A l \in (bottom + 1)..top, v \in Nodes : table[<<v, l>>] \in [1..size[l] -> Id],
         NEW P \in [(bottom + 1)..top -> SUBSET Nodes],
         \A l \in (bottom + 1)..top : \A v \in P[l] : Held(table[<<v, l>>]) \subseteq P[l],
         \A l \in (bottom + 1)..top : l # top => P[l + 1] \subseteq P[l],
         NEW start \in P[top]
  PROVE  Descend(table, q, start, top, bottom) \in P[bottom + 1]
<1> DEFINE L == (bottom + 1)..top
           from(f, l) == IF l = top THEN start ELSE f[l + 1]
           step(f, l) == GreedyUpdateNearest(table, q, l, from(f, l))
           at == CHOOSE f : f = [l \in L |-> step(f, l)]
           d == [l \in L |-> top - l]
           G == [lf \in L \X [L -> Nodes] |-> step(lf[2], lf[1])]
<1>1. /\ top \in L /\ bottom + 1 \in L
      /\ \A l \in L : l # top => l + 1 \in L
      /\ \A l \in L : d[l] \in Nat /\ d[l] < top - bottom
      /\ \A l \in L : l # top => d[l + 1] < d[l]
      /\ top - bottom \in Nat
  OBVIOUS
<1>2. ASSUME NEW l \in L, NEW v \in Nodes
      PROVE  GreedyUpdateNearest(table, q, l, v) \in Nodes
  <2>1. size[l] \in Nat /\ \A w \in Nodes : table[<<w, l>>] \in [1..size[l] -> Id]
    OBVIOUS
  <2> HIDE DEF L
  <2>2. \A w \in Nodes : Held(table[<<w, l>>]) \subseteq Nodes
    BY <2>1, HeldProperties
  <2> QED
    BY <2>1, <2>2, GreedyStays
<1>3. ASSUME NEW l \in L, NEW v \in P[l]
      PROVE  GreedyUpdateNearest(table, q, l, v) \in P[l]
  <2>1. \A w \in P[l] : Held(table[<<w, l>>]) \subseteq P[l]
    OBVIOUS
  <2>2. /\ size[l] \in Nat /\ \A w \in Nodes : table[<<w, l>>] \in [1..size[l] -> Id]
        /\ P[l] \in SUBSET Nodes
    OBVIOUS
  <2> HIDE DEF L
  <2> QED
    BY <1>3, <2>1, <2>2, GreedyStays
<1>4. start \in Nodes
  BY <1>1
<1> HIDE DEF L
<1>5. d \in [L -> Nat]
  BY <1>1
<1>6. \E f \in [L -> Nodes] : \A l \in L : f[l] = G[<<l, f>>]
  <2>1. \A l \in L, f \in [L -> Nodes] : from(f, l) \in Nodes
    BY <1>1, <1>4
  <2>2. G \in [L \X [L -> Nodes] -> Nodes]
    <3> HIDE DEF from
    <3> QED
      BY <1>2, <2>1
  <2>3. \A l \in L : \A f, g \in [L -> Nodes] :
          (\A k \in L : d[k] < d[l] => f[k] = g[k]) => G[<<l, f>>] = G[<<l, g>>]
    <3> TAKE l \in L
    <3> TAKE f, g \in [L -> Nodes]
    <3> HAVE \A k \in L : d[k] < d[l] => f[k] = g[k]
    <3>1. G[<<l, f>>] = step(f, l) /\ G[<<l, g>>] = step(g, l)
      <4> HIDE DEF step
      <4> QED
        OBVIOUS
    <3>2. from(f, l) = from(g, l)
      <4> HIDE DEF d
      <4> QED
        BY <1>1
    <3> HIDE DEF G, d, from
    <3> QED
      BY <3>1, <3>2
  <2>4. PICK n \in Nat : n = top - bottom
    BY <1>1
  <2>5. Nodes # {} /\ \A l \in L : d[l] < n
    BY <1>1, <2>4, GraphAssumption
  <2> HIDE DEF G, d
  <2>6. Ranked(L, Nodes, d, n, G)
    BY <1>5, <2>2, <2>3, <2>5 DEF Ranked
  <2> QED
    BY <2>6, RankRecursion
<1>7. \E f : f = [l \in L |-> step(f, l)]
  <2>1. PICK f \in [L -> Nodes] : \A l \in L : f[l] = G[<<l, f>>]
    BY <1>6
  <2>2. \A l \in L : f[l] = step(f, l)
    <3> HIDE DEF step
    <3> QED
      BY <2>1
  <2>3. f = [l \in L |-> f[l]]
    OBVIOUS
  <2> HIDE DEF step
  <2>4. f = [l \in L |-> step(f, l)]
    BY <2>2, <2>3
  <2> QED
    BY <2>4
<1>8. \A l \in L : at[l] = step(at, l)
  <2>1. at = [l \in L |-> step(at, l)]
    BY <1>7
  <2> HIDE DEF at, step
  <2> QED
    BY <2>1
<1>9. Descend(table, q, start, top, bottom) = at[bottom + 1]
  BY DEF Descend, L
<1> HIDE DEF at
<1> DEFINE T == {l \in L : at[l] \in P[l]}
<1>10. \A l \in L : (\A k \in L : d[k] < d[l] => k \in T) => l \in T
  <2> TAKE l \in L
  <2> HAVE \A k \in L : d[k] < d[l] => k \in T
  <2>1. from(at, l) \in P[l]
    <3>1. CASE l = top
      BY <3>1
    <3>2. CASE l # top
      <4>1. l + 1 \in L /\ d[l + 1] < d[l]
        BY <1>1, <3>2
      <4>2. at[l + 1] \in P[l + 1]
        <5> HIDE DEF d
        <5> QED
          BY <4>1
      <4>3. P[l + 1] \subseteq P[l]
        BY <3>2 DEF L
      <4> QED
        BY <3>2, <4>2, <4>3
    <3> QED
      BY <3>1, <3>2
  <2> HIDE DEF from
  <2>2. step(at, l) \in P[l]
    BY <1>3, <2>1
  <2> HIDE DEF step
  <2> QED
    BY <1>8, <2>2
<1>11. L \subseteq T
  <2> HIDE DEF d, T
  <2>1. Inherits(L, d, T)
    BY <1>10 DEF Inherits
  <2> QED
    BY <1>5, <2>1, RankInduction
<1> QED
  BY <1>1, <1>9, <1>11

-----------------------------------------------------------------------------
(* The lists while threads fill them                                       *)

\* No parallel bucket is above all earlier calls: only a bucket with one
\* thread raises max_level while others could read it.  True of every graph
\* that is built by one call; hnsw_race shows what happens otherwise.
Calm ==
  \A c \in DOMAIN Calls, l \in Levels :
    LET earlier == UNION {Calls[d] : d \in 1..(c - 1)} IN
    /\ earlier # {} /\ \A v \in earlier : Level[v] < l
    /\ \A v \in Calls[c] : Level[v] <= l
    => Cardinality(InBucket(c, l)) <= ParallelAbove

\* The bucket is above all nodes before it, and not the first.
Rises == Before # {} /\ \A v \in Before : Level[v] < bucket

\* x has been linked at all levels.
Settled(x) == x \in Added /\ \A t \in Threads : Active(t) => pt_id[t] # x

\* x has been linked at level l, or its thread has begun to.
Visible(x, l) == x \in Added /\ \A t \in Threads : Unlinked(t, l) => pt_id[t] # x

\* What a list or search at level l may lead to.
Found(l) == {x \in Nodes : InRange(x, l) /\ Visible(x, l)}

InLevels == {"search", "link_back", "write"}

PlaceOf(t) ==
  /\ pc[t] = "entry" => Rises
  /\ pc[t] = "lock_own" => Settled(nearest[t]) /\ Level[nearest[t]] = max_level
  /\ pc[t] \in InLevels =>
       level[t] \in 0..bucket /\ Settled(nearest[t]) /\ InRange(nearest[t], level[t])

SearchOf(t) ==
  /\ results[t] \cup candidates[t] \subseteq visited[t]
  /\ Cardinality(results[t]) <= EfConstruction
  /\ pc[t] = "search" => visited[t] \subseteq Found(level[t]) /\ locks[pt_id[t]] = {t}

BackOf(t) ==
  /\ pc[t] \in {"link_back", "write"} =>
       /\ IsInjective(targets[t])
       /\ Range(targets[t]) \subseteq Found(level[t]) \ {pt_id[t]}
       /\ \A w \in Range(targets[t]) : pt_id[t] \notin Held(neighbors[<<w, level[t]>>])
  /\ pc[t] = "write" =>
       LET w == Head(targets[t]) IN
       /\ targets[t] # <<>> /\ locks[w] = {t}
       /\ pending[t] = AddLink(neighbors[<<w, level[t]>>], w, pt_id[t], Keep(t))

\* The list of a node that nobody can have found is empty.
ListOf(v, l) ==
  /\ Tidy(neighbors[<<v, l>>], NbNeighbors[l], Found(l) \ {v})
  /\ ~Visible(v, l) => Held(neighbors[<<v, l>>]) = {}

Typed ==
  /\ neighbors \in [Nodes \X Levels -> Seq(Id)]
  /\ locks \in [Nodes -> {{}} \cup {{t} : t \in Threads}]
  /\ nearest \in [Threads -> Id] /\ level \in [Threads -> Levels \cup {-1}]
  /\ candidates \in [Threads -> SUBSET Nodes] /\ results \in [Threads -> SUBSET Nodes]
  /\ visited \in [Threads -> SUBSET Nodes]
  /\ targets \in [Threads -> Seq(Nodes)] /\ pending \in [Threads -> Seq(Id)]

LInv ==
  /\ EInv /\ Typed
  /\ entry_point # None => Settled(entry_point)
  /\ \A t \in Threads : PlaceOf(t) /\ SearchOf(t) /\ BackOf(t)
  /\ \A v \in Nodes, l \in Levels : ListOf(v, l)

-----------------------------------------------------------------------------
(* What a step leaves to the others                                        *)

LEMMA LevelsBelow ==
  ASSUME EInv
  PROVE  /\ bucket \in Nat /\ 0..bucket \subseteq Levels
         /\ \A l \in Levels : NbNeighbors[l] \in Nat \ {0} /\ l \in Nat
         /\ \A v \in Nodes : Level[v] \in Nat
<1>1. /\ Max(Levels) \in Nat /\ Levels = 0..Max(Levels) /\ bucket \in Levels
  BY LevelsProperties DEF EInv, Control
<1>2. \A l \in Levels : NbNeighbors[l] \in Nat \ {0}
  BY GraphAssumption DEF Levels
<1>3. \A v \in Nodes : Level[v] \in Nat
  BY GraphAssumption
<1>4. bucket \in Nat /\ 0..bucket \subseteq Levels /\ \A l \in Levels : l \in Nat
  <2> DEFINE m == Max(Levels)
  <2>1. m \in Nat /\ Levels = 0..m /\ bucket \in Levels
    BY <1>1
  <2> HIDE DEF m
  <2> QED
    BY <2>1
<1> QED
  BY <1>2, <1>3, <1>4

LEMMA OthersStay ==
  ASSUME EInv, Typed, NEW t \in Threads, Step(t), NEW u \in Threads \ {t}
  PROVE  /\ pc'[u] = pc[u] /\ pt_id'[u] = pt_id[u]
         /\ nearest'[u] = nearest[u] /\ level'[u] = level[u]
         /\ candidates'[u] = candidates[u] /\ results'[u] = results[u]
         /\ visited'[u] = visited[u] /\ targets'[u] = targets[u]
         /\ pending'[u] = pending[u]
<1> USE DEF EInv, Control, Typed, Set, Goto, place, search
<1>1. CASE \E v \in Nodes : TakeNode(t, v)
  BY <1>1 DEF TakeNode
<1>2. CASE Enter(t)
  BY <1>2 DEF Enter
<1>3. CASE LockOwn(t)
  BY <1>3 DEF LockOwn, StartSearch
<1>4. CASE Expand(t)
  BY <1>4 DEF Expand
<1>5. CASE LinkOwn(t)
  BY <1>5 DEF LinkOwn
<1>6. CASE StartLinkBack(t)
  BY <1>6 DEF StartLinkBack
<1>7. CASE EndLinkBack(t)
  BY <1>7 DEF EndLinkBack
<1>8. CASE Relock(t)
  BY <1>8 DEF Relock, StartSearch
<1>9. CASE RaiseMaxLevel(t)
  BY <1>9 DEF RaiseMaxLevel
<1>10. CASE RaiseEntryPoint(t)
  BY <1>10 DEF RaiseEntryPoint
<1> QED
  BY <1>1, <1>2, <1>3, <1>4, <1>5, <1>6, <1>7, <1>8, <1>9, <1>10 DEF Step

\* Nodes that can be found still can.
Growing ==
  /\ bucket' = bucket /\ Before' = Before /\ Added \subseteq Added'
  /\ \A x : Settled(x) => Settled(x)'
  /\ \A x, l : l \in Int /\ Visible(x, l) => Visible(x, l)'

LEMMA Grows ==
  ASSUME EInv, Typed, NEW t \in Threads, Step(t)
  PROVE  EInv' /\ Growing
<1>1. EInv'
  BY StepKeepsEntry
<1>2. CASE \E v \in Nodes : TakeNode(t, v)
  <2>1. PICK v \in Nodes : TakeNode(t, v)
    BY <1>2
  <2>2. /\ callNo' = callNo /\ bucket' = bucket /\ todo' = todo \ {v} /\ v \in todo
        /\ pt_id' = [pt_id EXCEPT ![t] = v] /\ pc' = [pc EXCEPT ![t] = "enter"]
        /\ level' = level
    BY <2>1 DEF TakeNode, Set, Goto
  <2>3. Before' = Before /\ Added \subseteq Added'
    BY <2>2 DEF Before, Added, InBucket
  <2>4. v \notin Added
    <3>1. v \in Calls[callNo] /\ Level[v] = bucket /\ v \in todo /\ v \in Nodes
      BY <2>2 DEF EInv, Control, InBucket
    <3>2. v \notin Before
      <4>1. \A c \in 1..(callNo - 1) : c \in DOMAIN Calls /\ c # callNo
        BY CallsProperties DEF EInv, Control
      <4>2. \A c \in 1..(callNo - 1) : v \notin Calls[c]
        BY <3>1, <4>1, CallsProperties DEF EInv, Control
      <4>3. ~(Level[v] > bucket)
        BY <3>1, LevelsBelow
      <4> QED
        BY <4>2, <4>3 DEF Before
    <3> QED
      BY <3>1, <3>2 DEF Added
  <2>5. /\ pc'[t] = "enter" /\ pt_id'[t] = v
        /\ \A u \in Threads \ {t} : pc'[u] = pc[u] /\ pt_id'[u] = pt_id[u]
    BY <2>2 DEF EInv, Control
  <2>6. ASSUME NEW x, x \in Added
        PROVE  x \in Added' /\ x # v
    BY <2>3, <2>4, <2>6
  <2>7. ASSUME NEW x, Settled(x)
        PROVE  Settled(x)'
    BY <2>5, <2>6, <2>7 DEF Settled, Active
  <2>8. ASSUME NEW x, NEW l, Visible(x, l)
        PROVE  Visible(x, l)'
    BY <2>2, <2>5, <2>6, <2>8 DEF Visible, Unlinked
  <2> QED
    BY <1>1, <2>2, <2>3, <2>7, <2>8 DEF Growing
<1>3. CASE ~ \E v \in Nodes : TakeNode(t, v)
  <2>1. Moves(t)
    BY <1>3, StepsMove DEF EInv
  <2>2. /\ Added' = Added /\ Before' = Before /\ bucket' = bucket
        /\ \A u \in Threads \ {t} : pc'[u] = pc[u] /\ level'[u] = level[u]
        /\ \A u \in Threads : pt_id'[u] = pt_id[u]
        /\ Active(t)
    BY <2>1, MovesKeepControl, OthersStay DEF EInv, Moves, work
  <2>3. ASSUME NEW l \in Int, Unlinked(t, l)'
        PROVE  Unlinked(t, l)
    <3>0. level[t] \in Int
      <4>1. \A k \in Levels : k \in Nat
        BY LevelsBelow
      <4>2. level[t] \in Levels \cup {-1}
        BY DEF Typed
      <4> QED
        BY <4>1, <4>2
    <3> USE DEF Unlinked, Goto, Set, EInv, Control, place
    <3>1. CASE Enter(t)
      BY <3>1 DEF Enter
    <3>2. CASE LockOwn(t)
      BY <3>2 DEF LockOwn
    <3>3. CASE Expand(t)
      BY <2>3, <3>3 DEF Expand
    <3>4. CASE LinkOwn(t)
      <4>1. pc[t] = "search" /\ pc'[t] = "link_back" /\ level'[t] = level[t]
        BY <3>4 DEF LinkOwn
      <4> QED
        BY <2>3, <3>0, <4>1
    <3>5. CASE StartLinkBack(t) \/ EndLinkBack(t)
      BY <2>3, <3>5 DEF StartLinkBack, EndLinkBack
    <3>6. CASE Relock(t)
      <4>1. level[t] \in Int /\ level'[t] = level[t] - 1
        BY <3>0, <3>6 DEF Relock, Typed
      <4>2. pc[t] = "link_back" /\ pc'[t] \in {"search", "finish"}
        BY <3>6 DEF Relock, StartSearch
      <4> QED
        BY <2>3, <4>1, <4>2
    <3>7. CASE RaiseMaxLevel(t) \/ RaiseEntryPoint(t)
      <4>1. pc'[t] \in {"entry", "idle"}
        BY <3>7 DEF RaiseMaxLevel, RaiseEntryPoint
      <4> QED
        BY <2>3, <4>1
    <3> QED
      BY <1>3, <3>1, <3>2, <3>3, <3>4, <3>5, <3>6, <3>7 DEF Step
  <2>4. ASSUME NEW x, Settled(x)
        PROVE  Settled(x)'
    BY <2>2, <2>4 DEF Settled, Active
  <2>5. ASSUME NEW x, NEW l \in Int, Visible(x, l)
        PROVE  Visible(x, l)'
    <3>1. ASSUME NEW u \in Threads, Unlinked(u, l)'
          PROVE  Unlinked(u, l)
      <4>1. CASE u = t
        BY <2>3, <3>1, <4>1
      <4>2. CASE u # t
        BY <2>2, <3>1, <4>2 DEF Unlinked
      <4> QED
        BY <4>1, <4>2
    <3> QED
      BY <2>2, <2>5, <3>1 DEF Visible
  <2> QED
    BY <1>1, <2>2, <2>4, <2>5 DEF Growing
<1> QED
  BY <1>2, <1>3

\* The thread's own node, and what it has found.
LEMMA OwnNode ==
  ASSUME EInv, NEW t \in Threads, Active(t)
  PROVE  /\ pt_id[t] \in Nodes /\ pt_id[t] \in Added /\ Level[pt_id[t]] = bucket
         /\ Keep(t) \in BOOLEAN
         /\ \A l : Unlinked(t, l) => ~Visible(pt_id[t], l)
         /\ \A l : ~Unlinked(t, l) => Visible(pt_id[t], l)
<1>1. pt_id[t] \in Added /\ Level[pt_id[t]] = bucket /\ pt_id[t] \in Nodes
  BY AddedNodes DEF EInv
<1>2. \A l : Unlinked(t, l) => ~Visible(pt_id[t], l)
  BY DEF Visible
<1>3. \A u \in Threads : \A l : Unlinked(u, l) /\ pt_id[u] = pt_id[t] => u = t
  BY DEF EInv, Control, Active, Unlinked
<1>4. \A l : ~Unlinked(t, l) => Visible(pt_id[t], l)
  BY <1>1, <1>3 DEF Visible
<1>5. Keep(t) \in BOOLEAN
  BY BuildAssumption DEF Keep
<1> QED
  BY <1>1, <1>2, <1>4, <1>5

\* What add_link makes of the next target's list.
LEMMA BackLink ==
  ASSUME LInv, NEW t \in Threads, pc[t] \in {"link_back", "write"}, targets[t] # <<>>
  PROVE  LET w == Head(targets[t])
             l == level[t]
             list == AddLink(neighbors[<<w, l>>], w, pt_id[t], Keep(t)) IN
         /\ l \in Levels /\ w \in Range(targets[t]) /\ w \in Found(l)
         /\ w \in Nodes /\ w # pt_id[t]
         /\ Tidy(list, NbNeighbors[l], Found(l) \ {w})
         /\ Held(list) \subseteq Held(neighbors[<<w, l>>]) \cup {pt_id[t]}
         /\ Answered(w, Held(neighbors[<<w, l>>]) \cup {pt_id[t]}, list, NbNeighbors[l])
         /\ list \in Seq(Id)
<1> DEFINE w == Head(targets[t])
           l == level[t]
           v == pt_id[t]
           n == NbNeighbors[l]
           list == AddLink(neighbors[<<w, l>>], w, v, Keep(t))
<1>1. /\ IsInjective(targets[t]) /\ Range(targets[t]) \subseteq Found(l) \ {v}
      /\ \A x \in Range(targets[t]) : v \notin Held(neighbors[<<x, l>>])
      /\ targets[t] \in Seq(Nodes)
  BY DEF LInv, BackOf, Typed
<1>2. w \in Range(targets[t])
  BY <1>1, TailTakes
<1>3. l \in 0..bucket
  BY DEF LInv, PlaceOf, InLevels
<1>4. bucket \in Nat /\ l \in Levels /\ n \in Nat \ {0} /\ l \in Nat
  BY <1>3, LevelsBelow DEF LInv
<1>5. /\ v \in Nodes /\ Level[v] = bucket /\ Keep(t) \in BOOLEAN
      /\ ~Unlinked(t, l) => Visible(v, l)
  BY OwnNode DEF LInv, Active
<1>6. ~Unlinked(t, l)
  BY <1>4 DEF Unlinked
<1>7. v \in Found(l)
  BY <1>3, <1>4, <1>5, <1>6 DEF Found, InRange
<1>8. w \in Found(l) /\ w \in Nodes /\ w # v /\ v \notin Held(neighbors[<<w, l>>])
  BY <1>1, <1>2 DEF Found
<1>9. Tidy(neighbors[<<w, l>>], n, Found(l) \ {w})
  BY <1>4, <1>8 DEF LInv, ListOf
<1>10. Found(l) \ {w} \in SUBSET Nodes /\ v \in Found(l) \ {w}
  BY <1>7, <1>8 DEF Found
<1>11. /\ Tidy(list, n, Found(l) \ {w})
       /\ Held(list) \subseteq Held(neighbors[<<w, l>>]) \cup {v}
       /\ Answered(w, Held(neighbors[<<w, l>>]) \cup {v}, list, n)
  <2> DEFINE S == Found(l) \ {w}
             slots == neighbors[<<w, l>>]
  <2>1. Tidy(slots, n, S) /\ S \in SUBSET Nodes /\ v \in S /\ v \notin Held(slots)
    BY <1>8, <1>9, <1>10
  <2>2. /\ w \in Nodes /\ Keep(t) \in BOOLEAN /\ n \in Nat \ {0}
        /\ S \in SUBSET (Nodes \ {w})
    BY <1>4, <1>5, <1>8, <2>1
  <2> HIDE DEF S, slots, w, v, n
  <2>3. /\ Tidy(AddLink(slots, w, v, Keep(t)), n, S)
        /\ Held(AddLink(slots, w, v, Keep(t))) \subseteq Held(slots) \cup {v}
        /\ Answered(w, Held(slots) \cup {v}, AddLink(slots, w, v, Keep(t)), n)
    BY <2>1, <2>2, AddLinkTidy, AddLinkAnswers
  <2> QED
    BY <2>3 DEF S, slots
<1>12. list \in Seq(Id)
  <2> HIDE DEF list, n
  <2>1. list \in [1..n -> Id]
    BY <1>11 DEF Tidy
  <2> QED
    BY <1>4, <2>1, SeqDef
<1> QED
  BY <1>2, <1>4, <1>8, <1>11, <1>12

\* A list changes only under the lock of its node.
LEMMA LocksAndLists ==
  ASSUME LInv, NEW t \in Threads, Step(t)
  PROVE  /\ \A w \in Nodes : \/ locks'[w] = locks[w]
                             \/ locks[w] = {} /\ locks'[w] = {t}
                             \/ locks[w] = {t} /\ locks'[w] = {}
         /\ locks' \in [Nodes -> {{}} \cup {{u} : u \in Threads}]
         /\ \A w \in Nodes, l \in Levels :
              \/ neighbors'[<<w, l>>] = neighbors[<<w, l>>]
              \/ /\ LinkOwn(t) /\ w = pt_id[t] /\ l = level[t] /\ locks[w] = {t}
              \/ /\ EndLinkBack(t) /\ w = Head(targets[t]) /\ l = level[t]
                 /\ locks[w] = {t} /\ neighbors'[<<w, l>>] = pending[t]
<1> USE DEF Set
<1>1. /\ locks \in [Nodes -> {{}} \cup {{u} : u \in Threads}]
      /\ neighbors \in [Nodes \X Levels -> Seq(Id)]
  BY DEF LInv, Typed
<1>2. CASE \E v \in Nodes : TakeNode(t, v)
  BY <1>1, <1>2 DEF TakeNode
<1>3. CASE Enter(t)
  BY <1>1, <1>3 DEF Enter
<1>4. CASE LockOwn(t)
  BY <1>1, <1>4 DEF LockOwn, Acquire
<1>5. CASE Expand(t)
  BY <1>1, <1>5 DEF Expand
<1>6. CASE LinkOwn(t)
  <2>1. pc[t] = "search" /\ locks' = [locks EXCEPT ![pt_id[t]] = {}]
        /\ \A x \in Nodes \X Levels : x # <<pt_id[t], level[t]>> =>
             neighbors'[x] = neighbors[x]
    BY <1>1, <1>6 DEF LinkOwn
  <2>2. locks[pt_id[t]] = {t}
    BY <2>1 DEF LInv, SearchOf
  <2>3. \A w \in Nodes, l \in Levels :
          neighbors'[<<w, l>>] = neighbors[<<w, l>>] \/ (w = pt_id[t] /\ l = level[t])
    BY <2>1
  <2> QED
    BY <1>1, <1>6, <2>1, <2>2, <2>3
<1>7. CASE StartLinkBack(t)
  BY <1>1, <1>7 DEF StartLinkBack, Acquire
<1>8. CASE EndLinkBack(t)
  <2>1. /\ pc[t] = "write" /\ locks' = [locks EXCEPT ![Head(targets[t])] = {}]
        /\ neighbors' = [neighbors EXCEPT ![<<Head(targets[t]), level[t]>>] = pending[t]]
    BY <1>8 DEF EndLinkBack
  <2>2. locks[Head(targets[t])] = {t}
    BY <2>1 DEF LInv, BackOf
  <2>3. \A w \in Nodes, l \in Levels :
          \/ neighbors'[<<w, l>>] = neighbors[<<w, l>>]
          \/ w = Head(targets[t]) /\ l = level[t] /\ neighbors'[<<w, l>>] = pending[t]
    BY <1>1, <2>1
  <2> QED
    BY <1>1, <1>8, <2>1, <2>2, <2>3
<1>9. CASE Relock(t)
  BY <1>1, <1>9 DEF Relock, Acquire
<1>10. CASE RaiseMaxLevel(t) \/ RaiseEntryPoint(t)
  BY <1>1, <1>10 DEF RaiseMaxLevel, RaiseEntryPoint
<1> QED
  BY <1>2, <1>3, <1>4, <1>5, <1>6, <1>7, <1>8, <1>9, <1>10 DEF Step

\* A bucket above all before it has one thread.
LEMMA SoleThread ==
  ASSUME EInv, Calm, Rises, NEW t \in Threads, NEW u \in Threads, Active(t), Active(u)
  PROVE  t = u
<1>1. callNo \in DOMAIN Calls /\ bucket \in Levels /\ MayRun(t) /\ MayRun(u)
  BY DEF EInv, Control
<1> DEFINE earlier == UNION {Calls[d] : d \in 1..(callNo - 1)}
           high == {v \in Calls[callNo] : Level[v] > bucket}
<1>2. Before = earlier \cup high
  BY DEF Before
<1>3. bucket \in Nat /\ \A v \in Nodes : Level[v] \in Nat
  BY LevelsBelow
<1>4. Calls[callNo] \subseteq Nodes
  BY <1>1, CallsProperties
<1>5. high = {}
  BY <1>2, <1>3, <1>4 DEF Rises
<1>6. /\ earlier # {} /\ \A v \in earlier : Level[v] < bucket
      /\ \A v \in Calls[callNo] : Level[v] <= bucket
  BY <1>2, <1>3, <1>4, <1>5 DEF Rises
<1>7. Cardinality(InBucket(callNo, bucket)) <= ParallelAbove
  BY <1>1, <1>6 DEF Calm
<1>8. IsFiniteSet(InBucket(callNo, bucket)) /\ ParallelAbove \in Nat
  <2>1. InBucket(callNo, bucket) \subseteq Nodes
    BY <1>4 DEF InBucket
  <2> QED
    BY <2>1, GraphAssumption, BuildAssumption, FS_Subset
<1>9. ~(Cardinality(InBucket(callNo, bucket)) > ParallelAbove)
  BY <1>7, <1>8, FS_CardinalityType
<1> QED
  BY <1>1, <1>9 DEF MayRun

\* Who raises max_level is of a bucket above all before it.
LEMMA RaisedBelow ==
  ASSUME EInv, NEW t \in Threads, RaiseMaxLevel(t), Level[pt_id[t]] > max_level
  PROVE  Rises
<1>1. pc[t] = "finish" /\ entry_point # None
  BY DEF RaiseMaxLevel, EInv, EntryFollows
<1>2. Level[pt_id[t]] = bucket /\ bucket \in Nat /\ \A v \in Nodes : Level[v] \in Nat
  BY <1>1, OwnNode, LevelsBelow DEF Active
<1>3. /\ \E v \in Added : max_level = Level[v]
      /\ \A v \in Added :
           \/ Level[v] <= max_level
           \/ \E u \in Threads : pc[u] \notin {"idle", "entry"} /\ pt_id[u] = v
  BY <1>1 DEF EInv, EntryFollows
<1>4. Added \subseteq Nodes /\ callNo \in DOMAIN Calls
  BY AddedNodes DEF EInv, Control
<1>5. \A v \in Before : v \in Added /\ \A u \in Threads : Active(u) => pt_id[u] # v
  <2> TAKE v \in Before
  <2>1. v \in Added
    BY DEF Added
  <2>2. SUFFICES ASSUME NEW u \in Threads, Active(u), pt_id[u] = v PROVE FALSE
    BY <2>1
  <2>3. v \in Calls[callNo] /\ Level[v] = bucket /\ v \in Nodes
    BY <2>2, OwnNode DEF EInv, Control, InBucket
  <2>4. PICK c \in 1..(callNo - 1) : v \in Calls[c]
    BY <1>2, <2>3 DEF Before
  <2>5. c \in DOMAIN Calls /\ c # callNo
    BY <1>4, CallsProperties
  <2> QED
    BY <1>4, <2>3, <2>4, <2>5, CallsProperties
<1>6. max_level \in Nat /\ bucket > max_level
  BY <1>2, <1>3, <1>4
<1>7. \A v \in Before : Level[v] < bucket
  <2> TAKE v \in Before
  <2>1. v \in Nodes /\ Level[v] <= max_level
    BY <1>3, <1>4, <1>5 DEF Active
  <2> QED
    BY <1>2, <1>6, <2>1
<1>8. Before # {}
  <2>1. PICK v \in Added : max_level = Level[v]
    BY <1>3
  <2>2. Level[v] # bucket
    BY <1>2, <1>6, <2>1
  <2> QED
    BY <2>2 DEF Added, InBucket
<1> QED
  BY <1>7, <1>8 DEF Rises

LEMMA MaxLevelStays ==
  ASSUME EInv, NEW t \in Threads, Step(t)
  PROVE  \/ max_level' = max_level \/ entry_point = None
         \/ Rises /\ Active(t)
<1>1. CASE RaiseMaxLevel(t)
  BY <1>1, RaisedBelow DEF RaiseMaxLevel, Active
<1>2. CASE Enter(t)
  BY <1>2 DEF Enter, shared
<1>3. CASE ~RaiseMaxLevel(t) /\ ~Enter(t)
  BY <1>3 DEF Step, TakeNode, LockOwn, Expand, LinkOwn, StartLinkBack, EndLinkBack,
              Relock, RaiseEntryPoint, shared
<1> QED
  BY <1>1, <1>2, <1>3

\* What the other threads rely on stays.
LEMMA OthersKeep ==
  ASSUME LInv, Calm, NEW t \in Threads, Step(t), NEW u \in Threads \ {t}
  PROVE  PlaceOf(u)' /\ SearchOf(u)' /\ BackOf(u)'
<1>1. EInv /\ Typed /\ PlaceOf(u) /\ SearchOf(u) /\ BackOf(u) /\ Growing
  BY Grows DEF LInv
<1>2. /\ pc'[u] = pc[u] /\ pt_id'[u] = pt_id[u]
      /\ nearest'[u] = nearest[u] /\ level'[u] = level[u]
      /\ candidates'[u] = candidates[u] /\ results'[u] = results[u]
      /\ visited'[u] = visited[u] /\ targets'[u] = targets[u]
      /\ pending'[u] = pending[u]
  BY <1>1, OthersStay
<1>3. /\ bucket' = bucket /\ Before' = Before
      /\ \A x : Settled(x) => Settled(x)'
      /\ \A l \in Int : \A x : Visible(x, l) => Visible(x, l)'
  BY <1>1 DEF Growing
<1>4. \A l \in Int : Found(l) \subseteq Found(l)'
  <2> TAKE l \in Int
  <2> QED
    BY <1>3 DEF Found, InRange
<1>5. \A w \in Nodes : locks[w] = {u} => locks'[w] = {u}
  BY LocksAndLists
<1>6. pc[u] \in InLevels => level[u] \in Int /\ level[u] \in Levels
  BY <1>1, LevelsBelow DEF PlaceOf
<1>7. PlaceOf(u)'
  <2>1. pc'[u] = "entry" => Rises'
    BY <1>1, <1>2, <1>3 DEF PlaceOf, Rises
  <2>2. pc'[u] = "lock_own" => Settled(nearest[u])' /\ Level[nearest'[u]] = max_level'
    <3> SUFFICES ASSUME pc[u] = "lock_own"
                 PROVE  Settled(nearest[u])' /\ Level[nearest'[u]] = max_level'
      BY <1>2
    <3>1. entry_point # None
      BY <1>1 DEF EInv, EntryFollows
    <3>2. max_level' = max_level
      BY <1>1, <3>1, MaxLevelStays, SoleThread DEF Active
    <3>3. Settled(nearest[u]) /\ Level[nearest[u]] = max_level
      BY <1>1 DEF PlaceOf
    <3> QED
      BY <1>2, <1>3, <3>2, <3>3 DEF Settled
  <2>3. pc'[u] \in InLevels =>
          level'[u] \in 0..bucket' /\ Settled(nearest[u])' /\ InRange(nearest'[u], level'[u])
    <3> SUFFICES ASSUME pc[u] \in InLevels
                 PROVE  level'[u] \in 0..bucket' /\ Settled(nearest[u])' /\ InRange(nearest'[u], level'[u])
      BY <1>2
    <3>1. level[u] \in 0..bucket /\ Settled(nearest[u]) /\ InRange(nearest[u], level[u])
      BY <1>1 DEF PlaceOf
    <3> QED
      BY <1>2, <1>3, <3>1 DEF Settled, InRange
  <2> QED
    BY <2>1, <2>2, <2>3 DEF PlaceOf, InLevels, InRange
<1>8. SearchOf(u)'
  <2>1. /\ results'[u] \cup candidates'[u] \subseteq visited'[u]
        /\ Cardinality(results'[u]) <= EfConstruction
    BY <1>1, <1>2 DEF SearchOf
  <2>2. ASSUME pc'[u] = "search"
        PROVE  visited'[u] \subseteq Found(level[u])' /\ locks'[pt_id'[u]] = {u}
    <3>1. visited[u] \subseteq Found(level[u]) /\ locks[pt_id[u]] = {u}
      BY <1>1, <1>2, <2>2 DEF SearchOf
    <3>2. pt_id[u] \in Nodes
      BY <1>1, <1>2, <2>2, OwnNode DEF Active
    <3>3. Found(level[u]) \subseteq Found(level[u])'
      <4>1. level[u] \in Int
        BY <1>2, <1>6, <2>2 DEF InLevels
      <4>2. PICK l \in Int : l = level[u]
        BY <4>1
      <4> QED
        BY <1>2, <1>4, <4>2 DEF Found, Visible
    <3> QED
      BY <1>2, <1>5, <3>1, <3>2, <3>3
  <2> QED
    BY <1>2, <2>1, <2>2 DEF SearchOf, Found, Visible
<1>9. ASSUME pc[u] \in {"link_back", "write"}
      PROVE  /\ level[u] \in Levels /\ level[u] \in Int
             /\ IsInjective(targets[u]) /\ targets[u] \in Seq(Nodes)
             /\ Range(targets[u]) \subseteq Found(level[u]) \ {pt_id[u]}
             /\ \A w \in Range(targets[u]) :
                  w \in Nodes /\ pt_id[u] \notin Held(neighbors'[<<w, level[u]>>])
  <2> DEFINE l == level[u]
  <2>1. /\ l \in Levels /\ l \in Int
        /\ IsInjective(targets[u]) /\ targets[u] \in Seq(Nodes)
        /\ Range(targets[u]) \subseteq Found(l) \ {pt_id[u]}
        /\ \A w \in Range(targets[u]) : pt_id[u] \notin Held(neighbors[<<w, l>>])
    BY <1>1, <1>6, <1>9 DEF BackOf, Typed, InLevels
  <2> HIDE DEF l
  <2>2. ASSUME NEW w \in Range(targets[u])
        PROVE  w \in Nodes /\ pt_id[u] \notin Held(neighbors'[<<w, l>>])
    <3>1. w \in Nodes /\ Visible(w, l)
      BY <2>1 DEF Found
    <3>2. CASE neighbors'[<<w, l>>] = neighbors[<<w, l>>]
      BY <2>1, <3>1, <3>2
    <3>3. CASE LinkOwn(t) /\ w = pt_id[t] /\ l = level[t]
      <4>1. pc[t] = "search" /\ l <= level[t] /\ Active(t)
        BY <2>1, <3>3 DEF LinkOwn, Active
      <4>2. Unlinked(t, l)
        BY <4>1 DEF Unlinked
      <4> QED
        BY <1>1, <3>1, <3>3, <4>1, <4>2, OwnNode
    <3>4. CASE EndLinkBack(t) /\ w = Head(targets[t]) /\ l = level[t]
               /\ neighbors'[<<w, l>>] = pending[t]
      <4>1. /\ pc[t] = "write" /\ targets[t] # <<>>
            /\ pending[t] = AddLink(neighbors[<<w, l>>], w, pt_id[t], Keep(t))
        BY <3>4 DEF EndLinkBack, LInv, BackOf
      <4>2. Held(pending[t]) \subseteq Held(neighbors[<<w, l>>]) \cup {pt_id[t]}
        BY <3>4, <4>1, BackLink
      <4>3. pt_id[u] # pt_id[t]
        BY <1>1, <1>9, <4>1 DEF EInv, Control, Active
      <4> QED
        BY <2>1, <3>1, <3>4, <4>2, <4>3
    <3> QED
      BY <2>1, <3>1, <3>2, <3>3, <3>4, LocksAndLists
  <2> QED
    BY <2>1, <2>2 DEF l
<1>10. ASSUME pc[u] = "write"
       PROVE  LET w == Head(targets[u]) IN
              /\ targets[u] # <<>> /\ locks'[w] = {u}
              /\ pending[u] = AddLink(neighbors'[<<w, level[u]>>], w, pt_id[u], Keep(u))
  <2> DEFINE w == Head(targets[u])
  <2>1. /\ targets[u] # <<>> /\ locks[w] = {u}
        /\ pending[u] = AddLink(neighbors[<<w, level[u]>>], w, pt_id[u], Keep(u))
    BY <1>1, <1>10 DEF BackOf
  <2>2. w \in Range(targets[u])
    BY <1>9, <1>10, <2>1, TailTakes
  <2>3. w \in Nodes /\ level[u] \in Levels
    BY <1>9, <1>10, <2>2
  <2> HIDE DEF w
  <2>4. locks[w] # {t}
    BY <2>1
  <2>5. neighbors'[<<w, level[u]>>] = neighbors[<<w, level[u]>>]
    BY <2>3, <2>4, LocksAndLists
  <2> QED
    BY <1>5, <2>1, <2>3, <2>5 DEF w
<1>11. BackOf(u)'
  <2>1. Keep(u)' = Keep(u)
    BY <1>2 DEF Keep
  <2>2. ASSUME pc'[u] \in {"link_back", "write"}
        PROVE  /\ IsInjective(targets'[u])
               /\ Range(targets'[u]) \subseteq Found(level[u])' \ {pt_id'[u]}
               /\ \A w \in Range(targets'[u]) :
                    pt_id'[u] \notin Held(neighbors'[<<w, level'[u]>>])
    <3>1. Found(level[u]) \subseteq Found(level[u])'
      <4>1. PICK l \in Int : l = level[u]
        BY <1>2, <1>9, <2>2
      <4> QED
        BY <1>2, <1>4, <4>1 DEF Found, Visible
    <3> QED
      BY <1>2, <1>9, <2>2, <3>1
  <2>3. ASSUME pc'[u] = "write"
        PROVE  LET w == Head(targets'[u]) IN
               /\ targets'[u] # <<>> /\ locks'[w] = {u}
               /\ pending'[u] = AddLink(neighbors'[<<w, level'[u]>>], w, pt_id'[u], Keep(u)')
    BY <1>2, <1>10, <2>1, <2>3
  <2> QED
    BY <2>2, <2>3, Zenon DEF BackOf
<1> QED
  BY <1>7, <1>8, <1>11

\* A list that a step leaves alone.
LEMMA ListStays ==
  ASSUME LInv, NEW t \in Threads, Step(t), NEW v \in Nodes, NEW l \in Levels,
         neighbors'[<<v, l>>] = neighbors[<<v, l>>]
  PROVE  ListOf(v, l)'
<1>1. l \in Int /\ Growing
  BY Grows, LevelsBelow DEF LInv
<1>2. \A x : Visible(x, l) => Visible(x, l)'
  BY <1>1 DEF Growing
<1>3. Found(l) \subseteq Found(l)'
  BY <1>2 DEF Found, InRange
<1>4. Tidy(neighbors[<<v, l>>], NbNeighbors[l], Found(l) \ {v})
      /\ (~Visible(v, l) => Held(neighbors[<<v, l>>]) = {})
  BY DEF LInv, ListOf
<1>5. Tidy(neighbors[<<v, l>>], NbNeighbors[l], Found(l)' \ {v})
  <2> DEFINE S == Found(l)
             R == Found(l)'
  <2>1. Tidy(neighbors[<<v, l>>], NbNeighbors[l], S \ {v}) /\ S \subseteq R
    BY <1>3, <1>4
  <2> HIDE DEF S, R
  <2>2. Tidy(neighbors[<<v, l>>], NbNeighbors[l], R \ {v})
    BY <2>1 DEF Tidy
  <2> QED
    BY <2>2 DEF R
<1>6. ~Visible(v, l)' => Held(neighbors[<<v, l>>]) = {}
  BY <1>2, <1>4
<1>7. Tidy(neighbors'[<<v, l>>], NbNeighbors[l], Found(l)' \ {v})
      /\ (~Visible(v, l)' => Held(neighbors'[<<v, l>>]) = {})
  BY <1>5, <1>6
<1> QED
  BY <1>7 DEF ListOf, Tidy, Held

LEMMA LeastOfTwo ==
  ASSUME NEW a \in Nat, NEW b \in Nat
  PROVE  Min({a, b}) = IF a <= b THEN a ELSE b
<1>1. \E x \in {a, b} : \A y \in {a, b} : x <= y
  OBVIOUS
<1>2. Min({a, b}) \in {a, b} /\ \A y \in {a, b} : Min({a, b}) <= y
  BY <1>1 DEF Min
<1> QED
  BY <1>2

\* Where a search starts: on a node that has been linked, at a level of its.
LEMMA DescentEnds ==
  ASSUME LInv, NEW t \in Threads, pc[t] = "lock_own"
  PROVE  LET v == pt_id[t]
             start == Descend(neighbors, v, nearest[t], max_level, Level[v])
             l == Min({max_level, Level[v]}) IN
         /\ l \in 0..bucket /\ start \in Nodes
         /\ Settled(start) /\ InRange(start, l)
<1> DEFINE v == pt_id[t]
           start == Descend(neighbors, v, nearest[t], max_level, bucket)
           l == Min({max_level, bucket})
<1>1. /\ v \in Nodes /\ Level[v] = bucket /\ bucket \in Nat
      /\ Added \subseteq Nodes
      /\ \A x \in Nodes : Level[x] \in Nat
  BY OwnNode, LevelsBelow, AddedNodes DEF LInv, Active, EInv
<1>2. Settled(nearest[t]) /\ Level[nearest[t]] = max_level
  BY DEF LInv, PlaceOf
<1>3. nearest[t] \in Nodes /\ max_level \in Levels /\ max_level \in Nat
  BY <1>1, <1>2, LevelsProperties DEF Settled
<1>4. l = IF max_level <= bucket THEN max_level ELSE bucket
  BY <1>1, <1>3, LeastOfTwo
<1>5. CASE max_level <= bucket
  <2>1. start = nearest[t]
    BY <1>5 DEF Descend
  <2>2. l = max_level /\ l \in 0..bucket
    BY <1>1, <1>3, <1>4, <1>5
  <2>3. InRange(nearest[t], max_level)
    BY <1>2, <1>3 DEF InRange
  <2> HIDE DEF start, l
  <2>4. l \in 0..bucket /\ start \in Nodes /\ Settled(start) /\ InRange(start, l)
    BY <1>2, <1>3, <2>1, <2>2, <2>3
  <2> QED
    BY <1>1, <2>4 DEF start, l, v
<1>6. CASE ~(max_level <= bucket)
  <2> DEFINE L == (bucket + 1)..max_level
             size == [k \in L |-> NbNeighbors[k]]
             P == [k \in L |-> {x \in Added : Level[x] >= k}]
  <2>1. /\ bucket < max_level /\ bucket + 1 \in L /\ max_level \in L
        /\ \A k \in L : k \in Nat /\ k > bucket /\ (k # max_level => k + 1 \in L)
        /\ bucket \in Int /\ max_level \in Int
    BY <1>1, <1>3, <1>6
  <2>2. \A k \in L : k \in Levels
    <3> DEFINE m == Max(Levels)
    <3>1. m \in Nat /\ Levels = 0..m
      BY LevelsProperties
    <3> HIDE DEF m
    <3> QED
      BY <1>1, <1>3, <3>1
  <2>3. \A k \in L : NbNeighbors[k] \in Nat
    BY <2>2, LevelsBelow DEF LInv
  <2>4. ASSUME NEW k \in L, NEW x \in Nodes
        PROVE  /\ neighbors[<<x, k>>] \in [1..size[k] -> Id]
               /\ Held(neighbors[<<x, k>>]) \subseteq P[k]
    <3>1. Tidy(neighbors[<<x, k>>], NbNeighbors[k], Found(k) \ {x})
      BY <2>2 DEF LInv, ListOf
    <3>2. neighbors[<<x, k>>] \in [1..NbNeighbors[k] -> Id]
      BY <3>1 DEF Tidy
    <3>3. Held(neighbors[<<x, k>>]) \subseteq Found(k)
      BY <2>3, <3>1, TidyUsed
    <3>4. Found(k) \subseteq P[k]
      <4>1. P[k] = {y \in Added : Level[y] >= k}
        BY <2>4
      <4> HIDE DEF P, L
      <4>2. \A y \in Nodes : k <= Level[y] => Level[y] >= k
        BY <1>1, <2>1
      <4> QED
        BY <4>1, <4>2 DEF Found, Visible, InRange
    <3>5. size[k] = NbNeighbors[k]
      BY <2>4
    <3> HIDE DEF P, size, L
    <3> QED
      BY <3>2, <3>3, <3>4, <3>5
  <2>5. size \in [L -> Nat] /\ P \in [L -> SUBSET Nodes]
    <3> HIDE DEF L
    <3> QED
      BY <1>1, <2>3
  <2>6. \A k \in L : k # max_level => P[k + 1] \subseteq P[k]
    <3> TAKE k \in L
    <3> HAVE k # max_level
    <3>1. k + 1 \in L /\ k \in Nat
      BY <2>1
    <3>2. P[k] = {x \in Added : Level[x] >= k} /\ P[k + 1] = {x \in Added : Level[x] >= k + 1}
      BY <3>1
    <3>3. \A x \in Added : Level[x] >= k + 1 => Level[x] >= k
      BY <1>1, <3>1
    <3> HIDE DEF P, L
    <3> QED
      BY <3>2, <3>3
  <2>7. nearest[t] \in P[max_level]
    <3>1. P[max_level] = {x \in Added : Level[x] >= max_level}
      BY <2>1
    <3> HIDE DEF P, L
    <3> QED
      BY <1>2, <1>3, <3>1 DEF Settled
  <2>8. P[bucket + 1] = {x \in Added : Level[x] >= bucket + 1}
    BY <2>1
  <2>9. start \in P[bucket + 1]
    <3>1. \A k \in L : \A x \in P[k] : Held(neighbors[<<x, k>>]) \subseteq P[k]
      <4>1. \A k \in L : P[k] \subseteq Nodes
        <5> HIDE DEF P, L
        <5> QED
          BY <2>5
      <4> HIDE DEF P, L
      <4> QED
        BY <2>4, <4>1
    <3>2. \A k \in L, x \in Nodes : neighbors[<<x, k>>] \in [1..size[k] -> Id]
      BY <2>4
    <3> HIDE DEF P, size, v
    <3> QED
      BY <1>1, <2>1, <2>5, <2>6, <2>7, <3>1, <3>2, DescendStays DEF L
  <2> HIDE DEF P, L, start
  <2>10. start \in Added /\ start \in Nodes /\ Level[start] \in Nat /\ Level[start] >= bucket + 1
    BY <1>1, <2>8, <2>9
  <2>11. Settled(start)
    <3>1. ASSUME NEW u \in Threads, Active(u), pt_id[u] = start PROVE FALSE
      <4>1. Level[start] = bucket
        BY <3>1, OwnNode DEF LInv
      <4> QED
        BY <1>1, <2>10, <4>1
    <3> QED
      BY <2>10, <3>1 DEF Settled
  <2>12. l = bucket /\ l \in 0..bucket
    BY <1>1, <1>4, <1>6
  <2> HIDE DEF l
  <2>13. InRange(start, l)
    BY <1>1, <2>10, <2>12 DEF InRange
  <2> QED
    BY <1>1, <2>10, <2>11, <2>12, <2>13 DEF start, l, v
<1> QED
  BY <1>5, <1>6

LEMMA SettledStays ==
  ASSUME EInv, Typed, NEW t \in Threads, Step(t), NEW x, Settled(x)
  PROVE  x \in Added' /\ \A u \in Threads : pc'[u] # "idle" => pt_id'[u] # x
<1>1. Settled(x) => Settled(x)'
  BY Grows DEF Growing
<1> QED
  BY <1>1 DEF Settled, Active

\* Who starts a search at a level has one node that it may have found.
LEMMA SearchStarts ==
  ASSUME LInv, NEW t \in Threads, Step(t), Active(t), NEW from \in Nodes, Settled(from),
         StartSearch(t, from), level'[t] \in Levels, InRange(from, level'[t]),
         locks'[pt_id[t]] = {t}, pt_id'[t] = pt_id[t]
  PROVE  /\ candidates' \in [Threads -> SUBSET Nodes]
         /\ results' \in [Threads -> SUBSET Nodes]
         /\ visited' \in [Threads -> SUBSET Nodes]
         /\ SearchOf(t)'
<1>1. /\ candidates' = [candidates EXCEPT ![t] = {from}]
      /\ results' = [results EXCEPT ![t] = {from}]
      /\ visited' = [visited EXCEPT ![t] = {from}]
  BY DEF StartSearch, Set
<1>2. /\ candidates' \in [Threads -> SUBSET Nodes] /\ candidates'[t] = {from}
      /\ results' \in [Threads -> SUBSET Nodes] /\ results'[t] = {from}
      /\ visited' \in [Threads -> SUBSET Nodes] /\ visited'[t] = {from}
  BY <1>1 DEF LInv, Typed
<1>3. Cardinality({from}) <= EfConstruction
  <2>1. Cardinality({from}) = 1
    BY FS_Singleton
  <2> QED
    BY <2>1, BuildAssumption
<1>4. from \in Added' /\ \A u \in Threads : pc'[u] # "idle" => pt_id'[u] # from
  BY SettledStays DEF LInv
<1>5. from \in Found(level[t])'
  <2>1. \A u \in Threads : Unlinked(u, level[t])' => pt_id'[u] # from
    BY <1>4 DEF Unlinked
  <2> QED
    BY <1>4, <2>1 DEF Found, Visible, InRange
<1> QED
  BY <1>2, <1>3, <1>5 DEF SearchOf

-----------------------------------------------------------------------------
(* Each step leaves its own thread what that relies on                     *)

LEMMA TakeNodeKeeps ==
  ASSUME LInv, NEW t \in Threads, NEW v \in Nodes, TakeNode(t, v)
  PROVE  Typed' /\ PlaceOf(t)' /\ SearchOf(t)' /\ BackOf(t)'
<1>1. pc'[t] = "enter"
  BY DEF TakeNode, Goto, LInv, EInv, Control
<1>2. /\ neighbors' = neighbors /\ locks' = locks /\ nearest' = nearest /\ level' = level
      /\ candidates' = candidates /\ results' = results /\ visited' = visited
      /\ targets' = targets /\ pending' = pending
  BY DEF TakeNode, search
<1> QED
  BY <1>1, <1>2 DEF LInv, Typed, PlaceOf, SearchOf, BackOf, InLevels

LEMMA EnterKeeps ==
  ASSUME LInv, Calm, NEW t \in Threads, Enter(t)
  PROVE  Typed' /\ PlaceOf(t)' /\ SearchOf(t)' /\ BackOf(t)'
<1>1. /\ neighbors' = neighbors /\ locks' = locks /\ level' = level
      /\ candidates' = candidates /\ results' = results /\ visited' = visited
      /\ targets' = targets /\ pending' = pending /\ pt_id' = pt_id
      /\ nearest' = [nearest EXCEPT ![t] = entry_point] /\ pc[t] = "enter"
  BY DEF Enter, search, Set
<1>2. entry_point \in Id
  BY AddedNodes DEF LInv, EInv, EntryFollows, Id
<1>3. Typed'
  BY <1>1, <1>2 DEF LInv, Typed
<1>4. pc'[t] \in {"idle", "lock_own"}
  BY DEF Enter, Goto, LInv, EInv, Control
<1>5. SearchOf(t)' /\ BackOf(t)'
  BY <1>1, <1>4 DEF LInv, SearchOf, BackOf
<1>6. ASSUME pc'[t] = "lock_own"
      PROVE  Settled(nearest[t])' /\ Level[nearest'[t]] = max_level'
  <2>1. entry_point # None /\ max_level' = max_level /\ nearest'[t] = entry_point
    BY <1>1, <1>6 DEF Enter, Goto, LInv, EInv, Control, shared, Typed
  <2>2. entry_point \in Added' /\ \A u \in Threads : pc'[u] # "idle" => pt_id'[u] # entry_point
    <3>1. Settled(entry_point) /\ Step(t)
      BY <2>1 DEF LInv, Step
    <3> QED
      BY <3>1, SettledStays DEF LInv
  <2>4. Settled(nearest[t])'
    BY <2>1, <2>2 DEF Settled, Active
  <2>5. \A u \in Threads : pc[u] # "entry"
    <3> SUFFICES ASSUME NEW u \in Threads, pc[u] = "entry" PROVE FALSE
      OBVIOUS
    <3>1. Rises
      BY DEF LInv, PlaceOf
    <3>2. u = t
      BY <1>1, <3>1, SoleThread DEF Active, LInv
    <3> QED
      BY <1>1, <3>2
  <2>6. Level[entry_point] = max_level
    BY <2>1, <2>5 DEF LInv, EInv, EntryFollows
  <2> QED
    BY <2>1, <2>4, <2>6
<1>7. PlaceOf(t)'
  BY <1>4, <1>6 DEF PlaceOf, InLevels
<1> QED
  BY <1>3, <1>5, <1>7

LEMMA LockOwnKeeps ==
  ASSUME LInv, NEW t \in Threads, LockOwn(t)
  PROVE  Typed' /\ PlaceOf(t)' /\ SearchOf(t)' /\ BackOf(t)'
<1>0. Step(t)
  BY DEF Step
<1> DEFINE v == pt_id[t]
           start == Descend(neighbors, v, nearest[t], max_level, Level[v])
           l == Min({max_level, Level[v]})
<1>1. /\ pc[t] = "lock_own" /\ Acquire(t, v)
      /\ nearest' = [nearest EXCEPT ![t] = start] /\ level' = [level EXCEPT ![t] = l]
      /\ StartSearch(t, start)
      /\ neighbors' = neighbors /\ pt_id' = pt_id /\ targets' = targets
      /\ pending' = pending
  BY DEF LockOwn, Set
<1>2. l \in 0..bucket /\ start \in Nodes /\ Settled(start) /\ InRange(start, l)
  BY <1>1, DescentEnds
<1> HIDE DEF l, start
<1>3. /\ Active(t) /\ v \in Nodes /\ l \in Levels
      /\ locks' \in [Nodes -> {{}} \cup {{u} : u \in Threads}] /\ locks'[v] = {t}
  <2>1. Active(t) /\ v \in Nodes /\ l \in Levels
    BY <1>1, <1>2, OwnNode, LevelsBelow DEF Active, LInv
  <2>2. locks' = [locks EXCEPT ![v] = {t}] /\ locks \in [Nodes -> {{}} \cup {{u} : u \in Threads}]
    BY <1>1 DEF Acquire, Set, LInv, Typed
  <2> QED
    BY <1>0, <2>1, <2>2, LocksAndLists
<1>4. /\ nearest' \in [Threads -> Id] /\ nearest'[t] = start
      /\ level' \in [Threads -> Levels \cup {-1}] /\ level'[t] = l
  BY <1>1, <1>2, <1>3 DEF LInv, Typed, Id
<1>5. /\ candidates' \in [Threads -> SUBSET Nodes] /\ results' \in [Threads -> SUBSET Nodes]
      /\ visited' \in [Threads -> SUBSET Nodes] /\ SearchOf(t)'
  BY <1>0, <1>1, <1>2, <1>3, <1>4, SearchStarts
<1>6. Typed'
  BY <1>1, <1>3, <1>4, <1>5 DEF LInv, Typed
<1>7. pc'[t] = "search"
  BY <1>1 DEF StartSearch, Goto, LInv, EInv, Control
<1>8. BackOf(t)'
  BY <1>7 DEF BackOf
<1>9. PlaceOf(t)'
  <2>1. bucket' = bucket
    BY <1>0, Grows DEF LInv, Growing
  <2>2. start \in Added' /\ \A u \in Threads : pc'[u] # "idle" => pt_id'[u] # start
    BY <1>0, <1>2, SettledStays DEF LInv
  <2>3. Settled(nearest[t])'
    BY <1>4, <2>2 DEF Settled, Active
  <2> QED
    BY <1>2, <1>4, <1>7, <2>1, <2>3 DEF PlaceOf, InLevels, InRange
<1> QED
  BY <1>5, <1>6, <1>8, <1>9

\* Whatever of the writes to a list a reader sees, it sees nodes it may find.
LEMMA ViewsLead ==
  ASSUME LInv, NEW l \in Levels, NEW c \in Found(l), NEW list \in Views(c, l)
  PROVE  Range(Used(list)) \subseteq Found(l) /\ ToSet(Used(list)) \subseteq Nodes
         /\ ToSet(Used(list)) = Range(Used(list))
<1> DEFINE old == neighbors[<<c, l>>]
           n == NbNeighbors[l]
           writers == {t \in Threads :
                         pc[t] = "write" /\ Head(targets[t]) = c /\ level[t] = l}
           changes == {ti \in writers \X DOMAIN old : pending[ti[1]][ti[2]] # old[ti[2]]}
<1>1. c \in Nodes /\ n \in Nat /\ Tidy(old, n, Found(l) \ {c})
  BY LevelsBelow DEF Found, LInv, ListOf
<1>2. DOMAIN old = 1..n /\ \A i \in 1..n : old[i] \in Found(l) \cup {None}
  BY <1>1 DEF Tidy
<1>3. ASSUME NEW t \in writers
      PROVE  \A i \in 1..n : pending[t][i] \in Found(l) \cup {None}
  <2>1. /\ t \in Threads /\ pc[t] = "write" /\ Head(targets[t]) = c /\ level[t] = l
    OBVIOUS
  <2>2. targets[t] # <<>> /\ pending[t] = AddLink(old, c, pt_id[t], Keep(t))
    BY <2>1 DEF LInv, BackOf
  <2>3. Tidy(pending[t], n, Found(l) \ {c})
    BY <2>1, <2>2, BackLink
  <2> QED
    BY <2>3 DEF Tidy
<1>4. PICK written \in SUBSET changes :
        list = [i \in DOMAIN old |->
                  IF \E ti \in written : ti[2] = i
                  THEN pending[(CHOOSE ti \in written : ti[2] = i)[1]][i]
                  ELSE old[i]]
  BY DEF Views
<1> HIDE DEF old, n
<1>5. \A i \in 1..n : list[i] \in Found(l) \cup {None}
  <2> TAKE i \in 1..n
  <2>1. CASE \E ti \in written : ti[2] = i
    <3> DEFINE w == CHOOSE ti \in written : ti[2] = i
    <3>1. w \in written
      BY <2>1
    <3>2. w[1] \in writers
      <4> HIDE DEF w, writers
      <4> QED
        BY <3>1
    <3>3. list[i] = pending[w[1]][i]
      BY <1>2, <1>4, <2>1
    <3> HIDE DEF w, writers
    <3> QED
      BY <1>3, <3>2, <3>3
  <2>2. CASE ~ \E ti \in written : ti[2] = i
    BY <1>2, <1>4, <2>2
  <2> QED
    BY <2>1, <2>2
<1>6. list \in [1..n -> Id]
  <2>1. list = [i \in 1..n |-> list[i]]
    BY <1>2, <1>4
  <2>2. \A i \in 1..n : list[i] \in Id
    BY <1>5 DEF Found, Id
  <2> QED
    BY <2>1, <2>2
<1>7. Used(list) \in Seq(Nodes) /\ Range(Used(list)) \subseteq Held(list)
  BY <1>1, <1>6, UsedProperties
<1>8. Held(list) \subseteq Found(l)
  BY <1>5, <1>6 DEF Held, Range
<1>9. ToSet(Used(list)) = Range(Used(list))
  BY DEF ToSet, Range
<1> QED
  BY <1>7, <1>8, <1>9 DEF Found

LEMMA ExpandKeeps ==
  ASSUME LInv, NEW t \in Threads, Expand(t)
  PROVE  Typed' /\ PlaceOf(t)' /\ SearchOf(t)' /\ BackOf(t)'
<1>0. Step(t)
  BY DEF Step
<1> DEFINE q == pt_id[t]
           l == level[t]
           c == Nearest(q, candidates[t])
           new(list) == ToSet(Used(list)) \ visited[t]
           best(list) == NearestOf(q, results[t] \cup new(list), EfConstruction)
<1>1. /\ pc[t] = "search" /\ ~SearchEnds(t)
      /\ neighbors' = neighbors /\ locks' = locks /\ pc' = pc /\ pt_id' = pt_id
      /\ nearest' = nearest /\ level' = level /\ targets' = targets
      /\ pending' = pending
  BY DEF Expand, place
<1>2. PICK list \in Views(c, l) :
        /\ results' = [results EXCEPT ![t] = best(list)]
        /\ candidates' = [candidates EXCEPT ![t] =
                            (candidates[t] \ {c}) \cup (new(list) \cap best(list))]
        /\ visited' = [visited EXCEPT ![t] = visited[t] \cup new(list)]
  BY DEF Expand, Set
<1>3. /\ q \in Nodes /\ l \in Levels /\ l \in Int /\ bucket' = bucket
      /\ candidates[t] \in SUBSET Nodes /\ results[t] \in SUBSET Nodes
      /\ visited[t] \in SUBSET Nodes
      /\ results[t] \cup candidates[t] \subseteq visited[t]
      /\ visited[t] \subseteq Found(l) /\ locks[q] = {t}
      /\ l \in 0..bucket /\ InRange(nearest[t], l) /\ Settled(nearest[t])
  <2>1. q \in Nodes
    BY <1>1, OwnNode DEF LInv, Active
  <2>2. l \in 0..bucket /\ InRange(nearest[t], l) /\ Settled(nearest[t])
    BY <1>1 DEF LInv, PlaceOf, InLevels
  <2>3. l \in Levels /\ l \in Int /\ bucket' = bucket
    BY <1>0, <2>2, LevelsBelow, Grows DEF LInv, Growing
  <2> QED
    BY <1>1, <2>1, <2>2, <2>3 DEF LInv, Typed, SearchOf
<1>4. c \in candidates[t] /\ c \in Found(l)
  <2>1. candidates[t] # {}
    BY <1>1 DEF SearchEnds
  <2>2. c \in candidates[t]
    BY <1>3, <2>1, NearestProperties
  <2> QED
    BY <1>3, <2>2
<1> HIDE DEF c
<1>5. ToSet(Used(list)) \subseteq Found(l) /\ ToSet(Used(list)) \subseteq Nodes
  <2> HIDE DEF l
  <2> QED
    BY <1>3, <1>4, <1>2, ViewsLead
<1>6. /\ new(list) \subseteq Found(l) /\ new(list) \subseteq Nodes
      /\ best(list) \subseteq results[t] \cup new(list)
      /\ Cardinality(best(list)) <= EfConstruction
  <2>1. new(list) \subseteq Found(l) /\ new(list) \subseteq Nodes
    BY <1>5
  <2>2. EfConstruction \in Nat
    BY BuildAssumption
  <2>3. results[t] \cup new(list) \in SUBSET Nodes
    BY <1>3, <2>1
  <2> HIDE DEF new
  <2>4. /\ best(list) \subseteq results[t] \cup new(list)
        /\ Cardinality(best(list)) <= EfConstruction
    BY <1>3, <2>2, <2>3, NearestOfProperties
  <2> QED
    BY <2>1, <2>4
<1> HIDE DEF new, best
<1>7. /\ results' \in [Threads -> SUBSET Nodes] /\ results'[t] = best(list)
      /\ candidates' \in [Threads -> SUBSET Nodes]
      /\ candidates'[t] = (candidates[t] \ {c}) \cup (new(list) \cap best(list))
      /\ visited' \in [Threads -> SUBSET Nodes] /\ visited'[t] = visited[t] \cup new(list)
  BY <1>2, <1>3, <1>6 DEF LInv, Typed
<1>8. Typed'
  BY <1>1, <1>7 DEF LInv, Typed
<1>9. PlaceOf(t)'
  <2>1. nearest[t] \in Added' /\ \A u \in Threads : pc'[u] # "idle" => pt_id'[u] # nearest[t]
    BY <1>0, <1>3, SettledStays DEF LInv
  <2> QED
    BY <1>1, <1>3, <2>1 DEF PlaceOf, InLevels, InRange, Settled, Active
<1>10. SearchOf(t)'
  <2>1. Found(l) \subseteq Found(level[t])'
    <3>1. PICK k \in Int : k = l
      BY <1>3
    <3>2. \A x : Visible(x, k) => Visible(x, k)'
      BY <1>0, Grows DEF LInv, Growing
    <3>3. level'[t] = k
      BY <1>1, <3>1
    <3> QED
      BY <3>1, <3>2, <3>3 DEF Found, InRange, Visible
  <2>2. visited'[t] \subseteq Found(level[t])' /\ locks'[pt_id'[t]] = {t}
    BY <1>1, <1>3, <1>6, <1>7, <2>1
  <2>3. /\ results'[t] \cup candidates'[t] \subseteq visited'[t]
        /\ Cardinality(results'[t]) <= EfConstruction
    BY <1>3, <1>6, <1>7
  <2> QED
    BY <2>2, <2>3 DEF SearchOf
<1>11. BackOf(t)'
  BY <1>1 DEF BackOf
<1> QED
  BY <1>8, <1>9, <1>10, <1>11

\* What LinkOwn writes and to whom it links back.
LEMMA OwnList ==
  ASSUME LInv, NEW t \in Threads, pc[t] = "search"
  PROVE  LET v == pt_id[t]
             l == level[t]
             kept == ShrinkNeighborList(v, results[t], NbNeighbors[l], Keep(t))
             order == FarthestFirst(v, kept)
             list == AddLinks(neighbors[<<v, l>>], v, order, Keep(t)) IN
         /\ v \in Nodes /\ l \in Levels /\ l \in Int
         /\ order \in Seq(Nodes) /\ IsInjective(order)
         /\ Range(order) \subseteq Found(l) \ {v}
         /\ results[t] # {} => order # <<>>
         /\ Tidy(list, NbNeighbors[l], Found(l) \ {v})
         /\ Held(neighbors[<<v, l>>]) = {}
         /\ Held(list) \subseteq Range(order)
         /\ Answered(v, Range(order), list, NbNeighbors[l])
         /\ list \in Seq(Id)
<1> DEFINE v == pt_id[t]
           l == level[t]
           n == NbNeighbors[l]
           kept == ShrinkNeighborList(v, results[t], n, Keep(t))
           order == FarthestFirst(v, kept)
           slots == neighbors[<<v, l>>]
           list == AddLinks(slots, v, order, Keep(t))
           S == Found(l) \ {v}
<1>1. /\ v \in Nodes /\ Keep(t) \in BOOLEAN
      /\ l \in 0..bucket /\ bucket \in Nat /\ l \in Levels /\ l \in Nat
      /\ n \in Nat \ {0}
  <2>1. v \in Nodes /\ Keep(t) \in BOOLEAN
    BY OwnNode DEF LInv, Active
  <2>2. l \in 0..bucket
    BY DEF LInv, PlaceOf, InLevels
  <2> QED
    BY <2>1, <2>2, LevelsBelow DEF LInv
<1>2. Unlinked(t, l)
  BY <1>1 DEF Unlinked
<1>3. ~Visible(v, l)
  BY <1>2, OwnNode DEF LInv, Active
<1>4. results[t] \subseteq S /\ results[t] \in SUBSET Nodes
  <2>1. results[t] \subseteq visited[t] /\ visited[t] \subseteq Found(l)
    BY DEF LInv, SearchOf
  <2>2. v \notin Found(l)
    BY <1>3 DEF Found
  <2> QED
    BY <2>1, <2>2 DEF Found
<1>5. Tidy(slots, n, S) /\ Held(slots) = {} /\ S \in SUBSET Nodes
  BY <1>1, <1>3 DEF LInv, ListOf, Found
<1> HIDE DEF v, l, n, S, slots
<1>6. /\ kept \subseteq results[t] /\ kept \in SUBSET Nodes
      /\ results[t] # {} => kept # {}
  <2>1. kept \subseteq results[t]
    BY <1>1, <1>4, ShrinkNeighborListKeeps
  <2>2. results[t] # {} => Nearest(v, results[t]) \in kept
    BY <1>1, <1>4, ShrinkKeepsNearest
  <2> QED
    BY <1>4, <2>1, <2>2
<1> HIDE DEF kept
<1>7. /\ order \in Seq(kept) /\ IsInjective(order) /\ Range(order) = kept
  BY <1>1, <1>6, FarthestFirstProperties
<1> HIDE DEF order
<1>a. results[t] # {} => order # <<>>
  <2>1. Range(<<>>) = {}
    BY DEF Range
  <2> QED
    BY <1>6, <1>7, <2>1
<1>8. order \in Seq(S) /\ order \in Seq(Nodes) /\ Range(order) \subseteq S
  BY <1>4, <1>5, <1>6, <1>7
<1>9. /\ Tidy(list, n, S) /\ Held(list) \subseteq Range(order)
      /\ Answered(v, Range(order), list, n)
  <2>1. Range(order) \cap Held(slots) = {} /\ S \in SUBSET (Nodes \ {v})
    BY <1>5 DEF S
  <2>2. /\ Tidy(list, n, S) /\ Held(list) \subseteq Held(slots) \cup Range(order)
        /\ Answered(v, Held(slots) \cup Range(order), list, n)
    BY <1>1, <1>5, <1>7, <1>8, <2>1, AddLinksTidy
  <2>3. Held(slots) \cup Range(order) = Range(order)
    BY <1>5
  <2> QED
    BY <2>2, <2>3
<1>10. list \in Seq(Id)
  <2> HIDE DEF list
  <2>1. list \in [1..n -> Id]
    BY <1>9 DEF Tidy
  <2> QED
    BY <1>1, <2>1, SeqDef
<1>11. /\ v \in Nodes /\ l \in Levels /\ l \in Int
       /\ order \in Seq(Nodes) /\ IsInjective(order) /\ Range(order) \subseteq S
       /\ results[t] # {} => order # <<>>
  BY <1>1, <1>7, <1>8, <1>a
<1>12. /\ Tidy(list, n, S) /\ list \in Seq(Id)
       /\ Held(slots) = {} /\ Held(list) \subseteq Range(order)
       /\ Answered(v, Range(order), list, n)
  BY <1>5, <1>9, <1>10
<1> QED
  BY <1>11, <1>12 DEF v, l, n, S, slots, kept, order, list

LEMMA LinkOwnKeeps ==
  ASSUME LInv, NEW t \in Threads, LinkOwn(t)
  PROVE  /\ Typed' /\ PlaceOf(t)' /\ SearchOf(t)' /\ BackOf(t)'
         /\ \A v, l : v = pt_id[t] /\ l = level[t] => ListOf(v, l)'
<1>0. Step(t) /\ pc[t] = "search"
  BY DEF Step, LinkOwn
<1>v. PICK v, l : v = pt_id[t] /\ l = level[t]
  OBVIOUS
<1> DEFINE kept == ShrinkNeighborList(v, results[t], NbNeighbors[l], Keep(t))
           order == FarthestFirst(v, kept)
           list == AddLinks(neighbors[<<v, l>>], v, order, Keep(t))
<1>1. /\ neighbors' = [neighbors EXCEPT ![<<v, l>>] = list]
      /\ locks' = [locks EXCEPT ![v] = {}]
      /\ targets' = [targets EXCEPT ![t] = order]
      /\ pc' = [pc EXCEPT ![t] = "link_back"]
      /\ pt_id' = pt_id /\ nearest' = nearest /\ level' = level
      /\ candidates' = candidates /\ results' = results /\ visited' = visited
      /\ pending' = pending
  BY <1>v DEF LinkOwn, Set, Goto, place, search
<1>2. /\ v \in Nodes /\ l \in Levels /\ l \in Int
      /\ order \in Seq(Nodes) /\ IsInjective(order)
      /\ Range(order) \subseteq Found(l) \ {v}
      /\ Tidy(list, NbNeighbors[l], Found(l) \ {v})
      /\ list \in Seq(Id)
  BY <1>0, <1>v, OwnList
<1> HIDE DEF list, order, kept
<1>3. /\ Typed /\ EInv /\ Growing
  BY <1>0, Grows DEF LInv
<1>4. /\ targets' \in [Threads -> Seq(Nodes)] /\ targets'[t] = order
      /\ neighbors' \in [Nodes \X Levels -> Seq(Id)] /\ neighbors'[<<v, l>>] = list
      /\ locks' \in [Nodes -> {{}} \cup {{u} : u \in Threads}]
      /\ pc'[t] = "link_back"
      /\ \A w \in Nodes : w # v => neighbors'[<<w, l>>] = neighbors[<<w, l>>]
  <2>1. targets' \in [Threads -> Seq(Nodes)] /\ targets'[t] = order
    BY <1>1, <1>2, <1>3 DEF Typed
  <2>2. <<v, l>> \in Nodes \X Levels
    BY <1>2
  <2>3. neighbors' \in [Nodes \X Levels -> Seq(Id)] /\ neighbors'[<<v, l>>] = list
    BY <1>1, <1>2, <1>3, <2>2 DEF Typed
  <2>4. \A w \in Nodes : w # v => neighbors'[<<w, l>>] = neighbors[<<w, l>>]
    BY <1>1, <1>2, <1>3 DEF Typed
  <2>5. locks' \in [Nodes -> {{}} \cup {{u} : u \in Threads}]
    BY <1>0, LocksAndLists
  <2>6. pc'[t] = "link_back"
    BY <1>1, <1>3 DEF EInv, Control
  <2> QED
    BY <2>1, <2>3, <2>4, <2>5, <2>6
<1>5. Typed'
  BY <1>1, <1>3, <1>4 DEF Typed
<1>6. \A x : Visible(x, l) => Visible(x, l)'
  BY <1>2, <1>3 DEF Growing
<1>7. Visible(v, l)'
  <2>1. EInv' /\ pc'[t] # "idle" /\ level'[t] = l /\ l \in Int /\ pt_id'[t] = v
    BY <1>0, <1>v, <1>1, <1>2, <1>3, <1>4, Grows
  <2>2. ~Unlinked(t, l)'
    BY <1>4, <2>1 DEF Unlinked
  <2>3. v \in Added'
    <3>1. v \in Added
      BY <1>0, <1>v, <1>3, OwnNode DEF Active
    <3> QED
      BY <1>3, <3>1 DEF Growing
  <2>4. \A u \in Threads : Unlinked(u, l)' => pc'[u] # "idle"
    BY DEF Unlinked
  <2>5. \A u \in Threads : pc'[u] # "idle" /\ pt_id'[u] = v => u = t
    BY <2>1 DEF EInv, Control, Active
  <2> QED
    BY <2>2, <2>3, <2>4, <2>5 DEF Visible
<1>8. Found(l) \subseteq Found(l)'
  BY <1>6 DEF Found, InRange
<1>9. PlaceOf(t)'
  <2>1. l \in 0..bucket /\ Settled(nearest[t]) /\ InRange(nearest[t], l) /\ bucket' = bucket
    BY <1>0, <1>v, <1>3 DEF LInv, PlaceOf, InLevels, Growing
  <2>2. nearest[t] \in Added' /\ \A u \in Threads : pc'[u] # "idle" => pt_id'[u] # nearest[t]
    BY <1>0, <1>3, <2>1, SettledStays
  <2> QED
    BY <1>v, <1>1, <1>4, <2>1, <2>2 DEF PlaceOf, InLevels, InRange, Settled, Active
<1>10. SearchOf(t)'
  BY <1>1, <1>4 DEF LInv, SearchOf
<1>11. \A w \in Found(l) \ {v} : v \notin Held(neighbors'[<<w, l>>])
  <2> TAKE w \in Found(l) \ {v}
  <2>1. w \in Nodes /\ neighbors'[<<w, l>>] = neighbors[<<w, l>>]
    BY <1>4 DEF Found
  <2>2. Tidy(neighbors[<<w, l>>], NbNeighbors[l], Found(l) \ {w})
    BY <1>2, <2>1 DEF LInv, ListOf
  <2>3. Held(neighbors[<<w, l>>]) \subseteq Found(l) \ {w}
    BY <1>2, <1>3, <2>2, TidyUsed, LevelsBelow
  <2>4. v \notin Found(l)
    <3>1. l \in Nat /\ Unlinked(t, l)
      BY <1>0, <1>v, <1>2, <1>3, LevelsBelow DEF Unlinked
    <3> QED
      BY <1>0, <1>v, <1>3, <3>1, OwnNode DEF Active, Found
  <2> QED
    BY <2>1, <2>3, <2>4
<1>12. BackOf(t)'
  <2>1. \A w \in Range(order) : v \notin Held(neighbors'[<<w, l>>])
    BY <1>2, <1>11
  <2>2. Range(order) \subseteq Found(l)' \ {v}
    BY <1>2, <1>8
  <2>3. Range(targets'[t]) \subseteq Found(level[t])' \ {pt_id'[t]}
    BY <1>v, <1>1, <1>4, <2>2 DEF Found, Visible
  <2> QED
    BY <1>v, <1>1, <1>2, <1>4, <2>1, <2>3 DEF BackOf
<1>13. ListOf(v, l)'
  <2> DEFINE R == Found(l)'
             F == Found(l)
  <2>1. Tidy(list, NbNeighbors[l], F \ {v}) /\ F \subseteq R
    BY <1>2, <1>8
  <2> HIDE DEF R, F
  <2>2. Tidy(list, NbNeighbors[l], R \ {v})
    BY <2>1 DEF Tidy
  <2>3. Tidy(neighbors'[<<v, l>>], NbNeighbors[l], Found(l)' \ {v})
    BY <1>4, <2>2 DEF R
  <2> QED
    BY <1>7, <2>3 DEF ListOf, Tidy
<1> QED
  BY <1>v, <1>5, <1>9, <1>10, <1>12, <1>13

LEMMA StartLinkBackKeeps ==
  ASSUME LInv, NEW t \in Threads, StartLinkBack(t)
  PROVE  Typed' /\ PlaceOf(t)' /\ SearchOf(t)' /\ BackOf(t)'
<1>0. Step(t) /\ pc[t] = "link_back" /\ targets[t] # <<>>
  BY DEF Step, StartLinkBack
<1>v. PICK w, l : w = Head(targets[t]) /\ l = level[t]
  OBVIOUS
<1> DEFINE list == AddLink(neighbors[<<w, l>>], w, pt_id[t], Keep(t))
<1>1. /\ locks' = [locks EXCEPT ![w] = {t}]
      /\ pending' = [pending EXCEPT ![t] = list]
      /\ pc' = [pc EXCEPT ![t] = "write"]
      /\ neighbors' = neighbors /\ targets' = targets
      /\ pt_id' = pt_id /\ nearest' = nearest /\ level' = level
      /\ candidates' = candidates /\ results' = results /\ visited' = visited
  BY <1>v DEF StartLinkBack, Acquire, Set, Goto, place, search
<1>2. /\ l \in Levels /\ w \in Nodes /\ list \in Seq(Id)
  BY <1>0, <1>v, BackLink
<1>3. /\ Typed /\ EInv /\ Growing /\ Keep(t)' = Keep(t)
  BY <1>0, <1>1, Grows DEF LInv, Keep
<1>4. /\ pending' \in [Threads -> Seq(Id)] /\ pending'[t] = list
      /\ locks' \in [Nodes -> {{}} \cup {{u} : u \in Threads}] /\ locks'[w] = {t}
      /\ pc'[t] = "write"
  BY <1>1, <1>2, <1>3 DEF Typed, EInv, Control
<1>5. Typed'
  BY <1>1, <1>3, <1>4 DEF Typed
<1>6. l \in 0..bucket /\ Settled(nearest[t]) /\ InRange(nearest[t], l) /\ l \in Int
  BY <1>0, <1>v, <1>2, <1>3, LevelsBelow DEF LInv, PlaceOf, InLevels
<1>7. PlaceOf(t)'
  <2>1. nearest[t] \in Added' /\ \A u \in Threads : pc'[u] # "idle" => pt_id'[u] # nearest[t]
    BY <1>0, <1>3, <1>6, SettledStays
  <2>2. bucket' = bucket
    BY <1>3 DEF Growing
  <2> QED
    BY <1>v, <1>1, <1>4, <1>6, <2>1, <2>2 DEF PlaceOf, InLevels, InRange, Settled, Active
<1>8. SearchOf(t)'
  BY <1>1, <1>4 DEF LInv, SearchOf
<1>9. BackOf(t)'
  <2>1. \A x : Visible(x, l) => Visible(x, l)'
    BY <1>3, <1>6 DEF Growing
  <2>2. Found(l) \subseteq Found(l)'
    BY <2>1 DEF Found, InRange
  <2>3. /\ IsInjective(targets[t]) /\ Range(targets[t]) \subseteq Found(l) \ {pt_id[t]}
        /\ \A x \in Range(targets[t]) : pt_id[t] \notin Held(neighbors[<<x, l>>])
    BY <1>0, <1>v DEF LInv, BackOf
  <2>4. Range(targets'[t]) \subseteq Found(level[t])' \ {pt_id'[t]}
    BY <1>v, <1>1, <2>2, <2>3 DEF Found, Visible
  <2>5. /\ targets'[t] # <<>> /\ locks'[Head(targets'[t])] = {t}
        /\ pending'[t] = AddLink(neighbors'[<<Head(targets'[t]), level'[t]>>],
                                 Head(targets'[t]), pt_id'[t], Keep(t)')
    BY <1>0, <1>v, <1>1, <1>3, <1>4
  <2>6. /\ IsInjective(targets'[t])
        /\ \A x \in Range(targets'[t]) : pt_id'[t] \notin Held(neighbors'[<<x, level'[t]>>])
    BY <1>v, <1>1, <2>3
  <2> QED
    BY <2>4, <2>5, <2>6, Zenon DEF BackOf
<1> QED
  BY <1>5, <1>7, <1>8, <1>9

LEMMA EndLinkBackKeeps ==
  ASSUME LInv, NEW t \in Threads, EndLinkBack(t)
  PROVE  /\ Typed' /\ PlaceOf(t)' /\ SearchOf(t)' /\ BackOf(t)'
         /\ \A w, l : w = Head(targets[t]) /\ l = level[t] => ListOf(w, l)'
<1>0. Step(t) /\ pc[t] = "write" /\ targets[t] # <<>>
  BY DEF Step, EndLinkBack, LInv, BackOf
<1>v. PICK w, l : w = Head(targets[t]) /\ l = level[t]
  OBVIOUS
<1>1. /\ neighbors' = [neighbors EXCEPT ![<<w, l>>] = pending[t]]
      /\ pending' = [pending EXCEPT ![t] = <<>>]
      /\ targets' = [targets EXCEPT ![t] = Tail(targets[t])]
      /\ pc' = [pc EXCEPT ![t] = "link_back"]
      /\ pt_id' = pt_id /\ nearest' = nearest /\ level' = level
      /\ candidates' = candidates /\ results' = results /\ visited' = visited
  BY <1>v DEF EndLinkBack, Set, Goto, place, search
<1>2. /\ l \in Levels /\ w \in Nodes /\ w \in Range(targets[t]) /\ w \in Found(l)
      /\ Tidy(pending[t], NbNeighbors[l], Found(l) \ {w})
      /\ pending[t] \in Seq(Id)
  <2>1. pending[t] = AddLink(neighbors[<<w, l>>], w, pt_id[t], Keep(t))
    BY <1>0, <1>v DEF LInv, BackOf
  <2> QED
    BY <1>0, <1>v, <2>1, BackLink
<1>3. /\ Typed /\ EInv /\ Growing
  BY <1>0, Grows DEF LInv
<1>6. l \in 0..bucket /\ Settled(nearest[t]) /\ InRange(nearest[t], l) /\ l \in Int
  BY <1>0, <1>v, <1>2, <1>3, LevelsBelow DEF LInv, PlaceOf, InLevels
<1>b. /\ IsInjective(targets[t]) /\ Range(targets[t]) \subseteq Found(l) \ {pt_id[t]}
      /\ \A x \in Range(targets[t]) : pt_id[t] \notin Held(neighbors[<<x, l>>])
      /\ targets[t] \in Seq(Nodes)
  BY <1>0, <1>v DEF LInv, BackOf, Typed
<1>c. /\ Tail(targets[t]) \in Seq(Nodes) /\ IsInjective(Tail(targets[t]))
      /\ Range(Tail(targets[t])) = Range(targets[t]) \ {w}
  BY <1>0, <1>v, <1>b, TailTakes
<1>4. /\ pending' \in [Threads -> Seq(Id)]
      /\ targets' \in [Threads -> Seq(Nodes)] /\ targets'[t] = Tail(targets[t])
      /\ neighbors' \in [Nodes \X Levels -> Seq(Id)] /\ neighbors'[<<w, l>>] = pending[t]
      /\ \A x \in Nodes : x # w => neighbors'[<<x, l>>] = neighbors[<<x, l>>]
      /\ locks' \in [Nodes -> {{}} \cup {{u} : u \in Threads}]
      /\ pc'[t] = "link_back"
  <2>1. pending' \in [Threads -> Seq(Id)]
    <3>1. <<>> \in Seq(Id)
      OBVIOUS
    <3> QED
      BY <1>1, <1>3, <3>1 DEF Typed
  <2>2. targets' \in [Threads -> Seq(Nodes)] /\ targets'[t] = Tail(targets[t])
    BY <1>1, <1>c, <1>3 DEF Typed
  <2>3. <<w, l>> \in Nodes \X Levels
    BY <1>2
  <2>4. neighbors' \in [Nodes \X Levels -> Seq(Id)] /\ neighbors'[<<w, l>>] = pending[t]
    BY <1>1, <1>2, <1>3, <2>3 DEF Typed
  <2>5. \A x \in Nodes : x # w => neighbors'[<<x, l>>] = neighbors[<<x, l>>]
    BY <1>1, <1>2, <1>3 DEF Typed
  <2>6. locks' \in [Nodes -> {{}} \cup {{u} : u \in Threads}]
    BY <1>0, LocksAndLists
  <2>7. pc'[t] = "link_back"
    BY <1>1, <1>3 DEF EInv, Control
  <2> QED
    BY <2>1, <2>2, <2>4, <2>5, <2>6, <2>7
<1>5. Typed'
  BY <1>1, <1>3, <1>4 DEF Typed
<1>7. PlaceOf(t)'
  <2>1. nearest[t] \in Added' /\ \A u \in Threads : pc'[u] # "idle" => pt_id'[u] # nearest[t]
    BY <1>0, <1>3, <1>6, SettledStays
  <2>2. bucket' = bucket
    BY <1>3 DEF Growing
  <2> QED
    BY <1>v, <1>1, <1>4, <1>6, <2>1, <2>2 DEF PlaceOf, InLevels, InRange, Settled, Active
<1>8. SearchOf(t)'
  BY <1>1, <1>4 DEF LInv, SearchOf
<1>9. \A x : Visible(x, l) => Visible(x, l)'
  BY <1>3, <1>6 DEF Growing
<1>10. Found(l) \subseteq Found(l)'
  BY <1>9 DEF Found, InRange
<1>11. BackOf(t)'
  <2>1. Range(targets'[t]) \subseteq Found(level[t])' \ {pt_id'[t]}
    BY <1>v, <1>1, <1>4, <1>b, <1>c, <1>10 DEF Found, Visible
  <2>2. \A x \in Range(targets'[t]) : pt_id'[t] \notin Held(neighbors'[<<x, level'[t]>>])
    <3> SUFFICES ASSUME NEW x \in Range(targets'[t])
                 PROVE  pt_id'[t] \notin Held(neighbors'[<<x, level'[t]>>])
      OBVIOUS
    <3>1. x \in Range(targets[t]) /\ x # w /\ x \in Nodes
      BY <1>4, <1>b, <1>c DEF Found
    <3> QED
      BY <1>v, <1>1, <1>4, <1>b, <3>1
  <2> QED
    BY <1>4, <1>c, <2>1, <2>2, Zenon DEF BackOf
<1>12. ListOf(w, l)'
  <2> DEFINE R == Found(l)'
             F == Found(l)
  <2>1. Tidy(pending[t], NbNeighbors[l], F \ {w}) /\ F \subseteq R
    BY <1>2, <1>10
  <2> HIDE DEF R, F
  <2>2. Tidy(pending[t], NbNeighbors[l], R \ {w})
    BY <2>1 DEF Tidy
  <2>3. Tidy(neighbors'[<<w, l>>], NbNeighbors[l], Found(l)' \ {w})
    BY <1>4, <2>2 DEF R
  <2>4. Visible(w, l)'
    BY <1>2, <1>9 DEF Found
  <2> QED
    BY <2>3, <2>4 DEF ListOf, Tidy
<1> QED
  BY <1>v, <1>5, <1>7, <1>8, <1>11, <1>12

LEMMA RelockKeeps ==
  ASSUME LInv, NEW t \in Threads, Relock(t)
  PROVE  Typed' /\ PlaceOf(t)' /\ SearchOf(t)' /\ BackOf(t)'
<1>0. Step(t) /\ pc[t] = "link_back" /\ Active(t)
  BY DEF Step, Relock, Active
<1>v. PICK l, from, v : l = level[t] /\ from = nearest[t] /\ v = pt_id[t]
  OBVIOUS
<1>1. /\ level' = [level EXCEPT ![t] = l - 1]
      /\ neighbors' = neighbors /\ targets' = targets /\ pending' = pending
      /\ pt_id' = pt_id /\ nearest' = nearest
  BY <1>v DEF Relock, Set
<1>2. Typed /\ EInv /\ Growing
  BY <1>0, Grows DEF LInv
<1>3. /\ l \in 0..bucket /\ bucket \in Nat /\ bucket' = bucket
      /\ Settled(from) /\ InRange(from, l) /\ from \in Nodes /\ Level[from] \in Nat
      /\ v \in Nodes
  <2>1. l \in 0..bucket /\ Settled(from) /\ InRange(from, l) /\ v \in Nodes
    BY <1>0, <1>v, <1>2, OwnNode DEF LInv, PlaceOf, InLevels
  <2>2. from \in Nodes
    BY <1>2, <2>1, AddedNodes DEF Settled, EInv
  <2> QED
    BY <1>2, <2>1, <2>2, LevelsBelow DEF Growing
<1>4. from \in Added' /\ \A u \in Threads : pc'[u] # "idle" => pt_id'[u] # from
  BY <1>0, <1>2, <1>3, SettledStays
<1>5. level'[t] = l - 1
  BY <1>1, <1>2 DEF Typed
<1>6. locks' \in [Nodes -> {{}} \cup {{u} : u \in Threads}]
  BY <1>0, LocksAndLists
<1>7. CASE l > 0
  <2>1. locks' = [locks EXCEPT ![v] = {t}] /\ StartSearch(t, from) /\ pc'[t] = "search"
    BY <1>v, <1>2, <1>7 DEF Relock, Acquire, Set, StartSearch, Goto, EInv, Control
  <2>2. locks'[v] = {t}
    BY <1>2, <1>3, <2>1 DEF Typed
  <2>3. l - 1 \in 0..bucket /\ InRange(from, l - 1) /\ l - 1 \in Levels
    <3>1. l - 1 \in 0..bucket /\ InRange(from, l - 1)
      BY <1>3, <1>7 DEF InRange
    <3> QED
      BY <1>2, <3>1, LevelsBelow
  <2>4. level' \in [Threads -> Levels \cup {-1}]
    BY <1>1, <1>2, <2>3 DEF Typed
  <2>5. /\ candidates' \in [Threads -> SUBSET Nodes]
        /\ results' \in [Threads -> SUBSET Nodes]
        /\ visited' \in [Threads -> SUBSET Nodes]
        /\ SearchOf(t)'
    BY <1>0, <1>v, <1>1, <1>3, <1>5, <2>1, <2>2, <2>3, SearchStarts
  <2>6. Typed'
    BY <1>1, <1>2, <1>6, <2>4, <2>5 DEF Typed
  <2>7. PlaceOf(t)'
    BY <1>v, <1>1, <1>3, <1>4, <1>5, <2>1, <2>3 DEF PlaceOf, InLevels, Settled, Active, InRange
  <2>8. BackOf(t)'
    BY <2>1 DEF BackOf
  <2> QED
    BY <2>5, <2>6, <2>7, <2>8
<1>8. CASE ~(l > 0)
  <2>1. /\ locks' = locks /\ pc'[t] = "finish"
        /\ candidates' = candidates /\ results' = results /\ visited' = visited
    BY <1>v, <1>2, <1>8 DEF Relock, Goto, EInv, Control, search
  <2>2. l - 1 = -1
    BY <1>3, <1>8
  <2>3. level' \in [Threads -> Levels \cup {-1}]
    BY <1>1, <1>2, <2>2 DEF Typed
  <2>4. Typed'
    BY <1>1, <1>2, <2>1, <2>3 DEF Typed
  <2> QED
    BY <2>1, <2>4 DEF LInv, PlaceOf, SearchOf, BackOf, InLevels
<1> QED
  BY <1>7, <1>8

LEMMA RaiseKeeps ==
  ASSUME LInv, NEW t \in Threads, RaiseMaxLevel(t) \/ RaiseEntryPoint(t)
  PROVE  Typed' /\ PlaceOf(t)' /\ SearchOf(t)' /\ BackOf(t)'
<1>0. Step(t)
  BY DEF Step
<1>1. /\ neighbors' = neighbors /\ locks' = locks /\ nearest' = nearest /\ level' = level
      /\ candidates' = candidates /\ results' = results /\ visited' = visited
      /\ targets' = targets /\ pending' = pending
  BY DEF RaiseMaxLevel, RaiseEntryPoint, search, place
<1>2. pc'[t] \in {"entry", "idle"}
  BY DEF RaiseMaxLevel, RaiseEntryPoint, Goto, LInv, EInv, Control
<1>3. pc'[t] = "entry" => Rises'
  <2>1. SUFFICES ASSUME pc'[t] = "entry" PROVE Rises'
    OBVIOUS
  <2>2. RaiseMaxLevel(t) /\ Level[pt_id[t]] > max_level
    BY <2>1 DEF RaiseMaxLevel, RaiseEntryPoint, Goto, LInv, EInv, Control
  <2>3. Rises /\ Growing
    BY <1>0, <2>2, RaisedBelow, Grows DEF LInv
  <2> QED
    BY <2>3 DEF Rises, Growing
<1> QED
  BY <1>1, <1>2, <1>3 DEF LInv, Typed, PlaceOf, SearchOf, BackOf, InLevels

-----------------------------------------------------------------------------
(* The graph stays in order                                                *)

LEMMA StepKeepsThread ==
  ASSUME LInv, Calm, NEW t \in Threads, Step(t)
  PROVE  Typed' /\ PlaceOf(t)' /\ SearchOf(t)' /\ BackOf(t)'
<1>1. CASE \E v \in Nodes : TakeNode(t, v)
  BY <1>1, TakeNodeKeeps
<1>2. CASE Enter(t)
  BY <1>2, EnterKeeps
<1>3. CASE LockOwn(t)
  BY <1>3, LockOwnKeeps
<1>4. CASE Expand(t)
  BY <1>4, ExpandKeeps
<1>5. CASE LinkOwn(t)
  BY <1>5, LinkOwnKeeps
<1>6. CASE StartLinkBack(t)
  BY <1>6, StartLinkBackKeeps
<1>7. CASE EndLinkBack(t)
  BY <1>7, EndLinkBackKeeps
<1>8. CASE Relock(t)
  BY <1>8, RelockKeeps
<1>9. CASE RaiseMaxLevel(t) \/ RaiseEntryPoint(t)
  BY <1>9, RaiseKeeps
<1> QED
  BY <1>1, <1>2, <1>3, <1>4, <1>5, <1>6, <1>7, <1>8, <1>9 DEF Step

LEMMA StepKeepsLists ==
  ASSUME LInv, NEW t \in Threads, Step(t), NEW v \in Nodes, NEW l \in Levels
  PROVE  ListOf(v, l)'
<1>1. CASE neighbors'[<<v, l>>] = neighbors[<<v, l>>]
  BY <1>1, ListStays
<1>2. CASE LinkOwn(t) /\ v = pt_id[t] /\ l = level[t]
  BY <1>2, LinkOwnKeeps
<1>3. CASE EndLinkBack(t) /\ v = Head(targets[t]) /\ l = level[t]
  BY <1>3, EndLinkBackKeeps
<1> QED
  BY <1>1, <1>2, <1>3, LocksAndLists

\* A node becomes the entry point when its thread is through with it.
LEMMA StepKeepsEntryLinked ==
  ASSUME LInv, NEW t \in Threads, Step(t), entry_point' # None
  PROVE  Settled(entry_point)'
<1>1. CASE entry_point' = entry_point
  <2>1. PICK x : x = entry_point
    OBVIOUS
  <2>2. Settled(x)
    BY <1>1, <2>1 DEF LInv
  <2>3. x \in Added' /\ \A u \in Threads : pc'[u] # "idle" => pt_id'[u] # x
    BY <2>2, SettledStays DEF LInv
  <2> QED
    BY <1>1, <2>1, <2>3 DEF Settled, Active
<1>2. CASE entry_point' # entry_point
  <2>1. /\ Active(t) /\ pc'[t] = "idle" /\ entry_point' = pt_id[t] /\ pt_id' = pt_id
    <3>1. Enter(t) \/ RaiseEntryPoint(t)
      BY <1>2 DEF Step, TakeNode, LockOwn, Expand, LinkOwn, StartLinkBack, EndLinkBack,
                  Relock, RaiseMaxLevel, shared
    <3>2. CASE Enter(t)
      BY <1>2, <3>2 DEF Enter, Goto, LInv, EInv, Control, Active, shared
    <3>3. CASE RaiseEntryPoint(t)
      BY <3>3 DEF RaiseEntryPoint, Goto, LInv, EInv, Control, Active, place
    <3> QED
      BY <3>1, <3>2, <3>3
  <2>2. PICK x : x = pt_id[t]
    OBVIOUS
  <2>3. x \in Added'
    BY <2>1, <2>2, OwnNode, Grows DEF LInv, Growing
  <2>4. \A u \in Threads : pc'[u] # "idle" => pt_id'[u] # x
    <3> SUFFICES ASSUME NEW u \in Threads, pc'[u] # "idle", pt_id'[u] = x PROVE FALSE
      OBVIOUS
    <3>1. u # t
      BY <2>1
    <3>2. pc[u] # "idle" /\ pt_id[u] = pt_id[t]
      BY <2>2, <3>1, OthersStay DEF LInv
    <3> QED
      BY <2>1, <3>1, <3>2 DEF LInv, EInv, Control, Active
  <2> QED
    BY <2>1, <2>2, <2>3, <2>4 DEF Settled, Active
<1> QED
  BY <1>1, <1>2

LEMMA StepKeepsGraph ==
  ASSUME LInv, Calm, NEW t \in Threads, Step(t)
  PROVE  LInv'
<1>1. EInv' /\ Typed'
  BY StepKeepsEntry, StepKeepsThread DEF LInv
<1>2. \A u \in Threads : PlaceOf(u)' /\ SearchOf(u)' /\ BackOf(u)'
  BY StepKeepsThread, OthersKeep
<1>3. \A v \in Nodes, l \in Levels : ListOf(v, l)'
  BY StepKeepsLists
<1>4. entry_point' # None => Settled(entry_point)'
  BY StepKeepsEntryLinked
<1> QED
  BY <1>1, <1>2, <1>3, <1>4 DEF LInv

LEMMA NextBucketKeepsGraph ==
  ASSUME LInv, NextBucket
  PROVE  LInv'
<1>1. /\ Idle /\ pc' = pc /\ pt_id' = pt_id /\ nearest' = nearest /\ level' = level
      /\ neighbors' = neighbors /\ locks' = locks /\ targets' = targets
      /\ candidates' = candidates /\ results' = results /\ visited' = visited
      /\ pending' = pending /\ entry_point' = entry_point /\ max_level' = max_level
  BY DEF NextBucket, shared, place, search
<1>2. EInv' /\ Added' = Added
  BY NextBucketKeepsEntry, NextBucketAddsNone DEF LInv
<1>3. Typed'
  BY <1>1 DEF LInv, Typed
<1>4. \A t \in Threads : PlaceOf(t)' /\ SearchOf(t)' /\ BackOf(t)'
  BY <1>1 DEF LInv, PlaceOf, SearchOf, BackOf, InLevels, Idle
<1>5. entry_point' # None => Settled(entry_point)'
  BY <1>1, <1>2 DEF LInv, Settled, Active
<1>6. \A v \in Nodes, l \in Levels : ListOf(v, l)'
  <2> TAKE v \in Nodes, l \in Levels
  <2>1. Found(l)' = Found(l) /\ Visible(v, l)' = Visible(v, l)
    BY <1>1, <1>2 DEF Found, Visible, Unlinked, InRange
  <2>2. ListOf(v, l)
    BY DEF LInv
  <2> QED
    BY <1>1, <2>1, <2>2 DEF ListOf, Tidy, Held
<1> QED
  BY <1>2, <1>3, <1>4, <1>5, <1>6 DEF LInv

LEMMA StutterKeepsGraph ==
  ASSUME LInv, UNCHANGED vars
  PROVE  LInv'
<1>1. /\ pc' = pc /\ pt_id' = pt_id /\ nearest' = nearest /\ level' = level
      /\ neighbors' = neighbors /\ locks' = locks /\ targets' = targets
      /\ candidates' = candidates /\ results' = results /\ visited' = visited
      /\ pending' = pending /\ entry_point' = entry_point /\ max_level' = max_level
      /\ callNo' = callNo /\ bucket' = bucket /\ todo' = todo
  BY DEF vars, shared, place, search, work
<1>2. EInv' /\ Added' = Added /\ Before' = Before
  BY <1>1, StutterKeepsEntry DEF LInv, Added, Before, InBucket
<1>3. Typed'
  BY <1>1 DEF LInv, Typed
<1>4. \A t \in Threads : PlaceOf(t)' /\ SearchOf(t)' /\ BackOf(t)'
  <2> TAKE t \in Threads
  <2>1. PlaceOf(t) /\ SearchOf(t) /\ BackOf(t)
    BY DEF LInv
  <2>2. Found(level[t])' = Found(level[t]) /\ Keep(t)' = Keep(t)
    BY <1>1, <1>2 DEF Found, Visible, Unlinked, InRange, Keep
  <2>3. PlaceOf(t)'
    BY <1>1, <1>2, <2>1 DEF PlaceOf, Rises, Settled, Active, InRange
  <2>4. SearchOf(t)'
    BY <1>1, <2>1, <2>2 DEF SearchOf
  <2>5. BackOf(t)'
    BY <1>1, <2>1, <2>2 DEF BackOf, Held
  <2> QED
    BY <2>3, <2>4, <2>5
<1>5. entry_point' # None => Settled(entry_point)'
  BY <1>1, <1>2 DEF LInv, Settled, Active
<1>6. \A v \in Nodes, l \in Levels : ListOf(v, l)'
  <2> TAKE v \in Nodes, l \in Levels
  <2>1. Found(l)' = Found(l) /\ Visible(v, l)' = Visible(v, l)
    BY <1>1, <1>2 DEF Found, Visible, Unlinked, InRange
  <2>2. ListOf(v, l)
    BY DEF LInv
  <2> QED
    BY <1>1, <2>1, <2>2 DEF ListOf, Tidy, Held
<1> QED
  BY <1>2, <1>3, <1>4, <1>5, <1>6 DEF LInv

LEMMA InitEstablishesGraph == Init => LInv
<1> SUFFICES ASSUME Init PROVE LInv
  OBVIOUS
<1> USE DEF Init
<1>1. EInv
  BY InitEstablishes
<1>2. \A l \in Levels : NbNeighbors[l] \in Nat
  BY <1>1, LevelsBelow
<1>3. \A v \in Nodes, l \in Levels :
        neighbors[<<v, l>>] = [i \in 1..NbNeighbors[l] |-> None]
  BY DEF EmptyTable
<1>4. neighbors \in [Nodes \X Levels -> Seq(Id)]
  <2>1. \A x \in Nodes \X Levels : [i \in 1..NbNeighbors[x[2]] |-> None] \in Seq(Id)
    <3> TAKE x \in Nodes \X Levels
    <3>1. NbNeighbors[x[2]] \in Nat
      BY <1>2
    <3>2. [i \in 1..NbNeighbors[x[2]] |-> None] \in [1..NbNeighbors[x[2]] -> Id]
      BY DEF Id
    <3> QED
      BY <3>1, <3>2, SeqDef
  <2> QED
    BY <2>1 DEF EmptyTable
<1>5. <<>> \in Seq(Nodes) /\ <<>> \in Seq(Id)
  OBVIOUS
<1>6. Typed
  BY <1>4, <1>5 DEF Typed, Id
<1>7. \A t \in Threads : PlaceOf(t) /\ SearchOf(t) /\ BackOf(t)
  <2> TAKE t \in Threads
  <2>1. Cardinality({}) <= EfConstruction
    BY FS_EmptySet, BuildAssumption
  <2> QED
    BY <2>1 DEF PlaceOf, SearchOf, BackOf, InLevels
<1>8. \A v \in Nodes, l \in Levels : ListOf(v, l)
  <2> TAKE v \in Nodes, l \in Levels
  <2> DEFINE slots == [i \in 1..NbNeighbors[l] |-> None]
  <2>1. Tidy(slots, NbNeighbors[l], Found(l) \ {v})
    BY DEF Tidy, Id
  <2>2. Held(slots) = {}
    BY DEF Held, Range
  <2> QED
    BY <1>3, <2>1, <2>2 DEF ListOf
<1> QED
  BY <1>1, <1>6, <1>7, <1>8 DEF LInv

\* LInv is inductive: what a thread knows of the lists and of the nodes it
\* has found stays true whatever the other threads of add_with_locks do.
THEOREM GraphInvariance == Calm => (Spec => []LInv)
<1>1. ASSUME Calm PROVE LInv /\ [Next]_vars => LInv'
  BY <1>1, StepKeepsGraph, NextBucketKeepsGraph, StutterKeepsGraph DEF Next
<1>2. ASSUME Calm PROVE Spec => []LInv
  <2>1. LInv /\ [Next]_vars => LInv'
    BY <1>1, <1>2
  <2> QED
    BY <2>1, InitEstablishesGraph, PTL DEF Spec
<1> QED
  BY <1>2

\* add_link and add_links_starting_from, run by any number of threads, keep the
\* lists in order: the slots stay within neighbor_range, filled from the front
\* with distinct nodes of the level other than the node itself; no list names a
\* node whose own list is still to be written; and who rewrites a list holds
\* the lock of its node.
THEOREM GraphStaysInOrder == Calm => (Spec => []GraphInOrder)
<1>1. LInv => GraphInOrder
  <2> SUFFICES ASSUME LInv PROVE GraphInOrder
    OBVIOUS
  <2>1. /\ EInv /\ Typed /\ \A l \in Levels : NbNeighbors[l] \in Nat
    BY LevelsBelow DEF LInv
  <2>2. \A v \in Nodes, l \in Levels :
          /\ neighbors[<<v, l>>] \in [1..NbNeighbors[l] -> Id]
          /\ Tidy(neighbors[<<v, l>>], NbNeighbors[l], Found(l) \ {v})
          /\ Held(neighbors[<<v, l>>]) \subseteq Found(l) \ {v}
    BY <2>1, TidyUsed DEF LInv, ListOf, Tidy
  <2>3. TypeOK
    <3>1. entry_point \in Id /\ max_level \in Levels \cup {-1}
      BY <2>1, AddedNodes, LevelsProperties DEF EInv, EntryFollows, Id
    <3>2. \A t \in Threads :
            /\ results[t] \cup candidates[t] \subseteq visited[t]
            /\ visited[t] \subseteq Nodes
            /\ Cardinality(results[t]) <= EfConstruction
            /\ pc[t] = "write" => locks[Head(targets[t])] = {t}
      BY <2>1 DEF LInv, Typed, SearchOf, BackOf
    <3> QED
      BY <2>1, <2>2, <3>1, <3>2 DEF TypeOK, Typed, EInv, Control
  <2>4. PrivateUntilLinked
    <3> SUFFICES ASSUME NEW t \in Threads, NEW v \in Nodes, NEW l \in Levels,
                        Unlinked(t, l), pt_id[t] \in ToSet(neighbors[<<v, l>>])
                 PROVE  FALSE
      BY DEF PrivateUntilLinked
    <3>1. pt_id[t] \in Nodes /\ ~Visible(pt_id[t], l)
      BY <2>1, OwnNode DEF Active, Unlinked
    <3>2. pt_id[t] \in Held(neighbors[<<v, l>>])
      BY <3>1, NoneIsNoNode DEF Held, ToSet, Range
    <3> QED
      BY <2>2, <3>1, <3>2 DEF Found
  <2>5. ListsWellFormed
    <3> SUFFICES ASSUME NEW v \in Nodes, NEW l \in Levels
                 PROVE  LET list == Used(neighbors[<<v, l>>]) IN
                        /\ \A i \in DOMAIN neighbors[<<v, l>>] :
                             neighbors[<<v, l>>][i] # None => i <= Len(list)
                        /\ IsInjective(list)
                        /\ ToSet(list) \subseteq {w \in Nodes \ {v} : InRange(w, l)}
      BY DEF ListsWellFormed
    <3>1. /\ NbNeighbors[l] \in Nat /\ DOMAIN neighbors[<<v, l>>] = 1..NbNeighbors[l]
          /\ Tidy(neighbors[<<v, l>>], NbNeighbors[l], Found(l) \ {v})
      BY <2>1, <2>2
    <3>2. /\ Range(Used(neighbors[<<v, l>>])) \subseteq Found(l) \ {v}
          /\ IsInjective(Used(neighbors[<<v, l>>]))
          /\ \A i \in 1..NbNeighbors[l] : neighbors[<<v, l>>][i] # None
               => i <= Len(Used(neighbors[<<v, l>>]))
      BY <3>1, TidyUsed
    <3>3. ToSet(Used(neighbors[<<v, l>>])) = Range(Used(neighbors[<<v, l>>]))
      BY DEF ToSet, Range
    <3> QED
      BY <3>1, <3>2, <3>3 DEF Found
  <2> QED
    BY <2>3, <2>4, <2>5 DEF GraphInOrder
<1> QED
  BY <1>1, GraphInvariance, PTL

\* search_neighbors_to_add, add_link and add_links_starting_from ask
\* neighbor_range only for levels that the node has, as HNSW.h promises of
\* offsets; hnsw_race shows the calls that are not Calm, where they do not.
THEOREM RangesStayInside == Calm => (Spec => []NeighborRangeInside)
<1>1. LInv => NeighborRangeInside
  <2> SUFFICES ASSUME LInv, NEW t \in Threads
               PROVE  /\ pc[t] = "search" =>
                           \A v \in {pt_id[t]} \cup candidates[t] : InRange(v, level[t])
                      /\ pc[t] \in {"link_back", "write"} =>
                           \A v \in ToSet(targets[t]) : InRange(v, level[t])
    BY DEF NeighborRangeInside
  <2>1. ASSUME pc[t] = "search"
        PROVE  \A v \in {pt_id[t]} \cup candidates[t] : InRange(v, level[t])
    <3>1. candidates[t] \subseteq Found(level[t])
      BY <2>1 DEF LInv, SearchOf
    <3>2. level[t] \in 0..bucket /\ Level[pt_id[t]] = bucket
      BY <2>1, OwnNode DEF LInv, PlaceOf, InLevels, Active
    <3>3. InRange(pt_id[t], level[t])
      BY <3>2, LevelsBelow DEF LInv, InRange
    <3> QED
      BY <3>1, <3>3 DEF Found
  <2>2. ASSUME pc[t] \in {"link_back", "write"}
        PROVE  \A v \in ToSet(targets[t]) : InRange(v, level[t])
    <3>1. Range(targets[t]) \subseteq Found(level[t])
      BY <2>2 DEF LInv, BackOf
    <3> QED
      BY <3>1 DEF Found, ToSet, Range
  <2> QED
    BY <2>1, <2>2
<1> QED
  BY <1>1, GraphInvariance, PTL

\* Every graph that one call of hnsw_add_vertices builds.
LEMMA OneCallIsCalm == Len(Calls) = 1 => Calm
<1> SUFFICES ASSUME Len(Calls) = 1, NEW c \in DOMAIN Calls
             PROVE  UNION {Calls[d] : d \in 1..(c - 1)} = {}
  BY DEF Calm
<1>1. c = 1
  BY BuildAssumption
<1> QED
  BY <1>1

-----------------------------------------------------------------------------
(* The links back                                                          *)

\* t has still to link w back to v at level l.
Pending(v, l, w) ==
  \E t \in Threads : /\ pc[t] \in {"link_back", "write"} /\ level[t] = l
                     /\ pt_id[t] = v /\ w \in Range(targets[t])

Backed(w, l, v) == Answered(w, {v}, neighbors[<<w, l>>], NbNeighbors[l])

LinkOf(v, l) ==
  \A w \in Held(neighbors[<<v, l>>]) : Backed(w, l, v) \/ Pending(v, l, w)

TargetsOf(t) ==
  /\ pc[t] = "search" => results[t] # {}
  /\ pc[t] \in {"link_back", "write"} =>
       \A w \in Range(targets[t]) : Backed(pt_id[t], level[t], w)

\* No link at level 0 leads out of S or into it.
Apart(S) ==
  \A v \in Nodes : \A w \in Held(neighbors[<<v, 0>>]) : v \in S <=> w \in S

\* What can be found at level 0 is in one piece.
Connected ==
  0 \in Ample =>
    \A S \in SUBSET Found(0) : S # {} /\ Apart(S) => S = Found(0)

MInv ==
  /\ LInv
  /\ \A v \in Nodes, l \in Levels : LinkOf(v, l)
  /\ \A t \in Threads : TargetsOf(t)
  /\ Connected

LEMMA HeldFound ==
  ASSUME LInv, NEW v \in Nodes, NEW l \in Levels
  PROVE  /\ Held(neighbors[<<v, l>>]) \subseteq Found(l) \ {v}
         /\ Held(neighbors[<<v, l>>]) \subseteq Nodes
         /\ Held(neighbors[<<v, l>>]) = ToSet(Used(neighbors[<<v, l>>]))
<1>1. /\ Tidy(neighbors[<<v, l>>], NbNeighbors[l], Found(l) \ {v})
      /\ NbNeighbors[l] \in Nat
  BY LevelsBelow DEF LInv, ListOf
<1>2. /\ Held(neighbors[<<v, l>>]) \subseteq Found(l) \ {v}
      /\ Range(Used(neighbors[<<v, l>>])) = Held(neighbors[<<v, l>>])
  BY <1>1, TidyUsed
<1>3. ToSet(Used(neighbors[<<v, l>>])) = Range(Used(neighbors[<<v, l>>]))
  BY DEF ToSet, Range
<1> QED
  BY <1>2, <1>3 DEF Found

\* Whatever a step does to a list, what was in it stays answered.
LEMMA ListsAnswer ==
  ASSUME LInv, NEW t \in Threads, Step(t), NEW w \in Nodes, NEW l \in Levels
  PROVE  Answered(w, Held(neighbors[<<w, l>>]), neighbors'[<<w, l>>], NbNeighbors[l])
<1>0. Held(neighbors[<<w, l>>]) \subseteq Nodes
  BY HeldFound
<1>1. CASE neighbors'[<<w, l>>] = neighbors[<<w, l>>]
  <2>1. \A x \in Held(neighbors[<<w, l>>]) : ~Closer(w, x, x)
    BY <1>0, DistanceOrders
  <2> QED
    BY <1>1, <2>1 DEF Answered
<1>2. CASE LinkOwn(t) /\ w = pt_id[t] /\ l = level[t]
  <2>1. Held(neighbors[<<w, l>>]) = {}
    BY <1>2, OwnList DEF LinkOwn
  <2> QED
    BY <2>1 DEF Answered
<1>3. CASE EndLinkBack(t) /\ w = Head(targets[t]) /\ l = level[t]
           /\ neighbors'[<<w, l>>] = pending[t]
  <2>1. /\ pc[t] = "write" /\ targets[t] # <<>>
        /\ pending[t] = AddLink(neighbors[<<w, l>>], w, pt_id[t], Keep(t))
    BY <1>3 DEF EndLinkBack, LInv, BackOf
  <2>2. Answered(w, Held(neighbors[<<w, l>>]) \cup {pt_id[t]}, pending[t], NbNeighbors[l])
    BY <1>3, <2>1, BackLink
  <2> QED
    BY <1>3, <2>2 DEF Answered
<1> QED
  BY <1>1, <1>2, <1>3, LocksAndLists

LEMMA HeldNext ==
  ASSUME LInv, NEW t \in Threads, Step(t), NEW w \in Nodes, NEW l \in Levels
  PROVE  /\ Held(neighbors'[<<w, l>>]) \subseteq Found(l)'
         /\ Held(neighbors'[<<w, l>>]) \subseteq Nodes \ {w}
<1>1. NbNeighbors[l] \in Nat
  BY LevelsBelow DEF LInv
<1>2. Tidy(neighbors'[<<w, l>>], NbNeighbors[l], Found(l)' \ {w})
  BY StepKeepsLists DEF ListOf, Tidy
<1>3. Found(l)' \subseteq Nodes
  BY DEF Found
<1> QED
  BY <1>1, <1>2, <1>3, TidyUsed

LEMMA BackedStays ==
  ASSUME LInv, NEW t \in Threads, Step(t), NEW w \in Nodes, NEW l \in Levels,
         NEW v \in Nodes, Backed(w, l, v)
  PROVE  Answered(w, {v}, neighbors'[<<w, l>>], NbNeighbors[l])
<1>1. Answered(w, Held(neighbors[<<w, l>>]), neighbors'[<<w, l>>], NbNeighbors[l])
  BY ListsAnswer
<1>2. /\ Held(neighbors[<<w, l>>]) \subseteq Nodes
      /\ Held(neighbors'[<<w, l>>]) \subseteq Nodes
  BY HeldFound, HeldNext
<1>3. /\ Answered(w, {v}, neighbors[<<w, l>>], NbNeighbors[l])
      /\ Answered(w, Held(neighbors[<<w, l>>]) \cup {}, neighbors'[<<w, l>>], NbNeighbors[l])
      /\ {v} \in SUBSET Nodes /\ {} \in SUBSET Nodes /\ {v} \cup {} = {v}
  BY <1>1 DEF Backed
<1> QED
  BY <1>2, <1>3, AnsweredOnwards

LEMMA AnsweredEach ==
  ASSUME NEW q, NEW X, NEW slots, NEW n, Answered(q, X, slots, n), NEW x \in X
  PROVE  Answered(q, {x}, slots, n)
BY DEF Answered

\* Linking back takes one target after the other.
LEMMA LinkBackSteps ==
  ASSUME LInv, NEW t \in Threads, Step(t), pc[t] \in {"link_back", "write"},
         targets[t] # <<>>
  PROVE  /\ pt_id'[t] = pt_id[t] /\ level'[t] = level[t]
         /\ pc'[t] \in {"link_back", "write"}
         /\ Range(targets'[t]) \subseteq Range(targets[t])
         /\ \A w \in Range(targets[t]) :
              \/ w \in Range(targets'[t])
              \/ Answered(w, {pt_id[t]}, neighbors'[<<w, level[t]>>], NbNeighbors[level[t]])
<1>v. PICK v, l : v = pt_id[t] /\ l = level[t]
  OBVIOUS
<1>1. CASE StartLinkBack(t)
  BY <1>1 DEF StartLinkBack, Goto, LInv, EInv, Control, place
<1>2. CASE EndLinkBack(t)
  <2>1. /\ pc[t] = "write" /\ targets' = [targets EXCEPT ![t] = Tail(targets[t])]
        /\ pc' = [pc EXCEPT ![t] = "link_back"] /\ pt_id' = pt_id /\ level' = level
        /\ neighbors' = [neighbors EXCEPT ![<<Head(targets[t]), level[t]>>] = pending[t]]
    BY <1>2 DEF EndLinkBack, Set, Goto, place
  <2>2. /\ targets'[t] = Tail(targets[t]) /\ pc'[t] = "link_back"
        /\ Range(Tail(targets[t])) = Range(targets[t]) \ {Head(targets[t])}
    <3>1. IsInjective(targets[t]) /\ targets[t] \in Seq(Nodes) /\ targets[t] # <<>>
      BY DEF LInv, Typed, BackOf
    <3>2. targets'[t] = Tail(targets[t]) /\ pc'[t] = "link_back"
      BY <2>1 DEF LInv, Typed, EInv, Control
    <3> QED
      BY <3>1, <3>2, TailTakes
  <2>3. PICK w : w = Head(targets[t])
    OBVIOUS
  <2>4. /\ w \in Nodes /\ l \in Levels /\ v \in Nodes
        /\ Answered(w, Held(neighbors[<<w, l>>]) \cup {v}, pending[t], NbNeighbors[l])
    <3>1. pending[t] = AddLink(neighbors[<<w, l>>], w, v, Keep(t))
      BY <1>v, <2>1, <2>3 DEF LInv, BackOf
    <3>2. v \in Nodes
      BY <1>v, OwnNode DEF LInv, Active
    <3> QED
      BY <1>v, <2>3, <3>1, <3>2, BackLink
  <2>5. neighbors'[<<w, l>>] = pending[t]
    BY <1>v, <2>1, <2>3, <2>4 DEF LInv, Typed
  <2>6. Answered(w, {v}, neighbors'[<<w, l>>], NbNeighbors[l])
    BY <2>4, <2>5, AnsweredEach
  <2> QED
    BY <1>v, <2>1, <2>2, <2>3, <2>6
<1>3. StartLinkBack(t) \/ EndLinkBack(t)
  BY DEF Step, TakeNode, Enter, LockOwn, Expand, LinkOwn, Relock, RaiseMaxLevel,
         RaiseEntryPoint
<1> QED
  BY <1>1, <1>2, <1>3

\* What LinkOwn leaves: the list it writes, and whom it has to link back to.
LEMMA LinkOwnLeaves ==
  ASSUME LInv, NEW t \in Threads, LinkOwn(t), NEW v, NEW l, v = pt_id[t], l = level[t]
  PROVE  /\ v \in Nodes /\ l \in Levels /\ pc[t] = "search"
         /\ pt_id'[t] = v /\ level'[t] = l /\ pc'[t] = "link_back"
         /\ Held(neighbors[<<v, l>>]) = {}
         /\ Range(targets'[t]) \subseteq Found(l) \ {v}
         /\ results[t] # {} => Range(targets'[t]) # {}
         /\ Held(neighbors'[<<v, l>>]) \subseteq Range(targets'[t])
         /\ Answered(v, Range(targets'[t]), neighbors'[<<v, l>>], NbNeighbors[l])
<1> DEFINE kept == ShrinkNeighborList(v, results[t], NbNeighbors[l], Keep(t))
           order == FarthestFirst(v, kept)
           list == AddLinks(neighbors[<<v, l>>], v, order, Keep(t))
<1>1. /\ neighbors' = [neighbors EXCEPT ![<<v, l>>] = list]
      /\ targets' = [targets EXCEPT ![t] = order]
      /\ pc' = [pc EXCEPT ![t] = "link_back"]
      /\ pt_id' = pt_id /\ level' = level /\ pc[t] = "search"
  BY DEF LinkOwn, Set, Goto, place, search
<1>2. /\ v \in Nodes /\ l \in Levels
      /\ order \in Seq(Nodes) /\ Range(order) \subseteq Found(l) \ {v}
      /\ results[t] # {} => order # <<>>
      /\ Held(neighbors[<<v, l>>]) = {} /\ Held(list) \subseteq Range(order)
      /\ Answered(v, Range(order), list, NbNeighbors[l])
  BY <1>1, OwnList
<1> HIDE DEF list, order, kept
<1>3. /\ targets'[t] = order /\ neighbors'[<<v, l>>] = list /\ pc'[t] = "link_back"
  BY <1>1, <1>2 DEF LInv, Typed, EInv, Control
<1>4. order # <<>> => Range(order) # {}
  BY <1>2 DEF Range
<1> QED
  BY <1>1, <1>2, <1>3, <1>4

LEMMA LinksKeep ==
  ASSUME LInv, \A v \in Nodes, l \in Levels : LinkOf(v, l),
         \A t \in Threads : TargetsOf(t),
         NEW t \in Threads, Step(t), NEW v \in Nodes, NEW l \in Levels
  PROVE  LinkOf(v, l)'
<1> SUFFICES ASSUME NEW w \in Held(neighbors'[<<v, l>>]),
                    ~Answered(w, {v}, neighbors'[<<w, l>>], NbNeighbors[l])
             PROVE  \E u \in Threads : /\ pc'[u] \in {"link_back", "write"}
                                       /\ level'[u] = l /\ pt_id'[u] = v
                                       /\ w \in Range(targets'[u])
  BY DEF LinkOf, Backed, Pending, Held, Answered
<1>0. w \in Nodes
  BY HeldNext
<1>1. CASE w \in Held(neighbors[<<v, l>>])
  <2>1. Pending(v, l, w)
    BY <1>0, <1>1, BackedStays DEF LinkOf
  <2>2. PICK u \in Threads : /\ pc[u] \in {"link_back", "write"} /\ level[u] = l
                             /\ pt_id[u] = v /\ w \in Range(targets[u])
    BY <2>1 DEF Pending
  <2>3. CASE u # t
    <3>1. /\ pc'[u] = pc[u] /\ pt_id'[u] = pt_id[u] /\ level'[u] = level[u]
          /\ targets'[u] = targets[u]
      BY <2>3, OthersStay DEF LInv
    <3> QED
      BY <2>2, <3>1
  <2>4. CASE u = t
    <3>1. targets[t] # <<>>
      BY <2>2, <2>4 DEF Range
    <3> QED
      BY <2>2, <2>4, <3>1, LinkBackSteps
  <2> QED
    BY <2>3, <2>4
<1>2. CASE w \notin Held(neighbors[<<v, l>>])
  <2>1. neighbors'[<<v, l>>] # neighbors[<<v, l>>]
    BY <1>2
  <2>2. CASE LinkOwn(t) /\ v = pt_id[t] /\ l = level[t]
    BY <2>2, LinkOwnLeaves
  <2>3. CASE EndLinkBack(t) /\ v = Head(targets[t]) /\ l = level[t]
             /\ neighbors'[<<v, l>>] = pending[t]
    <3>1. /\ pc[t] = "write" /\ targets[t] # <<>>
          /\ pending[t] = AddLink(neighbors[<<v, l>>], v, pt_id[t], Keep(t))
      BY <2>3 DEF EndLinkBack, LInv, BackOf
    <3>2. /\ v \in Range(targets[t])
          /\ Held(pending[t]) \subseteq Held(neighbors[<<v, l>>]) \cup {pt_id[t]}
      BY <2>3, <3>1, BackLink
    <3>3. w = pt_id[t]
      BY <1>2, <2>3, <3>2
    <3>4. Backed(w, l, v)
      BY <2>3, <3>1, <3>2, <3>3 DEF TargetsOf
    <3> QED
      BY <1>0, <3>4, BackedStays
  <2> QED
    BY <2>1, <2>2, <2>3, LocksAndLists
<1> QED
  BY <1>1, <1>2

LEMMA TargetsKeep ==
  ASSUME LInv, \A u \in Threads : TargetsOf(u), NEW t \in Threads, Step(t),
         NEW u \in Threads
  PROVE  TargetsOf(u)'
<1> SUFFICES /\ pc'[u] = "search" => results'[u] # {}
             /\ pc'[u] \in {"link_back", "write"} =>
                  \A v, l : v = pt_id'[u] /\ l = level'[u] =>
                    \A w \in Range(targets'[u]) :
                      Answered(v, {w}, neighbors'[<<v, l>>], NbNeighbors[l])
  BY DEF TargetsOf, Backed, Answered, Held
<1>1. ASSUME pc[u] \in {"link_back", "write"}, NEW v, NEW l, v = pt_id[u], l = level[u],
             NEW w \in Range(targets[u])
      PROVE  Answered(v, {w}, neighbors'[<<v, l>>], NbNeighbors[l])
  <2>1. v \in Nodes
    BY <1>1, OwnNode DEF LInv, Active
  <2>2. l \in Levels
    BY <1>1, LevelsBelow DEF LInv, PlaceOf, InLevels
  <2>3. w \in Nodes
    BY <1>1 DEF LInv, BackOf, Found
  <2>4. Backed(v, l, w)
    BY <1>1 DEF TargetsOf
  <2> QED
    BY <2>1, <2>2, <2>3, <2>4, BackedStays
<1>2. CASE u # t
  <2>1. /\ pc'[u] = pc[u] /\ pt_id'[u] = pt_id[u] /\ level'[u] = level[u]
        /\ targets'[u] = targets[u] /\ results'[u] = results[u]
    BY <1>2, OthersStay DEF LInv
  <2> QED
    BY <1>1, <2>1 DEF TargetsOf
<1>3. CASE u = t
  <2> USE DEF LInv, EInv, Control, Typed, Goto, Set
  <2>1. CASE \E v \in Nodes : TakeNode(t, v)
    BY <1>3, <2>1 DEF TakeNode
  <2>2. CASE Enter(t) \/ RaiseMaxLevel(t) \/ RaiseEntryPoint(t)
    BY <1>3, <2>2 DEF Enter, RaiseMaxLevel, RaiseEntryPoint
  <2>3. CASE LockOwn(t) \/ Relock(t)
    <3>1. \/ pc'[t] = "finish"
          \/ pc'[t] = "search" /\ \E from : results' = [results EXCEPT ![t] = {from}]
      BY <2>3 DEF LockOwn, Relock, StartSearch
    <3>2. results'[t] # {} \/ pc'[t] = "finish"
      BY <3>1
    <3> QED
      BY <1>3, <3>1, <3>2
  <2>4. CASE Expand(t)
    <3>1. pc[t] = "search" /\ pc' = pc /\ results[t] # {} /\ results[t] \in SUBSET Nodes
      BY <2>4 DEF Expand, TargetsOf
    <3>2. PICK l, c : /\ l = level[t] /\ c = Nearest(pt_id[t], candidates[t])
      OBVIOUS
    <3>3. pt_id[t] \in Nodes /\ l \in Levels /\ c \in Found(l)
      <4>1. pt_id[t] \in Nodes
        BY <3>1, OwnNode DEF Active
      <4>2. l \in Levels
        BY <3>1, <3>2, LevelsBelow DEF PlaceOf, InLevels
      <4>3. candidates[t] # {}
        BY <2>4 DEF Expand, SearchEnds
      <4>4. c \in candidates[t]
        BY <3>2, <4>1, <4>3, NearestProperties
      <4>5. candidates[t] \subseteq Found(l)
        BY <3>1, <3>2 DEF SearchOf
      <4> QED
        BY <4>1, <4>2, <4>4, <4>5
    <3>4. PICK list \in Views(c, l) :
            results' = [results EXCEPT ![t] =
              NearestOf(pt_id[t], results[t] \cup (ToSet(Used(list)) \ visited[t]), EfConstruction)]
      BY <2>4, <3>2 DEF Expand
    <3> DEFINE R == results[t] \cup (ToSet(Used(list)) \ visited[t])
    <3>5. R \in SUBSET Nodes /\ R # {}
      BY <3>1, <3>3, <3>4, ViewsLead
    <3> HIDE DEF R
    <3>6. Nearest(pt_id[t], R) \in NearestOf(pt_id[t], R, EfConstruction)
      <4>1. Nearest(pt_id[t], R) \in R
        BY <3>3, <3>5, NearestProperties
      <4>2. R \in SUBSET R /\ EfConstruction \in Nat \ {0}
        BY BuildAssumption
      <4> QED
        BY <3>3, <3>5, <4>1, <4>2, NearestIsOf
    <3>7. results'[t] = NearestOf(pt_id[t], R, EfConstruction)
      BY <3>4 DEF R
    <3> QED
      BY <1>3, <3>1, <3>6, <3>7
  <2>5. CASE LinkOwn(t)
    <3>1. PICK v, l : v = pt_id[t] /\ l = level[t]
      OBVIOUS
    <3>2. /\ pt_id'[t] = v /\ level'[t] = l /\ pc'[t] = "link_back"
          /\ Answered(v, Range(targets'[t]), neighbors'[<<v, l>>], NbNeighbors[l])
      BY <2>5, <3>1, LinkOwnLeaves
    <3> QED
      BY <1>3, <3>2, AnsweredEach
  <2>6. CASE StartLinkBack(t) \/ EndLinkBack(t)
    <3>1. pc[t] \in {"link_back", "write"} /\ targets[t] # <<>>
      BY <2>6 DEF StartLinkBack, EndLinkBack, BackOf
    <3>2. /\ pt_id'[t] = pt_id[t] /\ level'[t] = level[t]
          /\ pc'[t] \in {"link_back", "write"}
          /\ Range(targets'[t]) \subseteq Range(targets[t])
      BY <3>1, LinkBackSteps
    <3> QED
      BY <1>1, <1>3, <3>1, <3>2
  <2> QED
    BY <2>1, <2>2, <2>3, <2>4, <2>5, <2>6 DEF Step
<1> QED
  BY <1>2, <1>3

\* The nodes that can be found at level 0 are added one at a time.
LEMMA FoundAtZero ==
  ASSUME LInv, NEW t \in Threads, Step(t)
  PROVE  /\ Found(0) \subseteq Found(0)'
         /\ \A x \in Found(0)' : x \notin Found(0) =>
              /\ x = pt_id[t]
              /\ (LinkOwn(t) /\ level[t] = 0) \/ (Enter(t) /\ entry_point = None)
<1>1. \A x : Visible(x, 0) => Visible(x, 0)'
  BY Grows DEF LInv, Growing
<1>2. ASSUME NEW x \in Found(0)', x \notin Found(0)
      PROVE  /\ x = pt_id[t]
             /\ (LinkOwn(t) /\ level[t] = 0) \/ (Enter(t) /\ entry_point = None)
  <2>1. /\ x \in Added' /\ \A u \in Threads : Unlinked(u, 0)' => pt_id'[u] # x
        /\ x \in Added => \E u \in Threads : Unlinked(u, 0) /\ pt_id[u] = x
    BY <1>2 DEF Found, Visible, InRange
  <2>2. ~ \E v \in Nodes : TakeNode(t, v) /\ v = x
    BY <2>1 DEF TakeNode, Goto, Set, Unlinked, LInv, EInv, Control
  <2>3. x \in Added
    <3>1. CASE \E v \in Nodes : TakeNode(t, v)
      <4>1. PICK v \in Nodes : TakeNode(t, v)
        BY <3>1
      <4>2. callNo' = callNo /\ bucket' = bucket /\ todo' = todo \ {v} /\ x # v
        BY <2>2, <4>1 DEF TakeNode
      <4> QED
        BY <2>1, <4>2 DEF Added, Before, InBucket
    <3>2. CASE ~ \E v \in Nodes : TakeNode(t, v)
      BY <2>1, <3>2, StepsMove, MovesKeepControl DEF LInv, EInv
    <3> QED
      BY <3>1, <3>2
  <2>4. PICK u \in Threads : Unlinked(u, 0) /\ pt_id[u] = x
    BY <2>1, <2>3
  <2>5. u = t
    <3> SUFFICES ASSUME u # t PROVE FALSE
      OBVIOUS
    <3>1. pc'[u] = pc[u] /\ pt_id'[u] = pt_id[u] /\ level'[u] = level[u]
      BY OthersStay DEF LInv
    <3> QED
      BY <2>1, <2>4, <3>1 DEF Unlinked
  <2>6. ~Unlinked(t, 0)' /\ pc[t] # "idle"
    <3>1. pc[t] # "idle"
      BY <2>4, <2>5 DEF Unlinked
    <3>2. pt_id'[t] = pt_id[t]
      BY <3>1 DEF Step, TakeNode, Enter, LockOwn, Expand, LinkOwn, StartLinkBack,
                  EndLinkBack, Relock, RaiseMaxLevel, RaiseEntryPoint, place
    <3> QED
      BY <2>1, <2>4, <2>5, <3>1, <3>2
  <2>7. Unlinked(t, 0)
    BY <2>4, <2>5
  <2> USE DEF LInv, EInv, Control, Typed, Goto, Set
  <2>8. CASE Enter(t)
    BY <2>4, <2>5, <2>6, <2>8 DEF Enter, Unlinked
  <2>9. CASE LinkOwn(t)
    <3>1. pc[t] = "search" /\ pc'[t] = "link_back" /\ level'[t] = level[t]
      BY <2>9 DEF LinkOwn, place
    <3>2. level[t] \in Nat
      BY <3>1, LevelsBelow DEF PlaceOf, InLevels
    <3>3. level[t] = 0
      BY <2>6, <3>1, <3>2 DEF Unlinked
    <3> QED
      BY <2>4, <2>5, <2>9, <3>3
  <2>10. CASE LockOwn(t)
    <3>1. pc'[t] = "search"
      BY <2>10 DEF LockOwn, StartSearch
    <3>2. PlaceOf(t)' /\ EInv'
      BY <2>10, LockOwnKeeps, StepKeepsEntry
    <3>3. level'[t] \in 0..bucket'
      BY <3>1, <3>2 DEF PlaceOf, InLevels
    <3> QED
      BY <2>6, <3>1, <3>3 DEF Unlinked
  <2>11. CASE Expand(t)
    BY <2>6, <2>7, <2>11 DEF Expand, Unlinked, place
  <2>12. CASE StartLinkBack(t) \/ EndLinkBack(t)
    BY <2>6, <2>7, <2>12 DEF StartLinkBack, EndLinkBack, Unlinked, place
  <2>13. CASE Relock(t)
    <3>1. pc[t] = "link_back" /\ level'[t] = level[t] - 1
      BY <2>13 DEF Relock
    <3>2. level[t] \in Nat
      BY <3>1, LevelsBelow DEF PlaceOf, InLevels
    <3>3. level[t] > 0
      BY <2>7, <3>1, <3>2 DEF Unlinked
    <3>4. pc'[t] = "search"
      BY <2>13, <3>3 DEF Relock, StartSearch
    <3> QED
      BY <2>6, <3>1, <3>2, <3>3, <3>4 DEF Unlinked
  <2>14. CASE RaiseMaxLevel(t) \/ RaiseEntryPoint(t)
    BY <2>7, <2>14 DEF RaiseMaxLevel, RaiseEntryPoint, Unlinked
  <2>15. ~ \E v \in Nodes : TakeNode(t, v)
    BY <2>6 DEF TakeNode
  <2> QED
    BY <2>8, <2>9, <2>10, <2>11, <2>12, <2>13, <2>14, <2>15 DEF Step
<1> QED
  BY <1>1, <1>2 DEF Found, InRange

LEMMA ConnectedStays ==
  ASSUME LInv, Connected, \A u \in Threads : TargetsOf(u), NEW t \in Threads, Step(t)
  PROVE  Connected'
<1> SUFFICES ASSUME 0 \in Ample, NEW S \in SUBSET (Found(0)'), S # {},
                    \A v \in Nodes : \A w \in Held(neighbors'[<<v, 0>>]) : v \in S <=> w \in S
             PROVE  S = Found(0)'
  BY DEF Connected, Apart, Ample, Held
<1>0. 0 \in Levels /\ NbNeighbors[0] >= Cardinality(Nodes)
  BY DEF Ample
<1>1. /\ Found(0) \subseteq Found(0)'
      /\ \A x \in Found(0)' : x \notin Found(0) =>
           /\ x = pt_id[t]
           /\ (LinkOwn(t) /\ level[t] = 0) \/ (Enter(t) /\ entry_point = None)
  BY FoundAtZero
<1> DEFINE T == S \cap Found(0)
<1>2. Apart(T)
  <2> SUFFICES ASSUME NEW v \in Nodes, NEW w \in Held(neighbors[<<v, 0>>])
               PROVE  v \in T <=> w \in T
    BY DEF Apart
  <2>1. w \in Held(neighbors'[<<v, 0>>])
    BY <1>0, ListsAnswer DEF Answered
  <2>2. w \in Found(0)
    BY <1>0, HeldFound
  <2>3. v \in Found(0)
    <3>1. Visible(v, 0)
      BY <1>0 DEF LInv, ListOf
    <3>2. Level[v] \in Nat
      BY LevelsBelow DEF LInv
    <3> QED
      BY <3>1, <3>2 DEF Found, InRange
  <2> QED
    BY <2>1, <2>2, <2>3
<1>3. T # {} => T = Found(0)
  BY <1>2 DEF Connected
<1>4. CASE Found(0)' = Found(0)
  BY <1>3, <1>4
<1>5. CASE Enter(t) /\ entry_point = None
  <2>1. Found(0) = {}
    BY <1>5 DEF LInv, EInv, EntryFollows, Found, Visible, Unlinked
  <2> QED
    BY <1>1, <2>1
<1>6. CASE LinkOwn(t) /\ level[t] = 0
  <2>1. PICK v : v = pt_id[t]
    OBVIOUS
  <2>2. /\ v \in Nodes /\ pc[t] = "search"
        /\ Range(targets'[t]) \subseteq Found(0) \ {v}
        /\ results[t] # {} => Range(targets'[t]) # {}
        /\ Answered(v, Range(targets'[t]), neighbors'[<<v, 0>>], NbNeighbors[0])
    BY <1>6, <2>1, LinkOwnLeaves
  <2>3. Range(targets'[t]) # {} /\ Range(targets'[t]) \subseteq Held(neighbors'[<<v, 0>>])
    BY <1>0, <2>2 DEF TargetsOf, Answered
  <2>4. PICK w \in Found(0) : w # v /\ (v \in S <=> w \in S)
    BY <2>2, <2>3
  <2>5. T # {}
    BY <1>1, <2>1, <2>4
  <2> QED
    BY <1>1, <1>3, <2>1, <2>4, <2>5
<1> QED
  BY <1>1, <1>4, <1>5, <1>6

LEMMA IdleKeepsLinks ==
  ASSUME MInv, LInv', neighbors' = neighbors, pc' = pc, pt_id' = pt_id, level' = level,
         targets' = targets, results' = results, Added' = Added
  PROVE  MInv'
<1>1. Found(0)' = Found(0)
  BY DEF Found, Visible, Unlinked, InRange
<1>2. \A v \in Nodes, l \in Levels : LinkOf(v, l)'
  <2> TAKE v \in Nodes, l \in Levels
  <2>1. LinkOf(v, l)
    BY DEF MInv
  <2>2. \A w : Backed(w, l, v)' = Backed(w, l, v) /\ Pending(v, l, w)' = Pending(v, l, w)
    BY DEF Backed, Pending, Answered, Held
  <2> QED
    BY <2>1, <2>2 DEF LinkOf, Held
<1>3. \A t \in Threads : TargetsOf(t)'
  BY DEF MInv, TargetsOf, Backed, Answered, Held
<1>4. Connected'
  BY <1>1 DEF MInv, Connected, Apart, Held, Ample
<1> QED
  BY <1>2, <1>3, <1>4 DEF MInv

LEMMA NextKeepsLinks ==
  ASSUME MInv, Calm, [Next]_vars
  PROVE  MInv'
<1> USE DEF MInv
<1>1. ASSUME NEW t \in Threads, Step(t) PROVE MInv'
  BY <1>1, StepKeepsGraph, LinksKeep, TargetsKeep, ConnectedStays
<1>2. CASE NextBucket
  <2>1. LInv' /\ Added' = Added
    BY <1>2, NextBucketKeepsGraph, NextBucketAddsNone DEF LInv
  <2> QED
    BY <1>2, <2>1, IdleKeepsLinks DEF NextBucket, place, search
<1>3. CASE UNCHANGED vars
  <2>1. LInv'
    BY <1>3, StutterKeepsGraph
  <2>2. Added' = Added
    BY <1>3 DEF vars, work, Added, Before, InBucket
  <2> QED
    BY <1>3, <2>1, <2>2, IdleKeepsLinks DEF vars, place, search
<1> QED
  BY <1>1, <1>2, <1>3 DEF Next

LEMMA InitEstablishesLinks == Init => MInv
<1> SUFFICES ASSUME Init PROVE MInv
  OBVIOUS
<1>1. LInv
  BY InitEstablishesGraph
<1>2. \A v \in Nodes, l \in Levels : Held(neighbors[<<v, l>>]) = {}
  BY DEF Init, EmptyTable, Held, Range
<1>3. Found(0) = {}
  BY <1>1 DEF Init, LInv, EInv, EntryFollows, Found, Visible
<1> QED
  BY <1>1, <1>2, <1>3 DEF Init, MInv, LinkOf, TargetsOf, Connected

\* MInv is inductive too.
THEOREM LinkInvariance == Calm => (Spec => []MInv)
<1>1. ASSUME Calm PROVE Spec => []MInv
  <2>1. MInv /\ [Next]_vars => MInv'
    BY <1>1, NextKeepsLinks
  <2> QED
    BY <2>1, InitEstablishesLinks, PTL DEF Spec
<1> QED
  BY <1>1

\* A chain of sets that grows at each step grows at most Cardinality(Nodes)
\* times: the last is closed.
LEMMA ReachCloses ==
  ASSUME NEW e \in Nodes, \A v \in Nodes : Neighbors(v, 0) \subseteq Nodes
  PROVE  LET reach[n \in 0..Cardinality(Nodes)] ==
               IF n = 0 THEN {e}
               ELSE UNION {{v} \cup Neighbors(v, 0) : v \in reach[n - 1]}
             all == reach[Cardinality(Nodes)] IN
         all \subseteq Nodes /\ e \in all /\ \A v \in all : Neighbors(v, 0) \subseteq all
<1> DEFINE K == Cardinality(Nodes)
           D == 0..K
           X == SUBSET Nodes
           wider(A) == UNION {{v} \cup Neighbors(v, 0) : v \in A}
           step(f, n) == IF n = 0 THEN {e} ELSE wider(f[n - 1])
           reach == CHOOSE f : f = [n \in D |-> step(f, n)]
           Closed(A) == \A v \in A : Neighbors(v, 0) \subseteq A
           Reached(n) == /\ reach[n] \in X /\ e \in reach[n]
                         /\ Closed(reach[n]) \/ Cardinality(reach[n]) >= n + 1
           d == [n \in D |-> n]
           G == [nf \in D \X [D -> X] |-> step(nf[2], nf[1])]
<1>1. IsFiniteSet(Nodes) /\ K \in Nat
  BY GraphAssumption, FS_CardinalityType
<1>2. \A A \in X : wider(A) \in X /\ A \subseteq wider(A)
  OBVIOUS
<1>3. \A A \in X : ~Closed(A) => wider(A) # A
  OBVIOUS
<1> HIDE DEF K, wider
<1>4. \A n \in D : n \in Nat /\ n <= K /\ (n # 0 => n - 1 \in D /\ n - 1 < n)
  BY <1>1
<1>5. \E f \in [D -> X] : \A n \in D : f[n] = G[<<n, f>>]
  <2>1. \A n \in D, f \in [D -> X] : step(f, n) \in X
    BY <1>2, <1>4
  <2>2. G \in [D \X [D -> X] -> X]
    <3> HIDE DEF step, X, D
    <3> QED
      BY <2>1
  <2>3. ASSUME NEW n \in D, NEW f \in [D -> X], NEW g \in [D -> X],
               \A k \in D : d[k] < d[n] => f[k] = g[k]
        PROVE  G[<<n, f>>] = G[<<n, g>>]
    <3>1. G[<<n, f>>] = step(f, n) /\ G[<<n, g>>] = step(g, n)
      <4> HIDE DEF step, X, D
      <4> QED
        OBVIOUS
    <3>2. n # 0 => f[n - 1] = g[n - 1]
      BY <1>4, <2>3
    <3>3. step(f, n) = step(g, n)
      BY <3>2
    <3> QED
      BY <3>1, <3>3
  <2>4. X # {} /\ d \in [D -> Nat] /\ K + 1 \in Nat /\ \A n \in D : d[n] < K + 1
    BY <1>1, <1>4
  <2> HIDE DEF G, d, X, D
  <2>5. Ranked(D, X, d, K + 1, G)
    BY <2>2, <2>3, <2>4 DEF Ranked
  <2> QED
    BY <2>5, RankRecursion
<1>6. \E f : f = [n \in D |-> step(f, n)]
  <2>1. PICK f \in [D -> X] : \A n \in D : f[n] = G[<<n, f>>]
    BY <1>5
  <2>2. \A n \in D : f[n] = step(f, n)
    <3> HIDE DEF step, X, D
    <3> QED
      BY <2>1
  <2>3. f = [n \in D |-> f[n]]
    OBVIOUS
  <2> HIDE DEF step, D
  <2> QED
    BY <2>2, <2>3
<1>7. \A n \in D : reach[n] = step(reach, n)
  <2>1. reach = [n \in D |-> step(reach, n)]
    BY <1>6
  <2> HIDE DEF reach, step, D
  <2> QED
    BY <2>1
<1> HIDE DEF reach
<1>8. ASSUME NEW n \in D, \A k \in D : k < n => Reached(k)
      PROVE  Reached(n)
  <2>1. CASE n = 0
    <3>1. reach[0] = {e} /\ Cardinality({e}) = 1
      BY <1>7, <2>1, FS_Singleton
    <3> QED
      BY <2>1, <3>1
  <2>2. CASE n # 0
    <3>1. Reached(n - 1) /\ reach[n] = wider(reach[n - 1]) /\ n \in Nat
      BY <1>4, <1>7, <1>8, <2>2
    <3>2. PICK A, B : A = reach[n - 1] /\ B = reach[n]
      OBVIOUS
    <3>3. /\ A \in X /\ e \in A /\ B = wider(A)
          /\ Closed(A) \/ Cardinality(A) >= n
      BY <3>1, <3>2
    <3>4. B \in X /\ A \subseteq B /\ e \in B
      BY <1>2, <3>3
    <3>5. CASE Closed(A)
      <4>1. B = A
        BY <3>3, <3>5 DEF wider
      <4> QED
        BY <3>2, <3>3, <3>5, <4>1
    <3>6. CASE ~Closed(A)
      <4>1. A # B /\ IsFiniteSet(B)
        BY <1>1, <1>3, <3>3, <3>4, <3>6, FS_Subset
      <4>2. /\ Cardinality(A) < Cardinality(B)
            /\ Cardinality(A) \in Nat /\ Cardinality(B) \in Nat
        BY <3>4, <4>1, FS_Subset, FS_CardinalityType
      <4>3. Cardinality(B) >= n + 1
        BY <3>1, <3>3, <3>6, <4>2
      <4> QED
        BY <3>2, <3>4, <4>3
    <3> QED
      BY <3>5, <3>6
  <2> QED
    BY <2>1, <2>2
<1>9. Reached(K)
  <2> DEFINE T == {n \in D : Reached(n)}
  <2>1. K \in D /\ d \in [D -> Nat]
    BY <1>1, <1>4
  <2>2. Inherits(D, d, T)
    <3> HIDE DEF Reached, D
    <3> QED
      BY <1>8 DEF Inherits
  <2>3. D \subseteq T
    <3> HIDE DEF D, d, T
    <3> QED
      BY <2>1, <2>2, RankInduction
  <2> QED
    BY <2>1, <2>3
<1>10. reach[K] \in X /\ e \in reach[K] /\ Closed(reach[K])
  <2>1. PICK A : A = reach[K]
    OBVIOUS
  <2>2. A \in X /\ (Closed(A) \/ Cardinality(A) >= K + 1) /\ e \in A
    BY <1>9, <2>1
  <2>3. Cardinality(A) <= K /\ Cardinality(A) \in Nat
    BY <1>1, <2>2, FS_Subset, FS_CardinalityType DEF K
  <2> QED
    BY <1>1, <2>1, <2>2, <2>3
<1> QED
  BY <1>10 DEF reach, K, wider

\* What hnsw_add_vertices has built between buckets: who is a neighbor has been
\* linked back, or a nearer one has; no two threads that add_link to one node
\* at the same time lose the nearest of them.
THEOREM NearestIsLinkedBack == Calm => (Spec => []NearestLinksBack)
<1>1. MInv => NearestLinksBack
  <2> SUFFICES ASSUME MInv, Idle, NEW v \in Nodes, NEW l \in Levels,
                      NEW w \in ToSet(Used(neighbors[<<v, l>>]))
               PROVE  \E u \in ToSet(neighbors[<<w, l>>]) \ {None} : ~Closer(w, v, u)
    BY DEF NearestLinksBack
  <2>1. w \in Held(neighbors[<<v, l>>]) /\ w \in Nodes
    BY HeldFound DEF MInv
  <2>2. Backed(w, l, v)
    BY <2>1 DEF MInv, LinkOf, Pending, Idle
  <2> QED
    BY <2>2 DEF Backed, Answered, Held, ToSet, Range
<1> QED
  BY <1>1, LinkInvariance, PTL

LEMMA LinksAreMutual == MInv => LinksMutual
<1> SUFFICES ASSUME MInv, Idle, NEW l \in Ample, NEW v \in Nodes, NEW w \in Nodes,
                    w \in Neighbors(v, l)
             PROVE  v \in Neighbors(w, l)
  BY DEF LinksMutual
<1>1. /\ l \in Levels /\ NbNeighbors[l] >= Cardinality(Nodes)
      /\ \A x \in Nodes : Neighbors(x, l) = Held(neighbors[<<x, l>>])
  BY HeldFound DEF MInv, Ample, Neighbors
<1>2. Backed(w, l, v)
  BY <1>1 DEF MInv, LinkOf, Pending, Idle
<1> QED
  BY <1>1, <1>2 DEF Backed, Answered

\* When all is built every node can be found.
LEMMA BuiltFindsAll ==
  ASSUME MInv, Built
  PROVE  entry_point \in Nodes /\ Found(0) = Nodes
<1>1. Added = Nodes
  <2>1. EInv /\ todo = {} /\ bucket = 0 /\ callNo = Len(Calls)
    BY DEF MInv, LInv, Built
  <2>2. Added \subseteq Nodes
    BY <2>1, AddedNodes DEF EInv
  <2>3. ASSUME NEW v \in Nodes PROVE v \in Added
    <3>1. PICK c \in DOMAIN Calls : v \in Calls[c]
      BY BuildAssumption
    <3>2. c \in 1..(callNo - 1) \/ c = callNo
      BY <2>1, CallsProperties
    <3>3. CASE c \in 1..(callNo - 1)
      BY <3>1, <3>3 DEF Added, Before
    <3>4. CASE c = callNo
      <4>1. Level[v] > 0 \/ Level[v] = 0
        BY <2>1, LevelsBelow
      <4> QED
        BY <2>1, <3>1, <3>4, <4>1 DEF Added, Before, InBucket
    <3> QED
      BY <3>2, <3>3, <3>4
  <2> QED
    BY <2>2, <2>3
<1>2. \A t \in Threads : pc[t] = "idle"
  BY DEF Built, Idle
<1>3. entry_point # None
  BY <1>1, <1>2, GraphAssumption DEF MInv, LInv, EInv, EntryFollows
<1>4. entry_point \in Nodes
  BY <1>1, <1>3 DEF MInv, LInv, EInv, EntryFollows
<1>5. \A v \in Nodes : InRange(v, 0) /\ Visible(v, 0)
  <2>1. \A v \in Nodes : Level[v] \in Nat
    BY GraphAssumption
  <2> QED
    BY <1>1, <1>2, <2>1 DEF InRange, Visible, Unlinked
<1> QED
  BY <1>4, <1>5 DEF Found

LEMMA AllAreReachable == MInv => AllReachable
<1> DEFINE K == Cardinality(Nodes)
           reach == CHOOSE f : f = [n \in 0..K |->
                      IF n = 0 THEN {entry_point}
                      ELSE UNION {{v} \cup Neighbors(v, 0) : v \in f[n - 1]}]
           all == reach[K]
<1> SUFFICES ASSUME MInv, Built, 0 \in Ample
             PROVE  all = Nodes
  BY DEF AllReachable
<1>1. entry_point \in Nodes /\ Found(0) = Nodes
  BY BuiltFindsAll
<1>2. \A v \in Nodes : /\ Neighbors(v, 0) = Held(neighbors[<<v, 0>>])
                       /\ Neighbors(v, 0) \subseteq Nodes
  <2>1. 0 \in Levels
    BY DEF Ample
  <2> QED
    BY <2>1, HeldFound DEF MInv, Neighbors
<1>3. all \subseteq Nodes /\ entry_point \in all /\ \A v \in all : Neighbors(v, 0) \subseteq all
  BY <1>1, <1>2, ReachCloses
<1> HIDE DEF all
<1>4. Apart(all)
  <2>1. \A v, w \in Nodes : w \in Neighbors(v, 0) => v \in Neighbors(w, 0)
    BY LinksAreMutual DEF LinksMutual, Built
  <2> QED
    BY <1>2, <1>3, <2>1 DEF Apart
<1> QED
  BY <1>1, <1>3, <1>4 DEF MInv, Connected

\* Where no list can overflow, threads that link at the same time lose no link,
\* and a search that starts at entry_point can reach every node at level 0.
THEOREM NothingIsLost == Calm => (Spec => []NothingLost)
<1>1. MInv => NothingLost
  BY LinksAreMutual, AllAreReachable DEF NothingLost
<1> QED
  BY <1>1, LinkInvariance, PTL
==============================================================================

---------------------------- MODULE ThreadedIndex ----------------------------
(***************************************************************************)
(* Indexes made of sub-indexes, each run by a WorkerThread: ThreadedIndex   *)
(* with IndexShards (vectors split over the sub-indexes) and IndexReplicas  *)
(* (the same vectors in each), and IndexSplitVectors::search, which makes   *)
(* its workers anew for every call (faiss/impl/ThreadedIndex-inl.h,         *)
(* IndexShards.cpp, IndexReplicas.cpp, MetaIndexes.cpp).                    *)
(*                                                                          *)
(* A sub-index holds a sequence of entries [id, vec]; vectors are numbers,  *)
(* and query q finds small ones or large ones the nearest.  Calls that      *)
(* change the index are made by one caller alone, as its header demands;    *)
(* searches may be concurrent.  Sub-index i has worker i.                   *)
(***************************************************************************)
EXTENDS WorkerThread, Integers, FiniteSets, SequencesExt

CONSTANTS
  Callers,
  Owner,        \* the caller that changes the index
  AddSizes,     \* the n arguments of add
  Queries,      \* the n arguments of search
  K,            \* the k argument of search
  MaxCalls,     \* bound on the number of calls
  MaxUses       \* bound on the uses of a WorkerThread alone

ASSUME ThreadedAssumption ==
  /\ IsFiniteSet(Workers) /\ Workers \subseteq Nat
  /\ Workers # {}
  /\ Owner \in Callers
  /\ Tasks = Callers \X Workers \X {"start", "call"}
  /\ AddSizes \cup Queries \cup {K} \subseteq Nat \ {0}
  /\ {MaxCalls, MaxUses} \subseteq Nat

VARIABLES
  kind,            \* shards, replicas, split, or worker: a WorkerThread alone
  isThreaded_,
  successive_ids,
  indices_,        \* the sub-indexes, in order
  content,         \* what each sub-index holds
  ntotal,
  step,            \* where each caller is in its call
  call,            \* the call each caller is in
  found,           \* what its search has found at each sub-index
  clean,           \* ghost: no call has thrown, no shard with vectors left
  calls            \* calls made so far

confVars == <<kind, isThreaded_, successive_ids>>
dataVars == <<indices_, content, ntotal, clean>>
callVars == <<step, call, found>>
vars == <<workerVars, confVars, dataVars, callVars, calls>>

Size(i) == Len(content[i])
Count == Len(indices_)

\* The entries an IndexShards or IndexReplicas stands for.
Shifted(s) == [p \in DOMAIN s |-> [s[p] EXCEPT !.id = p - 1]]
All == FlattenSeq([p \in 1..Count |-> content[indices_[p]]])
Store ==
  CASE Count = 0 -> <<>>
    [] Count > 0 /\ kind = "shards" ->
         IF successive_ids THEN Shifted(All) ELSE All
    [] Count > 0 /\ kind # "shards" -> content[indices_[1]]

SumUpTo(p) == FoldLeft(LAMBDA n, i : n + Size(i), 0, SubSeq(indices_, 1, p))

NoCall == [op |-> "none", n |-> 0, at |-> 1, last |-> 0, base |-> 0,
           translations |-> <<>>, thrown |-> FALSE]

\* The index has been made and has its sub-indexes, which may have held vectors
\* before they were added; or a WorkerThread is about to be.
Init ==
  /\ kind \in {"shards", "replicas", "split", "worker"}
  /\ isThreaded_ \in IF kind = "worker" THEN {TRUE} ELSE BOOLEAN
  /\ successive_ids \in IF kind = "shards" THEN BOOLEAN ELSE {FALSE}
  /\ IF isThreaded_ /\ kind \in {"shards", "replicas"} THEN WorkersWaiting
                                                      ELSE WorkerInit
  /\ indices_ = IF kind = "worker" THEN <<>> ELSE SetToSeq(Workers)
  /\ \E held \in IF successive_ids THEN {0, 1} ELSE {0} :
       content = [i \in Workers |-> [p \in 1..held |-> [id |-> 0, vec |-> i]]]
  /\ ntotal = Len(Store)
  /\ step = [c \in Callers |-> "idle"]
  /\ call = [c \in Callers |-> NoCall]
  /\ found = [c \in Callers |-> [i \in Workers |-> <<>>]]
  /\ clean = TRUE
  /\ calls = 0

CallerGoto(c, s) == step' = [step EXCEPT ![c] = s]

-----------------------------------------------------------------------------
(* What a task does to its sub-index                                       *)

\* The part of n things that falls to position p: 0-based, up to, not with.
ShardRange(n, p) == [from |-> ((p - 1) * n) \div Count, to |-> (p * n) \div Count]

\* Faulty variant: the quotient is rounded down.
ReplicaRangeDown(n, p) ==
  LET per == n \div Count IN
  [from |-> Min({(p - 1) * per, n}), to |-> Min({p * per, n})]

ReplicaRange(n, p) ==
  LET per == (n + Count - 1) \div Count IN
  [from |-> Min({(p - 1) * per, n}), to |-> Min({p * per, n})]

\* Whether query q is nearer to v than to w.
Nearer(q, v, w) == IF q % 2 = 0 THEN v < w ELSE v > w

Best(q, s) ==
  LET sorted == SortSeq(s, LAMBDA e, f : Nearer(q, e.vec, f.vec)) IN
  SubSeq(sorted, 1, Min({K, Len(sorted)}))

\* The vectors of a call of add are the next in number.
New(c, r, ids) ==
  [p \in 1..(r.to - r.from) |->
     [id |-> ids + p - 1, vec |-> call[c].base + r.from + p - 1]]

\* Sub-indexes number what add gives them from their own size.
AddedTo(c, i, p) ==
  LET r == ShardRange(call[c].n, p) IN
  IF kind = "replicas"
  THEN New(c, [from |-> 0, to |-> call[c].n], Size(i))
  ELSE New(c, r, IF successive_ids THEN Size(i) ELSE call[c].base + r.from)

Translate(c, p, s) ==
  [j \in DOMAIN s |-> [s[j] EXCEPT !.id = @ + call[c].translations[p]]]

\* The queries position p answers, and the answers.
QueriesOf(c, p) ==
  IF kind = "replicas" THEN ReplicaRange(call[c].n, p)
                       ELSE [from |-> 0, to |-> call[c].n]

Answers(c, i, p) ==
  LET r == QueriesOf(c, p) IN
  [q \in r.from..(r.to - 1) |-> Translate(c, p, Best(q, content[i]))]

Position(i) == CHOOSE p \in 1..Count : indices_[p] = i

\* A task that throws leaves its sub-index as it was.
Effect(c, i, outcome) ==
  LET p == Position(i) IN
  CASE outcome = "thrown" \/ call[c].op \notin {"add", "reset", "search"} ->
         UNCHANGED <<content, found>>
    [] outcome = "done" /\ call[c].op = "add" ->
         /\ content' = [content EXCEPT ![i] = @ \o AddedTo(c, i, p)]
         /\ UNCHANGED found
    [] outcome = "done" /\ call[c].op = "reset" ->
         content' = [content EXCEPT ![i] = <<>>] /\ UNCHANGED found
    [] outcome = "done" /\ call[c].op = "search" ->
         found' = [found EXCEPT ![c][i] = Answers(c, i, p)] /\ UNCHANGED content

TaskEffect(t, outcome) ==
  IF kind = "worker" THEN UNCHANGED <<content, found>>
  ELSE IF t[3] = "start"
  THEN outcome = "done" /\ UNCHANGED <<content, found>>   \* the empty lambda
  ELSE Effect(t[1], t[2], outcome)

Perform(w) ==
  \E r \in Outcomes :
    /\ \/ RunTask(w, r) /\ TaskEffect(running[w][1], r)
       \/ Flush(w, r) /\ TaskEffect(Head(queue_[w]), r)
    /\ UNCHANGED <<confVars, indices_, ntotal, clean, step, call, calls>>

Thread(w) ==
  \/ Perform(w)
  \/ Loop(w) /\ UNCHANGED <<confVars, dataVars, callVars, calls>>

-----------------------------------------------------------------------------
(* Calls                                                                   *)

AllIdle == \A c \in Callers : step[c] = "idle"
MayChange(c) == c = Owner /\ AllIdle
OthersSearch == \A c \in Callers : step[c] = "idle" \/ call[c].op = "search"

\* The first step of a call of op at positions from, ..., to of indices_.
Start(c, op, n, first, from, to) ==
  /\ step[c] = "idle"
  /\ calls < MaxCalls
  /\ calls' = calls + 1
  /\ CallerGoto(c, first)
  /\ call' = [call EXCEPT ![c] =
       [op |-> op, n |-> n, at |-> from, last |-> to, base |-> ntotal,
        translations |-> [p \in 1..Count |->
          IF successive_ids THEN SumUpTo(p - 1) ELSE 0],
        thrown |-> FALSE]]
  /\ UNCHANGED found

Run == IF isThreaded_ THEN "submit" ELSE "inline"

\* add, reset and search, through runOnIndex.  With successive_ids, add is
\* refused (it throws at once) unless the index is empty.
BeginRun(c) ==
  /\ kind \in {"shards", "replicas"} /\ Count > 0
  /\ \/ /\ AllIdle
        /\ \/ \E n \in AddSizes :
                /\ ~(successive_ids /\ ntotal # 0)
                /\ Start(c, "add", n, Run, 1, Count)
           \/ Start(c, "reset", 0, Run, 1, Count)
     \/ /\ OthersSearch
        /\ \E n \in Queries : Start(c, "search", n, Run, 1, Count)
  /\ UNCHANGED <<workerVars, confVars, dataVars>>

\* IndexSplitVectors::search: construct a worker and give it its task, in turn.
BeginSplit(c) ==
  /\ kind = "split" /\ MayChange(c)
  /\ \E n \in Queries :
       Start(c, "search", n, IF isThreaded_ THEN "construct" ELSE "inline",
             1, Count)
  /\ UNCHANGED <<workerVars, confVars, dataVars>>

\* addIndex; an index that is in the collection is refused.
BeginAddIndex(c) ==
  /\ kind \in {"shards", "replicas"} /\ MayChange(c)
  /\ \E i \in Workers :
       /\ i \notin Range(indices_)
       /\ indices_' = Append(indices_, i)
       /\ clean' = (clean /\ (kind = "shards" \/ Count = 0
                                \/ content[i] = content[indices_[1]]))
  /\ Start(c, "addIndex", 0, IF isThreaded_ THEN "construct" ELSE "finish",
           Count + 1, Count + 1)
  /\ UNCHANGED <<workerVars, confVars, content, ntotal>>

\* removeIndex of one sub-index, and the destructor.
BeginRemove(c) ==
  /\ kind \in {"shards", "replicas"} /\ MayChange(c)
  /\ \/ \E p \in 1..Count :
          Start(c, "removeIndex", 0, IF isThreaded_ THEN "stop" ELSE "erase", p, p)
     \/ /\ Count > 0
        /\ Start(c, "destroy", 0, IF isThreaded_ THEN "stop" ELSE "erase", 1, Count)
  /\ UNCHANGED <<workerVars, confVars, dataVars>>

Begin(c) == BeginRun(c) \/ BeginSplit(c) \/ BeginAddIndex(c) \/ BeginRemove(c)

Worker(c) == indices_[call[c].at]
Task(c, k) == <<c, Worker(c), k>>

\* The next position, or what follows the last one.
Advance(c, again, after) ==
  IF call[c].at < call[c].last
  THEN /\ call' = [call EXCEPT ![c].at = @ + 1]
       /\ CallerGoto(c, again)
  ELSE /\ call' = [call EXCEPT ![c].at = 1]
       /\ CallerGoto(c, after)

Construct(c) ==
  /\ step[c] = "construct"
  /\ StartThread(Worker(c))
  /\ CallerGoto(c, "first")
  /\ UNCHANGED <<confVars, dataVars, call, found, calls>>

AddFirst(c) ==
  /\ step[c] = "first"
  /\ Add(Worker(c), Task(c, "start"))
  /\ CallerGoto(c, "started")
  /\ UNCHANGED <<confVars, dataVars, call, found, calls>>

Constructed(c) ==
  /\ step[c] = "started"
  /\ futures[Task(c, "start")] # "pending"
  /\ CallerGoto(c, IF kind = "split" THEN "submit" ELSE "finish")
  /\ UNCHANGED <<workerVars, confVars, dataVars, call, found, calls>>

Submit(c) ==
  /\ step[c] = "submit"
  /\ Add(Worker(c), Task(c, "call"))
  /\ Advance(c, IF kind = "split" THEN "construct" ELSE "submit", "gather")
  /\ UNCHANGED <<confVars, dataVars, found, calls>>

\* Without threads, the caller runs the task itself.
Inline(c) ==
  /\ step[c] = "inline"
  /\ \E r \in Outcomes :
       /\ Effect(c, Worker(c), r)
       /\ IF r = "done" THEN Advance(c, "inline", "finish")
          ELSE IF kind = "split" \/ call[c].at = call[c].last
          THEN /\ CallerGoto(c, "finish")
               /\ call' = [call EXCEPT ![c].thrown = TRUE]
          ELSE /\ UNCHANGED step
               /\ call' = [call EXCEPT ![c].thrown = TRUE, ![c].at = @ + 1]
  /\ UNCHANGED <<workerVars, confVars, indices_, ntotal, clean, calls>>

\* Faulty variant: the first exception ends the wait.
LeavesAtThrow(c) == futures[Task(c, "call")] = "thrown"

\* In waitAndHandleFutures all futures are waited for; IndexSplitVectors
\* leaves its loop at the first exception.
Leaves(c) == kind = "split" /\ futures[Task(c, "call")] = "thrown"

Gather(c) ==
  LET after == IF kind = "split" THEN "stop" ELSE "finish"
      thrown == call[c].thrown \/ futures[Task(c, "call")] = "thrown" IN
  /\ step[c] = "gather"
  /\ futures[Task(c, "call")] # "pending"
  /\ LET end == call[c].at = call[c].last \/ Leaves(c) IN
     /\ CallerGoto(c, IF end THEN after ELSE "gather")
     /\ call' = [call EXCEPT ![c].at = IF end THEN 1 ELSE @ + 1,
                             ![c].thrown = thrown]
  /\ UNCHANGED <<workerVars, confVars, dataVars, found, calls>>

\* The end of a worker: stop, then join.
StopWorker(c) ==
  /\ step[c] = "stop"
  /\ Stop(Worker(c))
  /\ CallerGoto(c, "join")
  /\ UNCHANGED <<confVars, dataVars, call, found, calls>>

\* Faulty variant: the thread is not waited for.
JoinNot(c) ==
  /\ step[c] = "join"
  /\ Advance(c, "stop", IF kind = "split" THEN "finish" ELSE "erase")
  /\ UNCHANGED <<workerVars, confVars, dataVars, found, calls>>

Join(c) ==
  /\ step[c] = "join"
  /\ Absent(Worker(c))
  /\ IF call[c].op = "removeIndex"
     THEN CallerGoto(c, "erase") /\ UNCHANGED call
     ELSE Advance(c, "stop", IF kind = "split" THEN "finish" ELSE "erase")
  /\ UNCHANGED <<workerVars, confVars, dataVars, found, calls>>

\* The destroyed index is forgotten; the program may make another one.
Erase(c) ==
  /\ step[c] = "erase"
  /\ indices_' = IF call[c].op = "destroy" THEN <<>> ELSE RemoveAt(indices_, call[c].at)
  /\ ntotal' = IF call[c].op = "destroy" THEN 0 ELSE ntotal
  /\ clean' = (clean /\ (kind = "replicas" \/ successive_ids \/ Store = <<>>))
  /\ CallerGoto(c, "finish")
  /\ UNCHANGED <<workerVars, confVars, content, call, found, calls>>

\* Faulty variant: the size of before the call stays.
SyncedNot == ntotal

\* syncWithSubIndexes: of the shards the sum, of replicas the first's.
Synced == IF kind = "shards" THEN Len(All) ELSE Len(Store)

\* What a call does after its tasks, unless one has thrown; its locals go.
Finish(c) ==
  /\ step[c] = "finish"
  /\ CallerGoto(c, "idle")
  /\ clean' = (clean /\ (call[c].op = "search" \/ ~call[c].thrown))
  /\ ntotal' =
       CASE call[c].thrown \/ call[c].op \in {"search", "destroy"} -> ntotal
         [] ~call[c].thrown /\ call[c].op = "reset" -> 0
         [] OTHER -> IF call[c].op = "addIndex" /\ kind = "replicas" /\ Count > 1
                     THEN ntotal ELSE Synced
  /\ Forget({c} \X Workers \X {"start", "call"})
  /\ call' = [call EXCEPT ![c] = NoCall]
  /\ found' = [found EXCEPT ![c] = [i \in Workers |-> <<>>]]
  /\ UNCHANGED <<confVars, indices_, content, calls>>

Caller(c) ==
  \/ Construct(c) \/ AddFirst(c) \/ Constructed(c)
  \/ Submit(c) \/ Inline(c) \/ Gather(c)
  \/ StopWorker(c) \/ Join(c) \/ Erase(c) \/ Finish(c)

-----------------------------------------------------------------------------
(* The class WorkerThread alone, in any use.                               *)
DirectUse(w) ==
  /\ kind = "worker"
  /\ calls < MaxUses
  /\ calls' = calls + 1
  /\ Use(w)
  /\ UNCHANGED <<confVars, dataVars, callVars>>

Spurious(w) ==
  SpuriousWakeup(w) /\ UNCHANGED <<confVars, dataVars, callVars, calls>>

\* Every call the bound allows has returned.
Finished ==
  calls = (IF kind = "worker" THEN MaxUses ELSE MaxCalls) /\ AllIdle
    /\ UNCHANGED vars

Next ==
  \/ \E c \in Callers : Begin(c) \/ Caller(c)
  \/ \E w \in Workers : Thread(w) \/ DirectUse(w) \/ Spurious(w)
  \/ Finished

Spec == Init /\ [][Next]_vars

\* Threads are scheduled, and so is a caller in a call.
FairSpec ==
  /\ Spec
  /\ \A c \in Callers : WF_vars(Caller(c))
  /\ \A w \in Workers : WF_vars(Thread(w))

-----------------------------------------------------------------------------
(* Properties                                                              *)

\* merge_knn_results: the nearest of the shards' next results, K times.
MergeStep(q, lists, m) ==
  LET live == {s \in DOMAIN lists : m.at[s] <= Len(lists[s])}
      next(s) == lists[s][m.at[s]]
      s == CHOOSE s \in live :
             \A r \in live : ~Nearer(q, next(r).vec, next(s).vec) IN
  IF live = {} THEN m
  ELSE [at |-> [m.at EXCEPT ![s] = @ + 1], result |-> Append(m.result, next(s))]

Merge(q, lists) ==
  FoldLeft(LAMBDA m, j : MergeStep(q, lists, m),
           [at |-> [s \in DOMAIN lists |-> 1], result |-> <<>>],
           [j \in 1..K |-> j]).result

\* The positions whose sub-index answered query q of caller c.
Answering(c, q) == {p \in 1..Count : q \in DOMAIN found[c][indices_[p]]}

Answer(c, q) ==
  IF kind = "shards"
  THEN Merge(q, [p \in 1..Count |-> found[c][indices_[p]][q]])
  ELSE LET p == CHOOSE p \in Answering(c, q) : TRUE IN found[c][indices_[p]][q]

Steps == {"idle", "construct", "first", "started", "submit", "inline", "gather",
          "stop", "join", "erase", "finish"}

TypeOK ==
  /\ WorkerTypeOK
  /\ \A p, r \in 1..Count : indices_[p] = indices_[r] => p = r
  /\ indices_ \in Seq(Workers)
  /\ content \in [Workers -> Seq([id : Nat, vec : Nat])]
  /\ ntotal \in Nat
  /\ step \in [Callers -> Steps]
  /\ \A c \in Callers : step[c] \notin {"idle", "finish"} => call[c].at \in 1..Count
  /\ clean \in BOOLEAN
  /\ calls \in Nat

\* A task refers to its caller's arrays: none is queued or running when the
\* call is over, also when another task has thrown (ThreadedIndex waits for
\* all futures, IndexSplitVectors destroys its workers on the way out).
TasksEndWithCall ==
  \A c \in Callers, i \in Workers :
    step[c] = "idle" /\ kind # "worker" =>
      \A t \in Range(queue_[i] \o running[i]) : t[1] # c

\* Between calls each sub-index of the collection has its thread, and no other
\* thread is left: removeIndex and the destructors have waited for it.
WorkersEndWithIndex ==
  AllIdle /\ kind # "worker" =>
    \A i \in Workers :
      ~Absent(i) <=> isThreaded_ /\ kind # "split" /\ i \in Range(indices_)

\* Threads and collection stay in step through addIndex, removeIndex and the
\* destructors.
WorkersFollowIndex == TypeOK /\ WorkersEndWithIndex

\* A search of shards or replicas gives each query what one index with all the
\* vectors would give: its K nearest, under their labels, although each
\* replica saw a part of the queries and each shard a part of the vectors.
SearchSeesAll ==
  \A c \in Callers :
    /\ step[c] = "finish" /\ call[c].op = "search" /\ ~call[c].thrown
    /\ kind = "shards" \/ (kind = "replicas" /\ clean)
    => \A q \in 0..(call[c].n - 1) :
         LET best == Best(q, Store) IN
         /\ Cardinality(Answering(c, q)) = IF kind = "shards" THEN Count ELSE 1
         /\ Range(Answer(c, q)) \subseteq Range(Store)
         /\ [j \in DOMAIN Answer(c, q) |-> Answer(c, q)[j].vec]
              = [j \in DOMAIN best |-> best[j].vec]

\* Unless a call has thrown or a shard with vectors was taken out, the index
\* knows how many vectors its sub-indexes hold, and labels number them.
TotalsAgree ==
  AllIdle /\ clean /\ kind \in {"shards", "replicas"} =>
    /\ ntotal = Len(Store)
    /\ {e.id : e \in Range(Store)} = 0..(ntotal - 1)

\* Every call returns, whatever throws and whoever is waiting.
CallsReturn == \A c \in Callers : step[c] # "idle" ~> step[c] = "idle"
=============================================================================

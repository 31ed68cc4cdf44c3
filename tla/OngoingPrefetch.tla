--------------------------- MODULE OngoingPrefetch ---------------------------
(***************************************************************************)
(* OnDiskInvertedLists::OngoingPrefetch: every search calls prefetch_lists, *)
(* which starts threads that read the lists and returns at once; the next   *)
(* call drops what is left of the batch, joins the threads and starts new   *)
(* ones (faiss/invlists/OnDiskInvertedLists.cpp).                           *)
(*                                                                          *)
(* list_ids_mutex is held over one step at most, so it is not a variable.   *)
(* The reading of a list, between its lock_1 and unlock_1, is one step      *)
(* here; OnDiskInvertedLists has its interleavings.                         *)
(***************************************************************************)
EXTENDS Integers, SequencesExt

CONSTANTS
  Callers,     \* threads that call prefetch_lists
  NoCaller,    \* owner of mutex when it is free
  Batches,     \* the list_nos arguments, sequences of list numbers
  NThread,     \* prefetch_nthread
  MaxCalls     \* bound on the calls of prefetch_lists

ASSUME PrefetchAssumption ==
  /\ NoCaller \notin Callers
  /\ Batches \subseteq Seq(Int)
  /\ NThread \in Nat
  /\ MaxCalls \in Nat

VARIABLES
  mutex,      \* who is in prefetch_lists or the destructor
  list_ids,   \* the batch
  cur_list,   \* position of the next list to claim, from 0
  worker,     \* state of each thread of the vector threads
  caller,     \* where each caller is
  arg,        \* the list_nos each caller gave
  calls,      \* calls made so far
  destroyed,
  claims,     \* ghost: the lists claimed since the batch was prepared
  claimed     \* ghost: the list each worker reads

batch == <<list_ids, cur_list>>
vars == <<mutex, batch, worker, caller, arg, calls, destroyed, claims, claimed>>

Workers == 1..NThread

Init ==
  /\ mutex = NoCaller
  /\ list_ids = <<>> /\ cur_list = 0
  /\ worker = [w \in Workers |-> "none"]
  /\ caller = [c \in Callers |-> "idle"]
  /\ arg = [c \in Callers |-> <<>>]
  /\ calls = 0 /\ destroyed = FALSE
  /\ claims = <<>>
  /\ claimed = [w \in Workers |-> -1]

-----------------------------------------------------------------------------
(* prefetch_lists                                                          *)

Goto(c, s) == caller' = [caller EXCEPT ![c] = s]

Call(c, list_nos) ==
  /\ caller[c] = "idle" /\ ~destroyed /\ calls < MaxCalls
  /\ \A d \in Callers : caller[d] # "destroying"
  /\ Goto(c, "called")
  /\ arg' = [arg EXCEPT ![c] = list_nos]
  /\ calls' = calls + 1
  /\ UNCHANGED <<mutex, batch, worker, destroyed, claims, claimed>>

\* Faulty variant: the rest of the batch stays.
DropNothing(c) ==
  /\ caller[c] = "called"
  /\ mutex = NoCaller
  /\ mutex' = c
  /\ Goto(c, "joining")
  /\ UNCHANGED <<batch, worker, arg, calls, destroyed, claims, claimed>>

\* Take mutex; drop what is left of the batch.
Drop(c) ==
  /\ caller[c] = "called"
  /\ mutex = NoCaller
  /\ mutex' = c
  /\ list_ids' = <<>>
  /\ Goto(c, "joining")
  /\ UNCHANGED <<cur_list, worker, arg, calls, destroyed, claims, claimed>>

\* Faulty variant: the threads are not joined.
JoinableAlways == TRUE

Joinable == \A w \in Workers : worker[w] \in {"none", "exited"}

Joined ==
  [w \in Workers |-> IF worker[w] = "exited" THEN "none" ELSE worker[w]]

\* nt, the number of threads to start.
ThreadsFor(list_nos) ==
  IF Len(list_nos) < NThread THEN Len(list_nos) ELSE NThread

\* What is left of s when some of its entries are passed over.
Sublists(s) ==
  UNION {{[i \in 1..n |-> s[f[i]]] :
            f \in {g \in [1..n -> 1..Len(s)] :
                     \A i, j \in 1..n : i < j => g[i] < g[j]}} :
         n \in 0..Len(s)}

\* After the join, prepare the tasks: the lists that exist and are not empty.
\* list_size is read without lock_1, so a list that another thread is filling
\* may or may not be there.
Prepare(c) ==
  /\ caller[c] = "joining"
  /\ Joinable
  /\ worker' = Joined
  /\ cur_list' = 0
  /\ list_ids' \in IF ThreadsFor(arg[c]) = 0 THEN {list_ids}
                   ELSE {s \in Sublists(arg[c]) : \A i \in DOMAIN s : s[i] >= 0}
  /\ claims' = <<>>
  /\ Goto(c, "starting")
  /\ UNCHANGED <<mutex, arg, calls, destroyed, claimed>>

Started == {w \in Workers : worker[w] # "none"}

\* pthread_create, one worker after the other; they run at once.
StartWorker(c) ==
  /\ caller[c] = "starting"
  /\ \E w \in Workers \ Started :
       /\ w <= ThreadsFor(arg[c])
       /\ \A v \in Workers \ Started : w <= v
       /\ worker' = [worker EXCEPT ![w] = "running"]
  /\ UNCHANGED <<mutex, batch, caller, arg, calls, destroyed, claims, claimed>>

\* Faulty variant: mutex is not given up.
ReturnLocked(c) ==
  /\ caller[c] = "starting"
  /\ \A w \in 1..ThreadsFor(arg[c]) : w \in Started
  /\ Goto(c, "idle")
  /\ UNCHANGED <<mutex, batch, worker, arg, calls, destroyed, claims, claimed>>

Return(c) ==
  /\ caller[c] = "starting"
  /\ \A w \in 1..ThreadsFor(arg[c]) : w \in Started
  /\ mutex' = NoCaller
  /\ Goto(c, "idle")
  /\ UNCHANGED <<batch, worker, arg, calls, destroyed, claims, claimed>>

-----------------------------------------------------------------------------
(* prefetch_list, the body of a worker: claim a list, read it, until there  *)
(* is none.                                                                 *)

\* Faulty variant: the last list is left out.
GetAllButLast(w) ==
  /\ worker[w] = "running"
  /\ IF cur_list + 1 < Len(list_ids)
     THEN /\ cur_list' = cur_list + 1
          /\ worker' = [worker EXCEPT ![w] = "reading"]
          /\ claimed' = [claimed EXCEPT ![w] = list_ids[cur_list + 1]]
          /\ claims' = Append(claims, list_ids[cur_list + 1])
     ELSE /\ worker' = [worker EXCEPT ![w] = "exited"]
          /\ UNCHANGED <<cur_list, claimed, claims>>
  /\ UNCHANGED <<mutex, list_ids, caller, arg, calls, destroyed>>

GetNextList(w) ==
  /\ worker[w] = "running"
  /\ IF cur_list < Len(list_ids)
     THEN /\ cur_list' = cur_list + 1
          /\ worker' = [worker EXCEPT ![w] = "reading"]
          /\ claimed' = [claimed EXCEPT ![w] = list_ids[cur_list + 1]]
          /\ claims' = Append(claims, list_ids[cur_list + 1])
     ELSE /\ worker' = [worker EXCEPT ![w] = "exited"]
          /\ UNCHANGED <<cur_list, claimed, claims>>
  /\ UNCHANGED <<mutex, list_ids, caller, arg, calls, destroyed>>

ReadList(w) ==
  /\ worker[w] = "reading"
  /\ worker' = [worker EXCEPT ![w] = "running"]
  /\ UNCHANGED <<mutex, batch, caller, arg, calls, destroyed, claims, claimed>>

-----------------------------------------------------------------------------
(* The destructor, when no caller is left: it joins without dropping the    *)
(* batch.                                                                   *)

Destroy(c) ==
  /\ \A d \in Callers : caller[d] = "idle"
  /\ ~destroyed
  /\ mutex' = c
  /\ Goto(c, "destroying")
  /\ UNCHANGED <<batch, worker, arg, calls, destroyed, claims, claimed>>

Destroyed(c) ==
  /\ caller[c] = "destroying"
  /\ Joinable
  /\ mutex' = NoCaller
  /\ destroyed' = TRUE
  /\ worker' = Joined
  /\ Goto(c, "idle")
  /\ UNCHANGED <<batch, arg, calls, claims, claimed>>

CallerStep(c) ==
  Drop(c) \/ Prepare(c) \/ StartWorker(c) \/ Return(c) \/ Destroyed(c)

WorkerStep(w) == GetNextList(w) \/ ReadList(w)

Finished == destroyed /\ UNCHANGED vars

Next ==
  \/ \E c \in Callers :
       \/ \E b \in Batches : Call(c, b)
       \/ CallerStep(c)
       \/ Destroy(c)
  \/ \E w \in Workers : WorkerStep(w)
  \/ Finished

Spec == Init /\ [][Next]_vars

\* Threads are scheduled, and a free pthread mutex goes to a caller that waits
\* for it; which one, a caller cannot count on.
FairSpec ==
  /\ Spec
  /\ \A c \in Callers : WF_vars(CallerStep(c))
  /\ \A w \in Workers : WF_vars(WorkerStep(w))

-----------------------------------------------------------------------------
(* Properties                                                              *)

\* A new call has emptied the batch and waits for the workers.
Dropped == \E c \in Callers : caller[c] = "joining"

TypeOK ==
  /\ mutex \in Callers \cup {NoCaller}
  /\ list_ids \in Seq(Int) /\ claims \in Seq(Int)
  /\ cur_list \in Nat
  /\ Dropped \/ cur_list <= Len(list_ids)
  /\ worker \in [Workers -> {"none", "running", "reading", "exited"}]
  /\ caller \in [Callers -> {"idle", "called", "joining", "starting",
                             "destroying"}]
  /\ arg \in [Callers -> Batches \cup {<<>>}]
  /\ calls \in 0..MaxCalls /\ destroyed \in BOOLEAN
  /\ claimed \in [Workers -> Int]

\* Nobody is told to read a list twice or to skip one, though all workers and
\* two generations of them share the position: what was claimed since the
\* batch was prepared is its first cur_list lists, in order, while the batch
\* is not dropped.
ClaimsFollowBatch ==
  Dropped \/ claims = SubSeq(list_ids, 1, cur_list)

\* A worker reads a list of the batch its own generation was started for:
\* when prefetch_lists prepares a new batch, no earlier worker still reads.
ReadersOfThisBatch ==
  \A w \in Workers :
    worker[w] = "reading" => claimed[w] \in ToSet(claims)

\* When all workers have exited by themselves the batch was read completely.
BatchRead ==
  /\ \A c \in Callers : caller[c] = "idle"
  /\ \A w \in Workers : worker[w] \in {"none", "exited"}
  /\ \E w \in Workers : worker[w] = "exited"
  => claims = list_ids

\* No worker outlives the object it reads.
NoWorkerAfterDestroy == destroyed => \A w \in Workers : worker[w] = "none"

\* The generations of workers stay apart: each claims from its own batch, one
\* list after the other, and none is left when the object goes.
GenerationsApart ==
  TypeOK /\ ClaimsFollowBatch /\ ReadersOfThisBatch /\ NoWorkerAfterDestroy

\* Once a new call has dropped the batch, workers finish the list they read
\* and claim no other: the join waits for one list per worker at most.
DroppedBatchStops ==
  [][Dropped => claims' \in {claims, <<>>}]_vars

\* Every call of prefetch_lists returns, and the destructor too: the joins and
\* the mutex between callers never wait for ever.
CallsReturn ==
  \A c \in Callers :
    /\ caller[c] = "called" ~> caller[c] = "idle"
    /\ caller[c] = "destroying" ~> destroyed
=============================================================================

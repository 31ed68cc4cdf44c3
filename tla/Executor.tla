------------------------------- MODULE Executor -------------------------------
(***************************************************************************)
(* What a WorkerThread promises (faiss/utils/WorkerThread.h): a server that *)
(* runs what it is given one by one, in the order given; once it is closed  *)
(* it refuses what comes, and still runs what it had accepted.              *)
(***************************************************************************)
EXTENDS Sequences

CONSTANTS Workers, Tasks

VARIABLES
  open,      \* whether a worker accepts tasks
  jobs,      \* what a worker has accepted and not finished
  futures    \* what is known of each task

Outcomes == {"done", "thrown"}

Init ==
  /\ open \in [Workers -> BOOLEAN]
  /\ jobs = [w \in Workers |-> <<>>]
  /\ futures = [t \in Tasks |-> "none"]

\* A closed worker whose jobs are done may be replaced by a new one.
Open(w) ==
  /\ ~open[w] /\ jobs[w] = <<>>
  /\ open' = [open EXCEPT ![w] = TRUE]
  /\ UNCHANGED <<jobs, futures>>

Accept(w, t) ==
  /\ open[w] /\ futures[t] # "pending"
  /\ jobs' = [jobs EXCEPT ![w] = Append(@, t)]
  /\ futures' = [futures EXCEPT ![t] = "pending"]
  /\ UNCHANGED open

Refuse(w, t) ==
  /\ ~open[w] /\ futures[t] # "pending"
  /\ futures' = [futures EXCEPT ![t] = "not run"]
  /\ UNCHANGED <<open, jobs>>

Execute(w) ==
  /\ jobs[w] # <<>>
  /\ jobs' = [jobs EXCEPT ![w] = Tail(@)]
  /\ \E r \in Outcomes : futures' = [futures EXCEPT ![Head(jobs[w])] = r]
  /\ UNCHANGED open

\* Whoever asked for tasks ts no longer holds their futures.
Forget(ts) ==
  /\ \A t \in ts : futures[t] # "pending"
  /\ futures' = [t \in Tasks |-> IF t \in ts THEN "none" ELSE futures[t]]
  /\ UNCHANGED <<open, jobs>>

Close(w) ==
  /\ open' = [open EXCEPT ![w] = FALSE]
  /\ UNCHANGED <<jobs, futures>>

Next ==
  \/ \E w \in Workers :
       \/ Open(w) \/ Execute(w) \/ Close(w)
       \/ \E t \in Tasks : Accept(w, t) \/ Refuse(w, t)
  \/ \E ts \in SUBSET Tasks : Forget(ts)

vars == <<open, jobs, futures>>

Spec == Init /\ [][Next]_vars

\* Every accepted task is run in the end, closed or not.
FairSpec == Spec /\ \A w \in Workers : WF_vars(Execute(w))
=============================================================================

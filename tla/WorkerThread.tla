----------------------------- MODULE WorkerThread -----------------------------
(***************************************************************************)
(* WorkerThread: a thread with a queue of tasks, a stop flag and a          *)
(* condition variable, which answers each task through a future             *)
(* (faiss/utils/WorkerThread.cpp).                                          *)
(*                                                                          *)
(* Every stretch of code under mutex_ is one action.  A task that a thread  *)
(* runs takes its time: it is in running from one action to a later one.    *)
(***************************************************************************)
EXTENDS Naturals, Sequences

CONSTANTS Workers, Tasks

VARIABLES
  wantStop_,   \* the stop flag of each worker
  queue_,      \* its tasks; what is flushed leaves it, as if popped
  thread,      \* where its thread is
  running,     \* <<t>> while it runs task t out of the loop, else <<>>
  futures      \* what is known of each task

workerVars == <<wantStop_, queue_, thread, running, futures>>

Outcomes == {"done", "thrown"}

\* An object that is not there: never constructed, or its thread has ended.
Absent(w) == thread[w] \in {"none", "exited"}

WorkerInit ==
  /\ wantStop_ = [w \in Workers |-> FALSE]
  /\ queue_ = [w \in Workers |-> <<>>]
  /\ thread = [w \in Workers |-> "none"]
  /\ running = [w \in Workers |-> <<>>]
  /\ futures = [t \in Tasks |-> "none"]

\* Every worker has been constructed: its first task is done.
WorkersWaiting ==
  /\ wantStop_ = [w \in Workers |-> FALSE]
  /\ queue_ = [w \in Workers |-> <<>>]
  /\ thread = [w \in Workers |-> "wait"]
  /\ running = [w \in Workers |-> <<>>]
  /\ futures = [t \in Tasks |-> "none"]

\* The constructor up to startThread; it goes on with add([]() {}).get().
StartThread(w) ==
  /\ Absent(w)
  /\ wantStop_' = [wantStop_ EXCEPT ![w] = FALSE]
  /\ thread' = [thread EXCEPT ![w] = "loop"]
  /\ UNCHANGED <<queue_, running, futures>>

\* Faulty variant: a flag, no signal.
NotifySilent(w) == UNCHANGED thread

\* monitor_.notify_one(): only the thread itself ever waits.
Notify(w) ==
  thread' = [thread EXCEPT ![w] = IF @ = "wait" THEN "loop" ELSE @]

Stop(w) ==
  /\ ~Absent(w)
  /\ wantStop_' = [wantStop_ EXCEPT ![w] = TRUE]
  /\ Notify(w)
  /\ UNCHANGED <<queue_, running, futures>>

\* Faulty variant: tasks are accepted after stop.
AddAlways(w, t) ==
  /\ queue_' = [queue_ EXCEPT ![w] = Append(@, t)]
  /\ futures' = [futures EXCEPT ![t] = "pending"]
  /\ Notify(w)
  /\ UNCHANGED <<wantStop_, running>>

\* The queue takes t, or its future is answered at once: not executed.
Add(w, t) ==
  \/ /\ ~wantStop_[w]
     /\ queue_' = [queue_ EXCEPT ![w] = Append(@, t)]
     /\ futures' = [futures EXCEPT ![t] = "pending"]
     /\ Notify(w)
     /\ UNCHANGED <<wantStop_, running>>
  \/ /\ wantStop_[w]
     /\ futures' = [futures EXCEPT ![t] = "not run"]
     /\ UNCHANGED <<wantStop_, queue_, thread, running>>

-----------------------------------------------------------------------------
(* The thread                                                              *)

Goto(w, s) == thread' = [thread EXCEPT ![w] = s]

Wait(w) ==
  /\ thread[w] = "loop"
  /\ ~wantStop_[w] /\ queue_[w] = <<>>
  /\ Goto(w, "wait")
  /\ UNCHANGED <<wantStop_, queue_, running, futures>>

SpuriousWakeup(w) ==
  /\ thread[w] = "wait"
  /\ Goto(w, "loop")
  /\ UNCHANGED <<wantStop_, queue_, running, futures>>

TakeTask(w) ==
  /\ thread[w] = "loop"
  /\ ~wantStop_[w] /\ queue_[w] # <<>>
  /\ running' = [running EXCEPT ![w] = <<Head(queue_[w])>>]
  /\ queue_' = [queue_ EXCEPT ![w] = Tail(@)]
  /\ Goto(w, "run")
  /\ UNCHANGED <<wantStop_, futures>>

\* runCallback at the end of an iteration: a value or the exception.
RunTask(w, outcome) ==
  /\ thread[w] = "run"
  /\ futures' = [futures EXCEPT ![running[w][1]] = outcome]
  /\ running' = [running EXCEPT ![w] = <<>>]
  /\ Goto(w, "loop")
  /\ UNCHANGED <<wantStop_, queue_>>

\* Faulty variant: the loop's end is the thread's.
LeaveLoopUnflushed(w) ==
  /\ thread[w] = "loop"
  /\ wantStop_[w]
  /\ queue_' = [queue_ EXCEPT ![w] = <<>>]
  /\ Goto(w, "flush")
  /\ UNCHANGED <<wantStop_, running, futures>>

LeaveLoop(w) ==
  /\ thread[w] = "loop"
  /\ wantStop_[w]
  /\ Goto(w, "flush")
  /\ UNCHANGED <<wantStop_, queue_, running, futures>>

\* The loop of threadMain, which takes no lock.
Flush(w, outcome) ==
  /\ thread[w] = "flush" /\ queue_[w] # <<>>
  /\ futures' = [futures EXCEPT ![Head(queue_[w])] = outcome]
  /\ queue_' = [queue_ EXCEPT ![w] = Tail(@)]
  /\ UNCHANGED <<wantStop_, thread, running>>

Exit(w) ==
  /\ thread[w] = "flush" /\ queue_[w] = <<>>
  /\ Goto(w, "exited")
  /\ UNCHANGED <<wantStop_, queue_, running, futures>>

\* What the thread does besides running tasks.
Loop(w) == Wait(w) \/ TakeTask(w) \/ LeaveLoop(w) \/ Exit(w)

\* The futures of tasks ts go out of scope.
Forget(ts) ==
  /\ futures' = [t \in Tasks |-> IF t \in ts THEN "none" ELSE futures[t]]
  /\ UNCHANGED <<wantStop_, queue_, thread, running>>

\* Any use of the class: a future is asked for again only once answered.
Use(w) ==
  \/ StartThread(w)
  \/ Stop(w)
  \/ \E t \in Tasks : futures[t] # "pending" /\ thread[w] # "none" /\ Add(w, t)

WorkerNext ==
  \/ \E w \in Workers :
       \/ Use(w) \/ Loop(w) \/ SpuriousWakeup(w)
       \/ \E r \in Outcomes : RunTask(w, r) \/ Flush(w, r)
  \/ \E ts \in SUBSET {t \in Tasks : futures[t] # "pending"} : Forget(ts)

WorkerSpec == WorkerInit /\ [][WorkerNext]_workerVars

-----------------------------------------------------------------------------
(* Properties                                                              *)

WorkerTypeOK ==
  /\ wantStop_ \in [Workers -> BOOLEAN]
  /\ queue_ \in [Workers -> Seq(Tasks)]
  /\ thread \in [Workers -> {"none", "loop", "wait", "run", "flush", "exited"}]
  /\ running \in [Workers -> {<<>>} \cup {<<t>> : t \in Tasks}]
  /\ futures \in [Tasks -> {"none", "pending", "not run"} \cup Outcomes]

\* threadMain walks the queue without the mutex: nobody else may change it
\* then, which the test of wantStop_ in add is for.
FlushUndisturbed ==
  [][\A w \in Workers :
       thread[w] = "flush" => Len(queue_'[w]) <= Len(queue_[w])]_workerVars

E == INSTANCE Executor WITH
       open <- [w \in Workers |-> ~Absent(w) /\ ~wantStop_[w]],
       jobs <- [w \in Workers |-> running[w] \o queue_[w]]

\* A WorkerThread keeps its header's promise: each task added before stop is
\* run once, in order, and its future answered, also when stop comes first;
\* later ones are refused.
ExecutorImplemented == E!FairSpec
=============================================================================

------------------------- MODULE ThreadedIndexProofs -------------------------
(***************************************************************************)
(* Part 1, for any sets of workers and tasks: a WorkerThread keeps its      *)
(* promise (WorkerSpec implements the safety part of Executor).             *)
(*                                                                          *)
(* Part 2: indexes with a thread for each sub-index, for any finite set of  *)
(* sub-indexes and any callers.  No task outlives the call it belongs to,   *)
(* and the threads follow the collection through addIndex, removeIndex and  *)
(* the destructors.  Its proof is in layers: where the callers can be       *)
(* (Control), the worker threads (IInv of part 1), whose tasks they hold    *)
(* (TasksFiled, PendingWanted) and which of them are there (ThreadsFollow), *)
(* and the vectors (DataTyped).                                             *)
(*                                                                          *)
(* Part 3: ntotal is the number of vectors and the labels number them,      *)
(* through add, reset, addIndex, removeIndex and the destructors, with or   *)
(* without threads.  Two invariants more: what the callers have been        *)
(* answered (AnswersKnown), and what the sub-indexes hold after each of     *)
(* the tasks of a call (NumbersKnown).                                      *)
(***************************************************************************)
EXTENDS ThreadedIndex, ProofLemmas

-----------------------------------------------------------------------------
(* Part 1: WorkerThread                                                    *)

\* How the stop flag, the queue and what is running follow the thread.
StateFollowsThread ==
  \A w \in Workers :
    /\ thread[w] = "none" => ~wantStop_[w]
    /\ thread[w] \in {"flush", "exited"} => wantStop_[w]
    /\ Absent(w) => queue_[w] = <<>>
    /\ thread[w] = "run" <=> running[w] # <<>>

IInv == WorkerTypeOK /\ StateFollowsThread

\* The states of Executor as WorkerThread implements them.
Accepting == [w \in Workers |-> ~Absent(w) /\ ~wantStop_[w]]
Jobs == [w \in Workers |-> running[w] \o queue_[w]]

-----------------------------------------------------------------------------
(* Lemmas about sequences                                                  *)

\* The first of a queue and the rest are the queue: TakeTask keeps the jobs.
LEMMA HeadThenTail ==
  ASSUME NEW S, NEW s \in Seq(S), s # <<>>
  PROVE  <<Head(s)>> \o Tail(s) = s
<1>1. /\ Head(s) = s[1] /\ Head(s) \in S
      /\ Tail(s) \in Seq(S) /\ Len(Tail(s)) = Len(s) - 1
      /\ \A i \in 1..Len(Tail(s)) : Tail(s)[i] = s[i + 1]
  BY HeadTailProperties
<1>2. <<Head(s)>> \in Seq(S) /\ Len(<<Head(s)>>) = 1
  BY <1>1
<1>3. /\ <<Head(s)>> \o Tail(s) \in Seq(S)
      /\ Len(<<Head(s)>> \o Tail(s)) = Len(s)
      /\ \A i \in 1..Len(s) :
           (<<Head(s)>> \o Tail(s))[i]
             = IF i <= 1 THEN <<Head(s)>>[i] ELSE Tail(s)[i - 1]
  BY <1>1, <1>2, ConcatProperties, LenProperties
<1>4. \A i \in 1..Len(s) : (<<Head(s)>> \o Tail(s))[i] = s[i]
  BY <1>1, <1>3, LenProperties
<1>5. QED
  BY <1>3, <1>4, SeqEqual

\* What runs is the first of the jobs: RunTask finishes that one.
LEMMA RunningFirst ==
  ASSUME NEW S, NEW e \in S, NEW s \in Seq(S)
  PROVE  /\ <<e>> \o s # <<>>
         /\ Head(<<e>> \o s) = e
         /\ Tail(<<e>> \o s) = s
<1>1. <<e>> \in Seq(S) /\ Len(<<e>>) = 1 /\ <<e>>[1] = e
  OBVIOUS
<1>2. /\ <<e>> \o s \in Seq(S) /\ Len(<<e>> \o s) = 1 + Len(s)
      /\ \A i \in 1..(1 + Len(s)) :
           (<<e>> \o s)[i] = IF i <= 1 THEN <<e>>[i] ELSE s[i - 1]
  BY <1>1, ConcatProperties
<1>3. Len(s) \in Nat
  BY LenProperties
<1>4. <<e>> \o s # <<>> /\ Head(<<e>> \o s) = e
  BY <1>1, <1>2, <1>3, EmptySeq
<1>5. /\ Tail(<<e>> \o s) \in Seq(S) /\ Len(Tail(<<e>> \o s)) = Len(s)
      /\ \A i \in 1..Len(s) : Tail(<<e>> \o s)[i] = (<<e>> \o s)[i + 1]
  BY <1>2, <1>3, <1>4, HeadTailProperties
<1>6. \A i \in 1..Len(s) : Tail(<<e>> \o s)[i] = s[i]
  BY <1>2, <1>3, <1>5
<1>7. QED
  BY <1>4, <1>5, <1>6, SeqEqual

\* A task put behind the queue is behind what runs, too: Add.
LEMMA BehindBoth ==
  ASSUME NEW S, NEW r \in Seq(S), NEW s \in Seq(S), NEW e \in S
  PROVE  r \o Append(s, e) = Append(r \o s, e)
<1>1. <<e>> \in Seq(S) /\ r \o s \in Seq(S)
  BY ConcatProperties
<1>2. Append(s, e) = s \o <<e>> /\ Append(r \o s, e) = (r \o s) \o <<e>>
  BY <1>1
<1>3. QED
  BY <1>1, <1>2, ConcatAssociative

-----------------------------------------------------------------------------
(* The invariant                                                           *)

LEMMA InitEstablishes == WorkerInit => IInv
  BY EmptySeq
     DEF WorkerInit, IInv, WorkerTypeOK, StateFollowsThread, Absent

\* A task is put into the queue of a worker that is there, or refused.
LEMMA AddPreserves ==
  ASSUME IInv, NEW w \in Workers, NEW t \in Tasks, thread[w] # "none", Add(w, t)
  PROVE  IInv'
<1>1. CASE ~wantStop_[w]
  <2>1. /\ queue_' = [queue_ EXCEPT ![w] = Append(@, t)]
        /\ futures' = [futures EXCEPT ![t] = "pending"]
        /\ thread' = [thread EXCEPT ![w] = IF @ = "wait" THEN "loop" ELSE @]
        /\ UNCHANGED <<wantStop_, running>>
    BY <1>1 DEF Add, Notify
  <2>2. queue_' \in [Workers -> Seq(Tasks)]
    <3>1. queue_ \in [Workers -> Seq(Tasks)]
      BY DEF IInv, WorkerTypeOK
    <3>2. Append(queue_[w], t) \in Seq(Tasks)
      BY <3>1
    <3>3. QED
      BY <2>1, <3>1, <3>2
  <2>3. WorkerTypeOK'
    BY <2>1, <2>2 DEF IInv, WorkerTypeOK
  <2>4. ~Absent(w) /\ thread[w] # "flush"
    BY <1>1 DEF IInv, StateFollowsThread, Absent
  <2>5. StateFollowsThread'
    BY <2>1, <2>4 DEF IInv, WorkerTypeOK, StateFollowsThread, Absent
  <2>6. QED
    BY <2>3, <2>5 DEF IInv
<1>2. CASE wantStop_[w]
  BY <1>2 DEF IInv, WorkerTypeOK, StateFollowsThread, Add, Absent
<1>3. QED
  BY <1>1, <1>2

\* Futures go out of scope.
LEMMA ForgetPreserves ==
  ASSUME IInv, NEW ts \in SUBSET Tasks, Forget(ts)
  PROVE  IInv'
BY DEF IInv, WorkerTypeOK, StateFollowsThread, Forget, Absent

\* What every use of the class does to the invariant.
LEMMA UsePreserves ==
  ASSUME IInv, NEW w \in Workers, Use(w)
  PROVE  IInv'
<1>1. CASE StartThread(w)
  BY <1>1 DEF IInv, WorkerTypeOK, StateFollowsThread, StartThread, Absent
<1>2. CASE Stop(w)
  BY <1>2 DEF IInv, WorkerTypeOK, StateFollowsThread, Stop, Notify, Absent
<1>3. ASSUME NEW t \in Tasks, thread[w] # "none", Add(w, t)
      PROVE  IInv'
  BY <1>3, AddPreserves
<1>4. QED
  BY <1>1, <1>2, <1>3 DEF Use

\* What the thread itself does to it.
LEMMA ThreadPreserves ==
  ASSUME IInv, NEW w \in Workers
  PROVE  /\ Loop(w) => IInv'
         /\ SpuriousWakeup(w) => IInv'
         /\ \A r \in Outcomes : RunTask(w, r) \/ Flush(w, r) => IInv'
<1>1. ASSUME queue_[w] # <<>>
      PROVE  /\ Head(queue_[w]) \in Tasks
             /\ Tail(queue_[w]) \in Seq(Tasks)
  BY <1>1, HeadTailProperties DEF IInv, WorkerTypeOK
<1>2. ASSUME Wait(w)
      PROVE  IInv'
  BY <1>2 DEF IInv, WorkerTypeOK, StateFollowsThread, Wait, Goto, Absent
<1>3. ASSUME TakeTask(w)
      PROVE  IInv'
  BY <1>1, <1>3
     DEF IInv, WorkerTypeOK, StateFollowsThread, TakeTask, Goto, Absent
<1>4. ASSUME LeaveLoop(w)
      PROVE  IInv'
  BY <1>4 DEF IInv, WorkerTypeOK, StateFollowsThread, LeaveLoop, Goto, Absent
<1>5. ASSUME Exit(w)
      PROVE  IInv'
  BY <1>5 DEF IInv, WorkerTypeOK, StateFollowsThread, Exit, Goto, Absent
<1>6. ASSUME SpuriousWakeup(w)
      PROVE  IInv'
  BY <1>6
     DEF IInv, WorkerTypeOK, StateFollowsThread, SpuriousWakeup, Goto, Absent
<1>7. ASSUME NEW r \in Outcomes, RunTask(w, r)
      PROVE  IInv'
  BY <1>7
     DEF IInv, WorkerTypeOK, StateFollowsThread, RunTask, Goto, Absent, Outcomes
<1>8. ASSUME NEW r \in Outcomes, Flush(w, r)
      PROVE  IInv'
  BY <1>1, <1>8
     DEF IInv, WorkerTypeOK, StateFollowsThread, Flush, Absent, Outcomes
<1>9. QED
  BY <1>2, <1>3, <1>4, <1>5, <1>6, <1>7, <1>8 DEF Loop

LEMMA NextPreserves == IInv /\ [WorkerNext]_workerVars => IInv'
<1> SUFFICES ASSUME IInv, [WorkerNext]_workerVars
             PROVE  IInv'
  OBVIOUS
<1>1. ASSUME NEW w \in Workers, Use(w)
      PROVE  IInv'
  BY <1>1, UsePreserves
<1>2. ASSUME NEW w \in Workers, Loop(w) \/ SpuriousWakeup(w)
      PROVE  IInv'
  BY <1>2, ThreadPreserves
<1>3. ASSUME NEW w \in Workers, NEW r \in Outcomes, RunTask(w, r) \/ Flush(w, r)
      PROVE  IInv'
  BY <1>3, ThreadPreserves
<1>4. ASSUME NEW ts \in SUBSET Tasks, Forget(ts)
      PROVE  IInv'
  BY <1>4, ForgetPreserves
<1>5. CASE UNCHANGED workerVars
  BY <1>5 DEF IInv, WorkerTypeOK, StateFollowsThread, Absent, workerVars
<1>6. QED
  BY <1>1, <1>2, <1>3, <1>4, <1>5 DEF WorkerNext

\* Each worker's variables are well typed and follow its thread.
THEOREM Invariance == WorkerSpec => []IInv
<1>1. QED
  BY InitEstablishes, NextPreserves, PTL DEF WorkerSpec

\* Type correctness of the class.
THEOREM WorkersTypeCorrect == WorkerSpec => []WorkerTypeOK
<1>1. IInv => WorkerTypeOK
  BY DEF IInv
<1>2. QED
  BY <1>1, Invariance, PTL

-----------------------------------------------------------------------------
(* The refinement                                                          *)

\* The states the mapping gives are states of Executor, and a worker that has
\* to go on flushing accepts nothing.
LEMMA MappedStates ==
  ASSUME IInv
  PROVE  /\ \A w \in Workers :
              /\ running[w] \in Seq(Tasks) /\ queue_[w] \in Seq(Tasks)
              /\ Jobs[w] = running[w] \o queue_[w]
              /\ running[w] = <<>> => Jobs[w] = queue_[w]
         /\ \A w \in Workers : wantStop_[w] => ~Accepting[w]
         /\ \A w \in Workers :
              Accepting[w] = (~Absent(w) /\ ~wantStop_[w])
<1>1. ASSUME NEW w \in Workers
      PROVE  running[w] \in Seq(Tasks) /\ queue_[w] \in Seq(Tasks)
  <2>1. queue_[w] \in Seq(Tasks) /\ running[w] \in {<<>>} \cup {<<t>> : t \in Tasks}
    BY DEF IInv, WorkerTypeOK
  <2>2. CASE running[w] = <<>>
    BY <2>1, <2>2, EmptySeq
  <2>3. CASE running[w] # <<>>
    <3>1. PICK t \in Tasks : running[w] = <<t>>
      BY <2>1, <2>3, Zenon
    <3>2. QED
      BY <2>1, <3>1
  <2>4. QED
    BY <2>2, <2>3
<1>2. QED
  BY <1>1, ConcatEmptySeq DEF Jobs, Accepting

\* A new worker opens, stop closes.
LEMMA StartSimulates ==
  ASSUME IInv, NEW w \in Workers, StartThread(w)
  PROVE  E!Open(w)
<1>1. /\ ~Accepting[w] /\ Jobs[w] = <<>>
      /\ Jobs' = Jobs /\ UNCHANGED futures
  BY MappedStates
     DEF IInv, StateFollowsThread, StartThread, Absent, Jobs, Accepting
<1>2. Accepting' = [Accepting EXCEPT ![w] = TRUE]
  BY DEF IInv, WorkerTypeOK, StartThread, Absent, Accepting
<1>3. QED
  BY <1>1, <1>2 DEF E!Open, Accepting, Jobs

LEMMA StopSimulates ==
  ASSUME IInv, NEW w \in Workers, Stop(w)
  PROVE  E!Close(w)
<1>1. Jobs' = Jobs /\ UNCHANGED futures
  BY DEF Stop, Jobs
<1>2. Accepting' = [Accepting EXCEPT ![w] = FALSE]
  BY DEF IInv, WorkerTypeOK, Stop, Notify, Absent, Accepting
<1>3. QED
  BY <1>1, <1>2 DEF E!Close, Accepting, Jobs

\* add asks the executor, which accepts the task or refuses it.
LEMMA AddSimulates ==
  ASSUME IInv, NEW w \in Workers, NEW t \in Tasks,
         futures[t] # "pending", thread[w] # "none", Add(w, t)
  PROVE  E!Accept(w, t) \/ E!Refuse(w, t)
<1>1. CASE ~wantStop_[w]
  <2>1. /\ queue_' = [queue_ EXCEPT ![w] = Append(@, t)]
        /\ futures' = [futures EXCEPT ![t] = "pending"]
        /\ thread' = [thread EXCEPT ![w] = IF @ = "wait" THEN "loop" ELSE @]
        /\ UNCHANGED <<wantStop_, running>>
    BY <1>1 DEF Add, Notify
  <2>2. Accepting[w] /\ Accepting' = Accepting
    BY <1>1, <2>1
       DEF IInv, WorkerTypeOK, StateFollowsThread, Absent, Accepting
  <2>3. running[w] \o Append(queue_[w], t) = Append(running[w] \o queue_[w], t)
    <3>1. running[w] \in Seq(Tasks) /\ queue_[w] \in Seq(Tasks)
      BY MappedStates
    <3>2. \A r, s \in Seq(Tasks) : r \o Append(s, t) = Append(r \o s, t)
      BY BehindBoth
    <3>3. QED
      BY <3>1, <3>2, Zenon
  <2>4. Jobs' = [Jobs EXCEPT ![w] = Append(@, t)]
    BY <2>1, <2>3 DEF IInv, WorkerTypeOK, Jobs
  <2>5. QED
    BY <2>1, <2>2, <2>4 DEF E!Accept, Accepting, Jobs
<1>2. CASE wantStop_[w]
  <2>1. ~Accepting[w] /\ Accepting' = Accepting /\ Jobs' = Jobs
    BY <1>2 DEF Add, Accepting, Jobs, Absent
  <2>2. QED
    BY <1>2, <2>1 DEF Add, E!Refuse, Accepting, Jobs
<1>3. QED
  BY <1>1, <1>2

\* A use of the class opens, closes or asks an executor.
LEMMA UseSimulates ==
  ASSUME IInv, NEW w \in Workers, Use(w)
  PROVE  E!Next
BY StartSimulates, StopSimulates, AddSimulates DEF Use, E!Next

\* What is no longer held was answered.
LEMMA ForgetSimulates ==
  ASSUME NEW ts \in SUBSET {t \in Tasks : futures[t] # "pending"}, Forget(ts)
  PROVE  E!Forget(ts)
<1>1. Accepting' = Accepting /\ Jobs' = Jobs
  BY DEF Forget, Accepting, Jobs, Absent
<1>2. QED
  BY <1>1 DEF Forget, E!Forget, Accepting, Jobs

\* The thread runs a job, or does what nobody sees.
LEMMA ThreadSimulates ==
  ASSUME IInv, NEW w \in Workers
  PROVE  /\ Loop(w) => UNCHANGED E!vars
         /\ SpuriousWakeup(w) => UNCHANGED E!vars
         /\ \A r \in Outcomes : RunTask(w, r) \/ Flush(w, r) => E!Execute(w)
<1> USE DEF E!vars
<1>1. ASSUME Wait(w) \/ SpuriousWakeup(w)
      PROVE  UNCHANGED E!vars
  BY <1>1 DEF IInv, WorkerTypeOK, Wait, SpuriousWakeup, Goto, Absent
<1>2. ASSUME TakeTask(w)
      PROVE  UNCHANGED E!vars
  <2>1. running[w] = <<>> /\ queue_[w] # <<>>
    BY <1>2 DEF TakeTask, IInv, StateFollowsThread
  <2>2. <<Head(queue_[w])>> \o Tail(queue_[w]) = running[w] \o queue_[w]
    BY <2>1, MappedStates, HeadThenTail, ConcatEmptySeq
  <2>3. Jobs' = Jobs
    BY <1>2, <2>2 DEF TakeTask, IInv, WorkerTypeOK, Jobs
  <2>4. Accepting' = Accepting /\ UNCHANGED futures
    BY <1>2 DEF TakeTask, Goto, IInv, WorkerTypeOK, Absent, Accepting
  <2>5. QED
    BY <2>3, <2>4 DEF Jobs, Accepting
<1>3. ASSUME LeaveLoop(w) \/ Exit(w)
      PROVE  UNCHANGED E!vars
  <2>1. wantStop_[w]
    BY <1>3 DEF LeaveLoop, Exit, IInv, StateFollowsThread
  <2>2. Accepting' = Accepting
    BY <1>3, <2>1 DEF LeaveLoop, Exit, Goto, IInv, WorkerTypeOK, Absent, Accepting
  <2>3. QED
    BY <1>3, <2>2 DEF LeaveLoop, Exit, Accepting
<1>4. ASSUME NEW r \in Outcomes, RunTask(w, r)
      PROVE  E!Execute(w)
  <2>1. PICK t \in Tasks : running[w] = <<t>>
    <3>1. running[w] # <<>> /\ running[w] \in {<<>>} \cup {<<t>> : t \in Tasks}
      BY <1>4 DEF RunTask, IInv, WorkerTypeOK, StateFollowsThread
    <3>2. QED
      BY <3>1, Zenon
  <2>2. /\ Jobs[w] # <<>> /\ Head(Jobs[w]) = t /\ Tail(Jobs[w]) = queue_[w]
    <3>1. Jobs[w] = <<t>> \o queue_[w] /\ queue_[w] \in Seq(Tasks)
      BY <2>1, MappedStates
    <3>2. QED
      BY <3>1, RunningFirst
  <2>3. Jobs' = [Jobs EXCEPT ![w] = Tail(@)]
    <3>1. <<>> \o queue_[w] = queue_[w]
      BY MappedStates, ConcatEmptySeq
    <3>2. QED
      BY <1>4, <2>2, <3>1 DEF RunTask, IInv, WorkerTypeOK, Jobs
  <2>4. Accepting' = Accepting
    BY <1>4 DEF RunTask, Goto, IInv, WorkerTypeOK, Absent, Accepting
  <2>5. futures' = [futures EXCEPT ![Head(Jobs[w])] = r]
    <3>1. running[w][1] = t
      BY <2>1
    <3>2. QED
      BY <1>4, <2>2, <3>1 DEF RunTask
  <2>6. QED
    BY <2>2, <2>3, <2>4, <2>5 DEF E!Execute, E!Outcomes, Outcomes, Jobs, Accepting
<1>5. ASSUME NEW r \in Outcomes, Flush(w, r)
      PROVE  E!Execute(w)
  <2>1. running[w] = <<>> /\ Jobs[w] = queue_[w] /\ queue_[w] # <<>>
    BY <1>5, MappedStates DEF Flush, IInv, StateFollowsThread
  <2>2. <<>> \o Tail(queue_[w]) = Tail(queue_[w])
    BY <2>1, MappedStates, HeadTailProperties, ConcatEmptySeq
  <2>3. Jobs' = [Jobs EXCEPT ![w] = Tail(@)]
    BY <1>5, <2>1, <2>2 DEF Flush, IInv, WorkerTypeOK, Jobs
  <2>4. Accepting' = Accepting
    BY <1>5 DEF Flush, Absent, Accepting
  <2>5. QED
    BY <1>5, <2>1, <2>3, <2>4
       DEF Flush, E!Execute, E!Outcomes, Outcomes, Jobs, Accepting
<1>6. QED
  BY <1>1, <1>2, <1>3, <1>4, <1>5 DEF Loop

LEMMA NextSimulates ==
  IInv /\ [WorkerNext]_workerVars => [E!Next]_(E!vars)
<1> SUFFICES ASSUME IInv, [WorkerNext]_workerVars
             PROVE  E!Next \/ UNCHANGED E!vars
  OBVIOUS
<1>1. ASSUME NEW w \in Workers, Use(w)
      PROVE  E!Next \/ UNCHANGED E!vars
  BY <1>1, UseSimulates
<1>2. ASSUME NEW w \in Workers, Loop(w) \/ SpuriousWakeup(w)
      PROVE  UNCHANGED E!vars
  BY <1>2, ThreadSimulates
<1>3. ASSUME NEW w \in Workers, NEW r \in Outcomes, RunTask(w, r) \/ Flush(w, r)
      PROVE  E!Next
  BY <1>3, ThreadSimulates DEF E!Next
<1>4. ASSUME NEW ts \in SUBSET {t \in Tasks : futures[t] # "pending"}, Forget(ts)
      PROVE  E!Next
  <2>1. E!Forget(ts)
    BY <1>4, ForgetSimulates
  <2>2. QED
    BY <2>1 DEF E!Next
<1>5. CASE UNCHANGED workerVars
  BY <1>5 DEF workerVars, E!vars, Absent
<1>6. QED
  BY <1>1, <1>2, <1>3, <1>4, <1>5 DEF WorkerNext

\* A WorkerThread runs what it accepts, in order, each task once, also after
\* stop, and answers nothing else: the safety part of ExecutorImplemented.
THEOREM ImplementsExecutor == WorkerSpec => E!Spec
<1>1. WorkerInit => E!Init
  <2> SUFFICES ASSUME WorkerInit
               PROVE  E!Init
    OBVIOUS
  <2>1. \A w \in Workers : running[w] \o queue_[w] = <<>>
    BY EmptySeq, ConcatEmptySeq DEF WorkerInit
  <2>2. QED
    BY <2>1 DEF WorkerInit, E!Init
<1>2. QED
  BY <1>1, Invariance, NextSimulates, PTL DEF WorkerSpec, E!Spec

\* add refuses what comes after stop, so that a flushed queue gets shorter.
LEMMA FlushShrinks ==
  IInv /\ [WorkerNext]_workerVars =>
    [\A w \in Workers :
       thread[w] = "flush" => Len(queue_'[w]) <= Len(queue_[w])]_workerVars
<1> SUFFICES ASSUME IInv, WorkerNext, NEW w \in Workers, thread[w] = "flush"
             PROVE  Len(queue_'[w]) <= Len(queue_[w])
  OBVIOUS
<1>1. /\ wantStop_[w] /\ queue_ \in [Workers -> Seq(Tasks)]
      /\ Len(queue_[w]) \in Nat
  BY LenProperties DEF IInv, WorkerTypeOK, StateFollowsThread
<1>2. ASSUME NEW v \in Workers, Use(v)
      PROVE  queue_'[w] = queue_[w]
  BY <1>1, <1>2 DEF Use, StartThread, Stop, Add
<1>3. ASSUME NEW v \in Workers, Loop(v) \/ SpuriousWakeup(v)
      PROVE  queue_'[w] = queue_[w]
  BY <1>1, <1>3 DEF Loop, Wait, TakeTask, LeaveLoop, Exit, SpuriousWakeup
<1>4. ASSUME NEW v \in Workers, NEW r \in Outcomes, RunTask(v, r)
      PROVE  queue_'[w] = queue_[w]
  BY <1>4 DEF RunTask
<1>5. ASSUME NEW v \in Workers, NEW r \in Outcomes, Flush(v, r)
      PROVE  Len(queue_'[w]) <= Len(queue_[w])
  <2>1. queue_'[w] = queue_[w] \/ (v = w /\ queue_'[w] = Tail(queue_[w]))
    BY <1>1, <1>5 DEF Flush
  <2>2. queue_[v] # <<>>
    BY <1>5 DEF Flush
  <2>3. v = w => Len(Tail(queue_[w])) = Len(queue_[w]) - 1
    BY <1>1, <2>2, HeadTailProperties
  <2>4. CASE queue_'[w] = queue_[w]
    BY <1>1, <2>4
  <2>5. CASE v = w /\ queue_'[w] = Tail(queue_[w])
    BY <1>1, <2>3, <2>5
  <2>6. QED
    BY <2>1, <2>4, <2>5
<1>6. ASSUME NEW ts \in SUBSET Tasks, Forget(ts)
      PROVE  queue_'[w] = queue_[w]
  BY <1>6 DEF Forget
<1>7. QED
  BY <1>1, <1>2, <1>3, <1>4, <1>5, <1>6 DEF WorkerNext

\* While a thread flushes its queue, without the mutex, the queue only gets
\* shorter: add refuses what comes after stop.
THEOREM FlushIsUndisturbed == WorkerSpec => FlushUndisturbed
BY Invariance, FlushShrinks, PTL DEF WorkerSpec, FlushUndisturbed

-----------------------------------------------------------------------------
(* Part 2: where callers can be                                            *)

Runs == {"add", "reset", "search"}
Whole == Runs \cup {"destroy"}
Ops == Whole \cup {"addIndex", "removeIndex"}
Building == {"construct", "first", "started"}

\* The records call takes its values from; what shifts labels is of no concern.
IsCall(r) ==
  r \in [op : Ops \cup {"none"}, n : Nat, at : Nat, last : Nat,
         base : {r.base}, translations : {r.translations}, thrown : BOOLEAN]

\* Each operation goes through its own steps, over its own positions.
CallFits(c) ==
  step[c] # "idle" =>
    /\ kind # "worker" /\ call[c].op \in Ops
    /\ kind = "split" => call[c].op = "search"
    /\ step[c] \in Building =>
         isThreaded_ /\ (kind = "split" \/ call[c].op = "addIndex")
    /\ step[c] \in {"submit", "gather"} => isThreaded_ /\ call[c].op \in Runs
    /\ step[c] = "inline" => ~isThreaded_ /\ call[c].op \in Runs
    /\ step[c] \in {"stop", "join"} =>
         isThreaded_ /\ (kind = "split" \/ call[c].op \in {"removeIndex", "destroy"})
    /\ step[c] = "erase" => call[c].op \in {"removeIndex", "destroy"}
    /\ step[c] # "finish" =>
         /\ call[c].at \in 1..call[c].last /\ call[c].last \in 1..Count
         /\ call[c].op \in Whole => call[c].last = Count
         /\ call[c].op \notin Whole => call[c].at = call[c].last
         /\ call[c].op = "addIndex" => call[c].at = Count

\* A call that changes the index, or that has workers of its own, is alone.
Alone ==
  \A c, d \in Callers :
    step[c] # "idle" /\ step[d] # "idle" /\ c # d =>
      kind # "split" /\ call[c].op = "search" /\ call[d].op = "search"

Configured ==
  /\ kind \in {"shards", "replicas", "split", "worker"}
  /\ {isThreaded_, successive_ids} \subseteq BOOLEAN
  /\ indices_ \in Seq(Workers) /\ IsInjective(indices_)
  /\ kind = "split" => Count > 0

Control ==
  /\ Configured
  /\ step \in [Callers -> Steps]
  /\ call = [c \in Callers |-> call[c]]
  /\ \A c \in Callers : IsCall(call[c]) /\ CallFits(c)
  /\ Alone

\* What a caller's step in the middle of its call has to show.
LEMMA StepKeepsControl ==
  ASSUME Control, NEW c \in Callers, step[c] # "idle",
         UNCHANGED <<confVars, indices_>>,
         NEW s \in Steps, step' = [step EXCEPT ![c] = s],
         NEW r, IsCall(r), call' = [call EXCEPT ![c] = r],
         s # "idle" => r.op = call[c].op,
         CallFits(c)'
  PROVE  Control'
<1>1. Configured'
  BY DEF Control, Configured, confVars, Count
<1>2. step' \in [Callers -> Steps] /\ call' = [d \in Callers |-> call'[d]]
  BY DEF Control
<1>3. /\ step'[c] = s /\ call'[c] = r
      /\ \A d \in Callers \ {c} : step'[d] = step[d] /\ call'[d] = call[d]
  BY DEF Control
<1>4. ASSUME NEW d \in Callers
      PROVE  IsCall(call'[d]) /\ CallFits(d)'
  <2>1. CASE d = c
    BY <1>3, <2>1
  <2>2. CASE d # c
    BY <1>3, <2>2 DEF Control, CallFits, IsCall, confVars, Count
  <2> QED
    BY <2>1, <2>2
<1>5. Alone'
  BY <1>3 DEF Control, Alone, confVars
<1> QED
  BY <1>1, <1>2, <1>4, <1>5 DEF Control

\* A call's record stays one when its position and its outcome change.
LEMMA CallUpdates ==
  ASSUME NEW q, IsCall(q), NEW a \in Nat, NEW b \in BOOLEAN
  PROVE  /\ LET r == [q EXCEPT !.at = a, !.thrown = b] IN
              IsCall(r) /\ r.op = q.op /\ r.last = q.last /\ r.at = a
         /\ LET r == [q EXCEPT !.thrown = b, !.at = a] IN
              IsCall(r) /\ r.op = q.op /\ r.last = q.last /\ r.at = a
BY DEF IsCall

\* What Advance makes of a call's record.
LEMMA AdvanceSteps ==
  ASSUME Control, NEW c \in Callers, step[c] # "idle",
         call[c].at \in 1..call[c].last, call[c].last \in 1..Count,
         NEW again \in Steps, NEW after \in Steps, Advance(c, again, after)
  PROVE  \E s \in {again, after} : \E r :
           /\ step' = [step EXCEPT ![c] = s] /\ call' = [call EXCEPT ![c] = r]
           /\ IsCall(r) /\ r.op = call[c].op /\ r.last = call[c].last
           /\ \/ s = again /\ r.at = call[c].at + 1 /\ call[c].at < call[c].last
              \/ s = after /\ r.at = 1 /\ call[c].at = call[c].last
<1> DEFINE n == [call[c] EXCEPT !.at = call[c].at + 1]
           o == [call[c] EXCEPT !.at = 1]
<1>0. IsCall(call[c]) /\ Count \in Nat
  BY LenProperties DEF Control, Configured, Count
<1>1. /\ IsCall(n) /\ n.op = call[c].op /\ n.last = call[c].last
      /\ n.at = call[c].at + 1
  BY <1>0 DEF IsCall
<1>2. /\ IsCall(o) /\ o.op = call[c].op /\ o.last = call[c].last
      /\ o.at = 1
  BY <1>0 DEF IsCall
<1>3. CASE call[c].at < call[c].last
  <2>1. step' = [step EXCEPT ![c] = again] /\ call' = [call EXCEPT ![c] = n]
    BY <1>3 DEF Advance, CallerGoto
  <2> HIDE DEF n, o
  <2> QED
    BY <1>1, <1>3, <2>1
<1>4. CASE ~ (call[c].at < call[c].last)
  <2>1. step' = [step EXCEPT ![c] = after] /\ call' = [call EXCEPT ![c] = o]
    BY <1>4 DEF Advance, CallerGoto
  <2>2. call[c].at = call[c].last
    BY <1>0, <1>4
  <2> HIDE DEF n, o
  <2> QED
    BY <1>2, <2>1, <2>2
<1> QED
  BY <1>3, <1>4

\* The record of a call is written once more, with its steps going on.
LEMMA SameCallSteps ==
  ASSUME Control, NEW c \in Callers, UNCHANGED call
  PROVE  IsCall(call[c]) /\ call' = [call EXCEPT ![c] = call[c]]
BY DEF Control

LEMMA BuildingKeepsControl ==
  ASSUME Control, NEW c \in Callers,
         Construct(c) \/ AddFirst(c) \/ Constructed(c) \/ StopWorker(c)
  PROVE  Control'
<1>1. PICK s \in Steps \ {"idle"} :
        /\ step' = [step EXCEPT ![c] = s]
        /\ UNCHANGED <<confVars, dataVars, call>>
        /\ \/ step[c] = "construct" /\ s = "first"
           \/ step[c] = "first" /\ s = "started"
           \/ step[c] = "started" /\ s = IF kind = "split" THEN "submit" ELSE "finish"
           \/ step[c] = "stop" /\ s = "join"
  BY DEF Construct, AddFirst, Constructed, StopWorker, CallerGoto, Steps
<1>2. step'[c] = s /\ call' = call /\ step[c] # "idle"
  BY <1>1 DEF Control
<1>3. CallFits(c)'
  <2>1. CallFits(c) /\ UNCHANGED <<confVars, indices_>>
    BY <1>1 DEF Control, dataVars
  <2> QED
    BY <1>1, <1>2, <2>1 DEF CallFits, confVars, Count, Building, Runs
<1> QED
  BY <1>1, <1>2, <1>3, SameCallSteps, StepKeepsControl DEF dataVars

LEMMA SubmitKeepsControl ==
  ASSUME Control, NEW c \in Callers, Submit(c)
  PROVE  Control'
<1>0. /\ step[c] = "submit" /\ UNCHANGED <<confVars, indices_>> /\ CallFits(c)
      /\ Advance(c, IF kind = "split" THEN "construct" ELSE "submit", "gather")
  BY DEF Submit, Control, dataVars
<1>1. /\ call[c].at \in 1..call[c].last /\ call[c].last \in 1..Count
      /\ call[c].op \in Runs /\ isThreaded_ /\ kind # "worker"
  BY <1>0 DEF CallFits
<1>2_. PICK s \in {IF kind = "split" THEN "construct" ELSE "submit", "gather"} : \E r :
        /\ step' = [step EXCEPT ![c] = s] /\ call' = [call EXCEPT ![c] = r]
        /\ IsCall(r) /\ r.op = call[c].op /\ r.last = call[c].last
        /\ \/ r.at = call[c].at + 1 /\ call[c].at < call[c].last
           \/ r.at = 1 /\ call[c].at = call[c].last
  <2>1. (IF kind = "split" THEN "construct" ELSE "submit") \in Steps /\ "gather" \in Steps
    BY DEF Steps
  <2> QED
    BY <1>0, <1>1, <2>1, AdvanceSteps
<1>2. PICK r :
        /\ step' = [step EXCEPT ![c] = s] /\ call' = [call EXCEPT ![c] = r]
        /\ IsCall(r) /\ r.op = call[c].op /\ r.last = call[c].last
        /\ \/ r.at = call[c].at + 1 /\ call[c].at < call[c].last
           \/ r.at = 1 /\ call[c].at = call[c].last
  BY <1>2_
<1>3. step'[c] = s /\ call'[c] = r /\ Count' = Count /\ Count \in Nat
  BY <1>0, <1>2, LenProperties DEF Control, Configured, Count
<1>4. r.at \in 1..r.last
  BY <1>1, <1>2, <1>3
<1>5. CallFits(c)'
  BY <1>0, <1>1, <1>2, <1>3, <1>4
     DEF CallFits, confVars, Building, Runs, Whole, Ops
<1>6. s \in Steps
  BY <1>2 DEF Steps
<1> QED
  BY <1>0, <1>2, <1>5, <1>6, StepKeepsControl

LEMMA InlineKeepsControl ==
  ASSUME Control, NEW c \in Callers, Inline(c)
  PROVE  Control'
<1>0. /\ step[c] = "inline" /\ UNCHANGED <<confVars, indices_>> /\ CallFits(c)
  BY DEF Inline, Control
<1>1. /\ call[c].at \in 1..call[c].last /\ call[c].last \in 1..Count
      /\ call[c].op \in Runs /\ call[c].last = Count
      /\ ~isThreaded_ /\ kind # "worker"
  BY <1>0 DEF CallFits, Whole, Runs
<1>2_. PICK s \in {"inline", "finish"} : \E r :
        /\ step' = [step EXCEPT ![c] = s] /\ call' = [call EXCEPT ![c] = r]
        /\ IsCall(r) /\ r.op = call[c].op /\ r.last = call[c].last
        /\ s = "inline" => r.at = call[c].at + 1 /\ call[c].at # call[c].last
  <2>1. PICK o \in Outcomes :
          IF o = "done" THEN Advance(c, "inline", "finish")
          ELSE IF kind = "split" \/ call[c].at = call[c].last
          THEN /\ CallerGoto(c, "finish")
               /\ call' = [call EXCEPT ![c].thrown = TRUE]
          ELSE /\ UNCHANGED step
               /\ call' = [call EXCEPT ![c].thrown = TRUE, ![c].at = @ + 1]
    BY DEF Inline
  <2> DEFINE n == [call[c] EXCEPT !.thrown = TRUE]
             m == [call[c] EXCEPT !.thrown = TRUE, !.at = call[c].at + 1]
  <2>2. /\ IsCall(n) /\ n.op = call[c].op /\ n.last = call[c].last
        /\ IsCall(m) /\ m.op = call[c].op /\ m.last = call[c].last
        /\ m.at = call[c].at + 1
    <3>1. IsCall(call[c]) /\ call[c].at + 1 \in Nat
      BY DEF Control, IsCall
    <3>2. IsCall(n) /\ n.op = call[c].op /\ n.last = call[c].last
      BY <3>1 DEF IsCall
    <3>3. IsCall(m) /\ m.op = call[c].op /\ m.last = call[c].last
            /\ m.at = call[c].at + 1
      BY <3>1, CallUpdates
    <3> HIDE DEF n, m
    <3> QED
      BY <3>2, <3>3
  <2>3. CASE o = "done"
    <3>1. "inline" \in Steps /\ "finish" \in Steps
      BY DEF Steps
    <3>2_. PICK s \in {"inline", "finish"} : \E r :
            /\ step' = [step EXCEPT ![c] = s] /\ call' = [call EXCEPT ![c] = r]
            /\ IsCall(r) /\ r.op = call[c].op /\ r.last = call[c].last
            /\ \/ s = "inline" /\ r.at = call[c].at + 1 /\ call[c].at < call[c].last
               \/ s = "finish" /\ r.at = 1 /\ call[c].at = call[c].last
      BY <1>0, <1>1, <2>1, <2>3, <3>1, AdvanceSteps
    <3>2. PICK r :
            /\ step' = [step EXCEPT ![c] = s] /\ call' = [call EXCEPT ![c] = r]
            /\ IsCall(r) /\ r.op = call[c].op /\ r.last = call[c].last
            /\ \/ s = "inline" /\ r.at = call[c].at + 1 /\ call[c].at < call[c].last
               \/ s = "finish" /\ r.at = 1 /\ call[c].at = call[c].last
      BY <3>2_
    <3>3. call[c].at < call[c].last => call[c].at # call[c].last
      BY <1>1
    <3> QED
      BY <3>2, <3>3
  <2>4. CASE o # "done" /\ (kind = "split" \/ call[c].at = call[c].last)
    <3>1. step' = [step EXCEPT ![c] = "finish"] /\ call' = [call EXCEPT ![c] = n]
      BY <2>1, <2>4 DEF CallerGoto
    <3> HIDE DEF n, m
    <3> QED
      BY <2>2, <3>1
  <2>5. CASE o # "done" /\ ~(kind = "split" \/ call[c].at = call[c].last)
    <3>1. step' = [step EXCEPT ![c] = "inline"]
      BY <1>0, <2>1, <2>5 DEF Control
    <3>2. call' = [call EXCEPT ![c] = m]
      BY <2>1, <2>5
    <3> HIDE DEF n, m
    <3> QED
      BY <2>2, <2>5, <3>1, <3>2
  <2> QED
    BY <2>3, <2>4, <2>5
<1>2. PICK r :
        /\ step' = [step EXCEPT ![c] = s] /\ call' = [call EXCEPT ![c] = r]
        /\ IsCall(r) /\ r.op = call[c].op /\ r.last = call[c].last
        /\ s = "inline" => r.at = call[c].at + 1 /\ call[c].at # call[c].last
  BY <1>2_
<1>3. step'[c] = s /\ call'[c] = r /\ Count' = Count /\ Count \in Nat
  BY <1>0, <1>2, LenProperties DEF Control, Configured, Count
<1>4. s = "inline" => r.at \in 1..r.last
  BY <1>1, <1>2, <1>3
<1>5. CallFits(c)'
  BY <1>0, <1>1, <1>2, <1>3, <1>4
     DEF CallFits, confVars, Building, Runs, Whole, Ops
<1>6. s \in Steps
  BY <1>2 DEF Steps
<1> QED
  BY <1>0, <1>2, <1>5, <1>6, StepKeepsControl

\* Where the wait for the futures goes on.
LEMMA GatherSteps ==
  ASSUME Control, NEW c \in Callers, Gather(c)
  PROVE  \E s \in {"gather", "stop", "finish"} : \E r :
           /\ step' = [step EXCEPT ![c] = s] /\ call' = [call EXCEPT ![c] = r]
           /\ IsCall(r) /\ r.op = call[c].op /\ r.last = call[c].last
           /\ \/ s = "gather" /\ r.at = call[c].at + 1 /\ call[c].at # call[c].last
              \/ kind = "split" /\ s = "stop" /\ r.at = 1
              \/ kind # "split" /\ s = "finish" /\ r.at = 1
                   /\ call[c].at = call[c].last
<1> DEFINE thrown == call[c].thrown \/ futures[Task(c, "call")] = "thrown"
           end == call[c].at = call[c].last \/ Leaves(c)
           after == IF kind = "split" THEN "stop" ELSE "finish"
           n == [call[c] EXCEPT !.at = call[c].at + 1, !.thrown = thrown]
           m == [call[c] EXCEPT !.at = 1, !.thrown = thrown]
<1>1. /\ IsCall(n) /\ n.op = call[c].op /\ n.last = call[c].last
      /\ n.at = call[c].at + 1
      /\ IsCall(m) /\ m.op = call[c].op /\ m.last = call[c].last /\ m.at = 1
  <2>1. thrown \in BOOLEAN
    BY DEF Control, IsCall
  <2>2. IsCall(call[c]) /\ call[c].at + 1 \in Nat /\ 1 \in Nat
    BY DEF Control, IsCall
  <2> HIDE DEF thrown
  <2>3. \A a \in Nat, b \in BOOLEAN :
          LET r == [call[c] EXCEPT !.at = a, !.thrown = b] IN
          IsCall(r) /\ r.op = call[c].op /\ r.last = call[c].last /\ r.at = a
    BY <2>2 DEF IsCall
  <2>4. /\ IsCall(n) /\ n.op = call[c].op /\ n.last = call[c].last
        /\ n.at = call[c].at + 1
        /\ IsCall(m) /\ m.op = call[c].op /\ m.last = call[c].last /\ m.at = 1
    BY <2>1, <2>2, <2>3, Zenon
  <2> HIDE DEF n, m
  <2> QED
    BY <2>4
<1>2. /\ step' = [step EXCEPT ![c] = IF end THEN after ELSE "gather"]
      /\ call' = [call EXCEPT ![c].at = IF end THEN 1 ELSE @ + 1,
                              ![c].thrown = thrown]
  BY DEF Gather, CallerGoto
<1>3. CASE end
  <2>1. step' = [step EXCEPT ![c] = after] /\ call' = [call EXCEPT ![c] = m]
    BY <1>2, <1>3
  <2>2. kind # "split" => call[c].at = call[c].last
    BY <1>3 DEF Leaves
  <2> HIDE DEF n, m
  <2> QED
    BY <1>1, <2>1, <2>2
<1>4. CASE ~end
  <2>1. step' = [step EXCEPT ![c] = "gather"] /\ call' = [call EXCEPT ![c] = n]
    BY <1>2, <1>4
  <2> HIDE DEF n, m
  <2> QED
    BY <1>1, <1>4, <2>1
<1> QED
  BY <1>3, <1>4

LEMMA GatherKeepsControl ==
  ASSUME Control, NEW c \in Callers, Gather(c)
  PROVE  Control'
<1>0. /\ step[c] = "gather" /\ UNCHANGED <<confVars, indices_>> /\ CallFits(c)
  BY DEF Gather, Control, dataVars
<1>1. /\ call[c].at \in 1..call[c].last /\ call[c].last \in 1..Count
      /\ call[c].op \in Runs /\ isThreaded_ /\ kind # "worker"
  BY <1>0 DEF CallFits
<1>2_. PICK s \in {"gather", "stop", "finish"} : \E r :
        /\ step' = [step EXCEPT ![c] = s] /\ call' = [call EXCEPT ![c] = r]
        /\ IsCall(r) /\ r.op = call[c].op /\ r.last = call[c].last
        /\ \/ s = "gather" /\ r.at = call[c].at + 1 /\ call[c].at # call[c].last
           \/ kind = "split" /\ s = "stop" /\ r.at = 1
           \/ kind # "split" /\ s = "finish"
  BY GatherSteps
<1>2. PICK r :
        /\ step' = [step EXCEPT ![c] = s] /\ call' = [call EXCEPT ![c] = r]
        /\ IsCall(r) /\ r.op = call[c].op /\ r.last = call[c].last
        /\ \/ s = "gather" /\ r.at = call[c].at + 1 /\ call[c].at # call[c].last
           \/ kind = "split" /\ s = "stop" /\ r.at = 1
           \/ kind # "split" /\ s = "finish"
  BY <1>2_
<1>3. step'[c] = s /\ call'[c] = r /\ Count' = Count /\ Count \in Nat
  BY <1>0, <1>2, LenProperties DEF Control, Configured, Count
<1>4. s # "finish" => r.at \in 1..r.last
  BY <1>1, <1>2, <1>3
<1>5. CallFits(c)'
  BY <1>0, <1>1, <1>2, <1>3, <1>4
     DEF CallFits, confVars, Building, Runs, Whole, Ops
<1>6. s \in Steps
  BY <1>2 DEF Steps
<1> QED
  BY <1>0, <1>2, <1>5, <1>6, StepKeepsControl

LEMMA JoinKeepsControl ==
  ASSUME Control, NEW c \in Callers, Join(c)
  PROVE  Control'
<1>0. /\ step[c] = "join" /\ UNCHANGED <<confVars, indices_>> /\ CallFits(c)
      /\ IF call[c].op = "removeIndex"
         THEN CallerGoto(c, "erase") /\ UNCHANGED call
         ELSE Advance(c, "stop", IF kind = "split" THEN "finish" ELSE "erase")
  BY DEF Join, Control, dataVars
<1>1. /\ call[c].at \in 1..call[c].last /\ call[c].last \in 1..Count
      /\ kind = "split" \/ call[c].op \in {"removeIndex", "destroy"}
      /\ isThreaded_ /\ kind # "worker"
  BY <1>0 DEF CallFits
<1>2_. PICK s \in {"stop", "finish", "erase"} : \E r :
        /\ step' = [step EXCEPT ![c] = s] /\ call' = [call EXCEPT ![c] = r]
        /\ IsCall(r) /\ r.op = call[c].op /\ r.last = call[c].last
        /\ \/ /\ call[c].op = "removeIndex" /\ s = "erase" /\ r.at = call[c].at
           \/ /\ call[c].op # "removeIndex"
              /\ \/ s = "stop" /\ r.at = call[c].at + 1 /\ call[c].at < call[c].last
                 \/ s = "finish" /\ kind = "split"
                 \/ s = "erase" /\ r.at = 1 /\ kind # "split"
  <2>1. CASE call[c].op = "removeIndex"
    <3>1. call' = [call EXCEPT ![c] = call[c]] /\ IsCall(call[c])
      BY <1>0, <2>1, SameCallSteps
    <3> QED
      BY <1>0, <2>1, <3>1 DEF CallerGoto
  <2>2. CASE call[c].op # "removeIndex"
    <3>1. "stop" \in Steps /\ (IF kind = "split" THEN "finish" ELSE "erase") \in Steps
      BY DEF Steps
    <3> QED
      BY <1>0, <1>1, <2>2, <3>1, AdvanceSteps
  <2> QED
    BY <2>1, <2>2
<1>2. PICK r :
        /\ step' = [step EXCEPT ![c] = s] /\ call' = [call EXCEPT ![c] = r]
        /\ IsCall(r) /\ r.op = call[c].op /\ r.last = call[c].last
        /\ \/ /\ call[c].op = "removeIndex" /\ s = "erase" /\ r.at = call[c].at
           \/ /\ call[c].op # "removeIndex"
              /\ \/ s = "stop" /\ r.at = call[c].at + 1 /\ call[c].at < call[c].last
                 \/ s = "finish" /\ kind = "split"
                 \/ s = "erase" /\ r.at = 1 /\ kind # "split"
  BY <1>2_
<1>3. step'[c] = s /\ call'[c] = r /\ Count' = Count /\ Count \in Nat
  BY <1>0, <1>2, LenProperties DEF Control, Configured, Count
<1>4. s # "finish" => r.at \in 1..r.last
  BY <1>1, <1>2, <1>3
<1>5. CallFits(c)'
  BY <1>0, <1>1, <1>2, <1>3, <1>4
     DEF CallFits, confVars, Building, Runs, Whole, Ops
<1>6. s \in Steps
  BY <1>2 DEF Steps
<1> QED
  BY <1>0, <1>2, <1>5, <1>6, StepKeepsControl

\* Taking a sub-index out leaves the others, in order.
LEMMA RemoveLeaves ==
  ASSUME NEW S, NEW s \in Seq(S), IsInjective(s), NEW i \in 1..Len(s)
  PROVE  /\ RemoveAt(s, i) \in Seq(S) /\ IsInjective(RemoveAt(s, i))
         /\ Range(RemoveAt(s, i)) = Range(s) \ {s[i]}
<1> DEFINE r == RemoveAt(s, i)
           n == Len(s)
<1>1. /\ r \in Seq(S) /\ Len(r) = n - 1 /\ n \in Nat
      /\ \A j \in 1..(n - 1) : r[j] = IF j < i THEN s[j] ELSE s[j + 1]
  BY RemoveAtProperties, LenProperties
<1>2. /\ Range(s) = {s[j] : j \in 1..n}
      /\ \A j, k \in 1..n : s[j] = s[k] => j = k
  BY RangeBySequence
<1>3. /\ Range(r) = {r[j] : j \in 1..(n - 1)}
      /\ IsInjective(r) <=> \A j, k \in 1..(n - 1) : r[j] = r[k] => j = k
  BY <1>1, RangeBySequence
<1> HIDE DEF r, n
<1>4. i \in 1..n
  BY DEF n
<1>5. \A j \in 1..(n - 1) :
        \/ j < i /\ j \in 1..n /\ r[j] = s[j]
        \/ j >= i /\ j + 1 \in 1..n /\ r[j] = s[j + 1]
  <2> TAKE j \in 1..(n - 1)
  <2>1. j < i \/ (j >= i /\ ~(j < i))
    BY <1>4
  <2> QED
    BY <1>1, <1>4, <2>1
<1>6. IsInjective(r)
  <2> SUFFICES ASSUME NEW j \in 1..(n - 1), NEW k \in 1..(n - 1), r[j] = r[k]
               PROVE  j = k
    BY <1>3
  <2>1. CASE j < i /\ k < i
    BY <1>2, <1>4, <1>5, <2>1
  <2>2. CASE j >= i /\ k >= i
    <3>1. j + 1 = k + 1
      BY <1>1, <1>2, <1>4, <1>5, <2>2
    <3> QED
      BY <3>1
  <2>3. CASE j < i /\ k >= i
    <3>1. j = k + 1
      BY <1>1, <1>2, <1>4, <1>5, <2>3
    <3> QED
      BY <1>4, <2>3, <3>1
  <2>4. CASE j >= i /\ k < i
    <3>1. j + 1 = k
      BY <1>1, <1>2, <1>4, <1>5, <2>4
    <3> QED
      BY <1>4, <2>4, <3>1
  <2> QED
    BY <1>4, <2>1, <2>2, <2>3, <2>4
<1>7. ASSUME NEW x \in Range(r)
      PROVE  x \in Range(s) \ {s[i]}
  <2>1. PICK j \in 1..(n - 1) : x = r[j]
    BY <1>3
  <2>2. PICK k \in 1..n : x = s[k] /\ k # i
    BY <1>4, <1>5, <2>1
  <2> QED
    BY <1>2, <1>4, <2>2
<1>8. ASSUME NEW x \in Range(s) \ {s[i]}
      PROVE  x \in Range(r)
  <2>1. PICK k \in 1..n : x = s[k] /\ k # i
    BY <1>2, <1>8
  <2>2. CASE k < i
    <3>1. k \in 1..(n - 1) /\ r[k] = s[k]
      BY <1>1, <1>4, <2>2
    <3> QED
      BY <1>3, <2>1, <3>1
  <2>3. CASE k > i
    <3>1. k - 1 \in 1..(n - 1) /\ ~(k - 1 < i) /\ (k - 1) + 1 = k
      BY <1>1, <1>4, <2>3
    <3>2. r[k - 1] = s[k]
      BY <1>1, <3>1
    <3> QED
      BY <1>3, <2>1, <3>1, <3>2
  <2> QED
    BY <1>4, <2>1, <2>2, <2>3
<1> QED
  BY <1>1, <1>6, <1>7, <1>8 DEF r

LEMMA EraseKeepsControl ==
  ASSUME Control, NEW c \in Callers, Erase(c)
  PROVE  Control'
<1>0. /\ step[c] = "erase" /\ CallFits(c)
      /\ step' = [step EXCEPT ![c] = "finish"] /\ UNCHANGED <<confVars, call>>
      /\ indices_' = IF call[c].op = "destroy" THEN <<>>
                     ELSE RemoveAt(indices_, call[c].at)
  BY DEF Erase, Control, CallerGoto
<1>1. /\ call[c].op \in {"removeIndex", "destroy"} /\ kind # "split"
      /\ call[c].at \in 1..Count
  <2>1. /\ call[c].op \in {"removeIndex", "destroy"} /\ kind # "split"
        /\ call[c].at \in 1..call[c].last /\ call[c].last \in 1..Count
    BY <1>0 DEF CallFits
  <2> QED
    BY <2>1, LenProperties DEF Control, Configured, Count
<1>2. indices_' \in Seq(Workers) /\ IsInjective(indices_')
  <2>1. CASE call[c].op = "destroy"
    BY <1>0, <2>1, EmptySeq DEF IsInjective
  <2>2. CASE call[c].op # "destroy"
    BY <1>0, <1>1, <2>2, RemoveLeaves DEF Control, Configured, Count
  <2> QED
    BY <2>1, <2>2
<1>3. Configured'
  BY <1>0, <1>1, <1>2 DEF Control, Configured, confVars
<1>4. \A d \in Callers \ {c} : step[d] = "idle"
  BY <1>0, <1>1 DEF Control, Alone
<1>5. /\ step' \in [Callers -> Steps] /\ step'[c] = "finish" /\ call' = call
      /\ \A d \in Callers \ {c} : step'[d] = "idle"
  BY <1>0, <1>4 DEF Control, Steps
<1>6. \A d \in Callers : CallFits(d)'
  <2>1. CallFits(c)'
    BY <1>0, <1>1, <1>5 DEF CallFits, confVars, Building
  <2>2. \A d \in Callers \ {c} : CallFits(d)'
    BY <1>5 DEF CallFits
  <2> QED
    BY <2>1, <2>2
<1>7. Alone'
  BY <1>5 DEF Alone
<1>8. call' = [d \in Callers |-> call'[d]] /\ \A d \in Callers : IsCall(call'[d])
  BY <1>5 DEF Control
<1> QED
  BY <1>3, <1>5, <1>6, <1>7, <1>8 DEF Control

LEMMA FinishKeepsControl ==
  ASSUME Control, NEW c \in Callers, Finish(c)
  PROVE  Control'
<1>1. /\ step[c] = "finish" /\ UNCHANGED <<confVars, indices_>>
      /\ step' = [step EXCEPT ![c] = "idle"] /\ call' = [call EXCEPT ![c] = NoCall]
  BY DEF Finish, CallerGoto
<1>2. IsCall(NoCall) /\ "idle" \in Steps
  BY DEF IsCall, NoCall, Steps
<1>3. CallFits(c)'
  BY <1>1 DEF Control, CallFits
<1> QED
  BY <1>1, <1>2, <1>3, StepKeepsControl

LEMMA CallerKeepsControl ==
  ASSUME Control, NEW c \in Callers, Caller(c)
  PROVE  Control'
BY BuildingKeepsControl, SubmitKeepsControl, InlineKeepsControl, GatherKeepsControl,
   JoinKeepsControl, EraseKeepsControl, FinishKeepsControl DEF Caller

\* The record r of a new call, and its first step s.
NewCall(c, op, s, from, to, r) ==
  /\ step[c] = "idle" /\ step' = [step EXCEPT ![c] = s]
  /\ call' = [call EXCEPT ![c] = r]
  /\ IsCall(r) /\ r.op = op /\ r.at = from /\ r.last = to /\ r.base = ntotal

LEMMA StartSteps ==
  ASSUME NEW c \in Callers, NEW op \in Ops, NEW n \in Nat, NEW s,
         NEW from \in Nat, NEW to \in Nat, Start(c, op, n, s, from, to)
  PROVE  \E r : NewCall(c, op, s, from, to, r)
<1> DEFINE shifts == [p \in 1..Count |-> IF successive_ids THEN SumUpTo(p - 1) ELSE 0]
           r == [op |-> op, n |-> n, at |-> from, last |-> to, base |-> ntotal,
                 translations |-> shifts, thrown |-> FALSE]
<1>1. /\ step[c] = "idle" /\ step' = [step EXCEPT ![c] = s]
      /\ call' = [call EXCEPT ![c] = r]
  BY DEF Start, CallerGoto
<1> HIDE DEF shifts
<1>2. /\ IsCall(r) /\ r.op = op /\ r.at = from /\ r.last = to /\ r.base = ntotal
  BY DEF IsCall
<1> HIDE DEF r
<1> QED
  BY <1>1, <1>2 DEF NewCall

\* What a call begins with, r being its record and s its first step.
Begins(c, s, r) ==
  \/ /\ kind \in {"shards", "replicas"} /\ r.op \in Runs /\ s = Run
     /\ r.at = 1 /\ r.last = Count /\ Count > 0
     /\ OthersSearch /\ (r.op # "search" => AllIdle)
     /\ UNCHANGED indices_
  \/ /\ kind = "split" /\ r.op = "search" /\ AllIdle
     /\ s = IF isThreaded_ THEN "construct" ELSE "inline"
     /\ r.at = 1 /\ r.last = Count
     /\ UNCHANGED indices_
  \/ /\ kind \in {"shards", "replicas"} /\ r.op = "addIndex" /\ AllIdle
     /\ s = IF isThreaded_ THEN "construct" ELSE "finish"
     /\ r.at = Count + 1 /\ r.last = Count + 1
     /\ \E i \in Workers \ Range(indices_) : indices_' = Append(indices_, i)
  \/ /\ kind \in {"shards", "replicas"} /\ r.op \in {"removeIndex", "destroy"}
     /\ AllIdle /\ s = IF isThreaded_ THEN "stop" ELSE "erase"
     /\ IF r.op = "removeIndex" THEN r.at \in 1..Count /\ r.last = r.at
        ELSE r.at = 1 /\ r.last = Count /\ Count > 0
     /\ UNCHANGED indices_

LEMMA BeginSteps ==
  ASSUME Control, NEW c \in Callers, Begin(c)
  PROVE  \E s, r : /\ step[c] = "idle" /\ step' = [step EXCEPT ![c] = s]
                   /\ call' = [call EXCEPT ![c] = r]
                   /\ IsCall(r) /\ r.base = ntotal
                   /\ Begins(c, s, r)
<1>a. \A op \in Ops, n \in Nat, from \in Nat, to \in Nat : \A s :
        Start(c, op, n, s, from, to) => \E r : NewCall(c, op, s, from, to, r)
  BY StartSteps
<1>b. {"search", "addIndex", "removeIndex", "destroy"} \subseteq Ops
  BY DEF Ops, Whole, Runs
<1>0. /\ Count \in Nat /\ Count + 1 \in Nat /\ 0 \in Nat /\ 1 \in Nat
      /\ AddSizes \cup Queries \subseteq Nat
  BY ThreadedAssumption, LenProperties DEF Control, Configured, Count
<1>1. CASE BeginRun(c)
  <2>1. PICK op \in Runs, n \in Nat :
          /\ Start(c, op, n, Run, 1, Count)
          /\ OthersSearch /\ (op # "search" => AllIdle)
    BY <1>0, <1>1 DEF BeginRun, Runs, AllIdle, OthersSearch
  <2>2. op \in Ops
    BY DEF Ops, Whole
  <2>3. PICK r : NewCall(c, op, Run, 1, Count, r)
    BY <1>a, <1>0, <2>1, <2>2, Zenon
  <2>4. Begins(c, Run, r)
    BY <1>1, <2>1, <2>3 DEF NewCall, BeginRun, Begins, dataVars
  <2> QED
    BY <2>3, <2>4 DEF NewCall
<1>2. CASE BeginSplit(c)
  <2> DEFINE s == IF isThreaded_ THEN "construct" ELSE "inline"
  <2>1. PICK n \in Nat : Start(c, "search", n, s, 1, Count)
    BY <1>0, <1>2 DEF BeginSplit
  <2>2. PICK r : NewCall(c, "search", s, 1, Count, r)
    BY <1>a, <1>b, <1>0, <2>1, Zenon
  <2>3. Begins(c, s, r)
    BY <1>2, <2>2 DEF NewCall, BeginSplit, Begins, MayChange, dataVars
  <2> QED
    BY <2>2, <2>3 DEF NewCall
<1>3. CASE BeginAddIndex(c)
  <2> DEFINE s == IF isThreaded_ THEN "construct" ELSE "finish"
  <2>1. Start(c, "addIndex", 0, s, Count + 1, Count + 1)
    BY <1>3 DEF BeginAddIndex
  <2>2. PICK r : NewCall(c, "addIndex", s, Count + 1, Count + 1, r)
    BY <1>a, <1>b, <1>0, <2>1, Zenon
  <2>3. Begins(c, s, r)
    BY <1>3, <2>2 DEF NewCall, BeginAddIndex, Begins, MayChange
  <2> QED
    BY <2>2, <2>3 DEF NewCall
<1>4. CASE BeginRemove(c)
  <2> DEFINE s == IF isThreaded_ THEN "stop" ELSE "erase"
  <2>1. CASE \E p \in 1..Count : Start(c, "removeIndex", 0, s, p, p)
    <3>1. PICK p \in 1..Count : Start(c, "removeIndex", 0, s, p, p)
      BY <2>1
    <3>2. p \in Nat
      BY <1>0
    <3>3. PICK r : NewCall(c, "removeIndex", s, p, p, r)
      BY <1>a, <1>b, <1>0, <3>1, <3>2, Zenon
    <3>4. Begins(c, s, r)
      BY <1>4, <3>3 DEF NewCall, BeginRemove, Begins, MayChange, dataVars
    <3> QED
      BY <3>3, <3>4 DEF NewCall
  <2>2. CASE Count > 0 /\ Start(c, "destroy", 0, s, 1, Count)
    <3>1. PICK r : NewCall(c, "destroy", s, 1, Count, r)
      BY <1>a, <1>b, <1>0, <2>2, Zenon
    <3>2. Begins(c, s, r)
      BY <1>4, <2>2, <3>1 DEF NewCall, BeginRemove, Begins, MayChange, dataVars
    <3> QED
      BY <3>1, <3>2 DEF NewCall
  <2> QED
    BY <1>4, <2>1, <2>2 DEF BeginRemove
<1> QED
  BY <1>1, <1>2, <1>3, <1>4 DEF Begin

LEMMA BeginKeepsControl ==
  ASSUME Control, NEW c \in Callers, Begin(c)
  PROVE  Control'
<1>1. PICK s, r : /\ step[c] = "idle" /\ step' = [step EXCEPT ![c] = s]
                  /\ call' = [call EXCEPT ![c] = r]
                  /\ IsCall(r) /\ Begins(c, s, r)
  BY BeginSteps
<1>0. UNCHANGED confVars /\ Count \in Nat
  BY LenProperties
     DEF Begin, BeginRun, BeginSplit, BeginAddIndex, BeginRemove,
         Control, Configured, Count
<1>2. /\ step'[c] = s /\ call'[c] = r
      /\ \A d \in Callers \ {c} : step'[d] = step[d] /\ call'[d] = call[d]
  BY <1>1 DEF Control
<1>3. s \in Steps \ {"idle"} /\ r.op \in Ops
  BY <1>1 DEF Begins, Run, Steps, Ops, Whole, Runs
<1>4. /\ indices_' \in Seq(Workers) /\ IsInjective(indices_')
      /\ indices_' = indices_ \/ (r.op = "addIndex" /\ Count' = Count + 1)
  <2>1. CASE indices_' = indices_
    BY <2>1 DEF Control, Configured
  <2>2. CASE indices_' # indices_
    <3>1. r.op = "addIndex"
      BY <1>1, <2>2 DEF Begins, Runs
    <3>2. PICK i \in Workers \ Range(indices_) : indices_' = Append(indices_, i)
      BY <1>1, <3>1 DEF Begins, Runs
    <3>3. indices_ \in Seq(Workers) /\ IsInjective(indices_)
      BY DEF Control, Configured
    <3>4. Count' = Count + 1
      BY <3>2, <3>3, AppendProperties DEF Count
    <3> QED
      BY <3>1, <3>2, <3>3, <3>4, AppendAdds
  <2> QED
    BY <2>1, <2>2
<1>5. Configured'
  BY <1>0, <1>4 DEF Control, Configured, confVars, Count
<1>6. CallFits(c)'
  <2>1. CASE indices_' = indices_
    <3>1. Count' = Count
      BY <2>1 DEF Count
    <3>2. kind = "split" => Count > 0
      BY DEF Control, Configured
    <3>3. r.op # "addIndex" \/ s = "finish"
      <4>1. CASE r.op = "addIndex"
        <5>1. PICK i \in Workers \ Range(indices_) : indices_' = Append(indices_, i)
          BY <1>1, <4>1 DEF Begins, Runs
        <5>2. Len(Append(indices_, i)) = Len(indices_) + 1
          BY AppendProperties DEF Control, Configured
        <5> QED
          BY <1>0, <2>1, <5>1, <5>2 DEF Count
      <4> QED
        BY <4>1
    <3> QED
      BY <1>0, <1>1, <1>2, <1>3, <3>1, <3>2, <3>3
         DEF CallFits, Begins, Run, confVars, Building, Runs, Whole, Ops
  <2>2. CASE indices_' # indices_
    <3>1. r.op = "addIndex" /\ Count' = Count + 1
      BY <1>4, <2>2
    <3> QED
      BY <1>0, <1>1, <1>2, <1>3, <3>1
         DEF CallFits, Begins, Run, confVars, Building, Runs, Whole, Ops
  <2> QED
    BY <2>1, <2>2
<1>7. ASSUME NEW d \in Callers \ {c}
      PROVE  CallFits(d)'
  <2>1. CallFits(d)
    BY DEF Control
  <2>2. CASE indices_' = indices_
    BY <1>0, <1>2, <2>1, <2>2 DEF CallFits, confVars, Count
  <2>3. CASE indices_' # indices_
    <3>1. step[d] = "idle"
      BY <1>1, <2>3 DEF Begins, AllIdle
    <3> QED
      BY <1>2, <3>1 DEF CallFits
  <2> QED
    BY <2>2, <2>3
<1>8. Alone'
  <2>1. \A d \in Callers \ {c} :
          step[d] # "idle" => kind # "split" /\ r.op = "search" /\ call[d].op = "search"
    BY <1>1 DEF Begins, AllIdle, OthersSearch
  <2>2. Alone
    BY DEF Control
  <2> QED
    BY <1>0, <1>2, <2>1, <2>2 DEF Alone, confVars
<1>9. /\ step' \in [Callers -> Steps] /\ call' = [d \in Callers |-> call'[d]]
      /\ \A d \in Callers : IsCall(call'[d])
  <2>1. \A d \in Callers : IsCall(call'[d])
    BY <1>1, <1>2 DEF Control
  <2> QED
    BY <1>1, <1>3, <2>1 DEF Control
<1> QED
  BY <1>5, <1>6, <1>7, <1>8, <1>9 DEF Control

LEMMA InitControl == Init => Control
<1> SUFFICES ASSUME Init PROVE Control
  OBVIOUS
<1>1. /\ kind \in {"shards", "replicas", "split", "worker"}
      /\ isThreaded_ \in BOOLEAN /\ successive_ids \in BOOLEAN
      /\ indices_ = IF kind = "worker" THEN <<>> ELSE SetToSeq(Workers)
      /\ step = [c \in Callers |-> "idle"]
      /\ call = [c \in Callers |-> NoCall]
  BY DEF Init
<1>2. indices_ \in Seq(Workers) /\ IsInjective(indices_)
  <2>1. CASE kind = "worker"
    BY <1>1, <2>1, EmptySeq DEF IsInjective
  <2>2. CASE kind # "worker"
    BY <1>1, <2>2, ThreadedAssumption, SetToSeqProperties
  <2> QED
    BY <2>1, <2>2
<1>3. kind = "split" => Count > 0
  <2> HAVE kind = "split"
  <2>1. Len(indices_) = Cardinality(Workers) /\ Cardinality(Workers) \in Nat
    BY <1>1, ThreadedAssumption, SetToSeqProperties
  <2>2. Cardinality(Workers) # 0
    BY ThreadedAssumption, FS_EmptySet
  <2> QED
    BY <2>1, <2>2 DEF Count
<1>4. Configured
  BY <1>1, <1>2, <1>3 DEF Configured
<1>5. IsCall(NoCall)
  BY DEF IsCall, NoCall
<1> QED
  BY <1>1, <1>4, <1>5 DEF Control, CallFits, Alone, Steps

-----------------------------------------------------------------------------
(* What callers and threads do to the workers                              *)

\* Each unanswered task is once among the jobs of its own worker, and the jobs
\* are unanswered tasks.
TasksFiled ==
  \A i \in Workers :
    /\ IsInjective(Jobs[i])
    /\ \A t \in Tasks : t \in Range(Jobs[i]) <=> t[2] = i /\ futures[t] = "pending"

Serving(i) == ~Absent(i) /\ ~wantStop_[i]

\* What a step leaves as it is: whether worker i is there and takes tasks.
SameServing(i) == (Absent(i)' <=> Absent(i)) /\ (Serving(i)' <=> Serving(i))

WorkersSound == IInv /\ TasksFiled

LEMMA JobsTyped ==
  ASSUME IInv
  PROVE  \A i \in Workers : Jobs[i] \in Seq(Tasks)
<1>1. \A i \in Workers : /\ running[i] \in Seq(Tasks) /\ queue_[i] \in Seq(Tasks)
                         /\ Jobs[i] = running[i] \o queue_[i]
  BY MappedStates
<1> QED
  BY <1>1, ConcatProperties

\* A worker that is not there has no jobs.
LEMMA AbsentIsEmpty ==
  ASSUME IInv, NEW i \in Workers, Absent(i)
  PROVE  Jobs[i] = <<>>
<1>1. running[i] = <<>> /\ queue_[i] = <<>>
  BY DEF IInv, StateFollowsThread, Absent
<1> QED
  BY <1>1, MappedStates

LEMMA StartEffect ==
  ASSUME WorkersSound, NEW w \in Workers, StartThread(w)
  PROVE  /\ WorkersSound' /\ futures' = futures /\ Serving(w)'
         /\ \A i \in Workers \ {w} : SameServing(i)
<1>1. IInv /\ IInv'
  BY UsePreserves DEF WorkersSound, Use
<1>2. Jobs' = Jobs /\ futures' = futures
  BY <1>1, StartSimulates DEF E!Open, Jobs
<1>3. /\ wantStop_' = [wantStop_ EXCEPT ![w] = FALSE]
      /\ thread' = [thread EXCEPT ![w] = "loop"]
      /\ wantStop_ \in [Workers -> BOOLEAN] /\ DOMAIN thread = Workers
  BY <1>1 DEF StartThread, IInv, WorkerTypeOK
<1>4. Serving(w)' /\ \A i \in Workers \ {w} : SameServing(i)
  BY <1>3 DEF Serving, SameServing, Absent
<1> QED
  BY <1>1, <1>2, <1>4 DEF WorkersSound, TasksFiled

LEMMA StopEffect ==
  ASSUME WorkersSound, NEW w \in Workers, Stop(w)
  PROVE  /\ WorkersSound' /\ futures' = futures
         /\ \A i \in Workers \ {w} : SameServing(i)
<1>1. IInv /\ IInv'
  BY UsePreserves DEF WorkersSound, Use
<1>2. Jobs' = Jobs /\ futures' = futures
  BY <1>1, StopSimulates DEF E!Close, Jobs
<1>3. /\ wantStop_' = [wantStop_ EXCEPT ![w] = TRUE]
      /\ thread' = [thread EXCEPT ![w] = IF @ = "wait" THEN "loop" ELSE @]
      /\ wantStop_ \in [Workers -> BOOLEAN] /\ DOMAIN thread = Workers
  BY <1>1 DEF Stop, Notify, IInv, WorkerTypeOK
<1>4. \A i \in Workers \ {w} : SameServing(i)
  BY <1>3 DEF Serving, SameServing, Absent
<1> QED
  BY <1>1, <1>2, <1>4 DEF WorkersSound, TasksFiled

LEMMA AddEffect ==
  ASSUME WorkersSound, NEW w \in Workers, NEW t \in Tasks, t[2] = w,
         futures[t] # "pending", thread[w] # "none", Add(w, t)
  PROVE  /\ WorkersSound'
         /\ \A u \in Tasks : u # t => futures'[u] = futures[u]
         /\ \A i \in Workers : SameServing(i)
<1>1. IInv /\ IInv'
  BY AddPreserves DEF WorkersSound
<1>2. /\ \A i \in Workers : Jobs[i] \in Seq(Tasks)
      /\ DOMAIN futures = Tasks /\ DOMAIN Jobs = Workers
  BY <1>1, JobsTyped DEF IInv, WorkerTypeOK, Jobs
<1>5. \A i \in Workers : SameServing(i)
  BY <1>1 DEF Add, Notify, SameServing, Serving, Absent, IInv, WorkerTypeOK
<1>3. CASE E!Accept(w, t)
  <2>1. /\ Jobs' = [Jobs EXCEPT ![w] = Append(@, t)]
        /\ futures' = [futures EXCEPT ![t] = "pending"]
    BY <1>3 DEF E!Accept, Jobs
  <2>2. t \notin Range(Jobs[w]) /\ IsInjective(Jobs[w])
    BY DEF WorkersSound, TasksFiled
  <2>3. /\ IsInjective(Append(Jobs[w], t))
        /\ Range(Append(Jobs[w], t)) = Range(Jobs[w]) \cup {t}
    BY <1>2, <2>2, AppendAdds
  <2>4. ASSUME NEW i \in Workers
        PROVE  /\ IsInjective(Jobs'[i])
               /\ \A u \in Tasks :
                    u \in Range(Jobs'[i]) <=> u[2] = i /\ futures'[u] = "pending"
    <3>1. CASE i = w
      BY <1>2, <2>1, <2>3, <3>1 DEF WorkersSound, TasksFiled
    <3>2. CASE i # w
      BY <1>2, <2>1, <3>2 DEF WorkersSound, TasksFiled
    <3> QED
      BY <3>1, <3>2
  <2>5. TasksFiled'
    BY <2>4 DEF TasksFiled
  <2>6. \A u \in Tasks : u # t => futures'[u] = futures[u]
    BY <1>2, <2>1
  <2> QED
    BY <1>1, <1>5, <2>5, <2>6 DEF WorkersSound
<1>4. CASE E!Refuse(w, t)
  <2>1. Jobs' = Jobs /\ futures' = [futures EXCEPT ![t] = "not run"]
    BY <1>4 DEF E!Refuse, Jobs
  <2>3. \A u \in Tasks : futures'[u] = "pending" <=> futures[u] = "pending"
    BY <1>2, <2>1
  <2>2. TasksFiled'
    <3>1. TasksFiled
      BY DEF WorkersSound
    <3> QED
      BY <2>1, <2>3, <3>1, Zenon DEF TasksFiled
  <2> QED
    BY <1>1, <1>2, <1>5, <2>1, <2>2 DEF WorkersSound
<1> QED
  BY <1>1, <1>3, <1>4, AddSimulates

LEMMA ForgetEffect ==
  ASSUME WorkersSound, NEW ts \in SUBSET {t \in Tasks : futures[t] # "pending"},
         Forget(ts)
  PROVE  /\ WorkersSound'
         /\ \A u \in Tasks : futures'[u] = "pending" => futures[u] = "pending"
         /\ \A i \in Workers : SameServing(i)
<1>1. IInv /\ IInv'
  BY ForgetPreserves DEF WorkersSound
<1>2. Jobs' = Jobs
  BY ForgetSimulates DEF E!Forget, Jobs
<1>3. \A u \in Tasks : futures'[u] = "pending" <=> futures[u] = "pending"
  BY DEF Forget
<1>4. \A i \in Workers : SameServing(i)
  BY DEF Forget, SameServing, Serving, Absent
<1> QED
  BY <1>1, <1>2, <1>3, <1>4 DEF WorkersSound, TasksFiled

\* The thread answers its first job.
LEMMA PerformEffect ==
  ASSUME WorkersSound, NEW w \in Workers, NEW r \in Outcomes,
         RunTask(w, r) \/ Flush(w, r)
  PROVE  /\ WorkersSound'
         /\ \A u \in Tasks : futures'[u] = "pending" => futures[u] = "pending"
         /\ \A i \in Workers : SameServing(i)
<1>1. IInv /\ IInv'
  BY ThreadPreserves DEF WorkersSound
<1>2. /\ \A i \in Workers : Jobs[i] \in Seq(Tasks)
      /\ DOMAIN futures = Tasks /\ DOMAIN Jobs = Workers
  BY <1>1, JobsTyped DEF IInv, WorkerTypeOK, Jobs
<1>3. E!Execute(w)
  BY <1>1, ThreadSimulates
<1>4. /\ Jobs[w] # <<>> /\ Jobs' = [Jobs EXCEPT ![w] = Tail(@)]
      /\ \E o \in {"done", "thrown"} :
           futures' = [futures EXCEPT ![Head(Jobs[w])] = o]
  BY <1>3 DEF E!Execute, E!Outcomes, Jobs
<1>5. IsInjective(Jobs[w])
  BY DEF WorkersSound, TasksFiled
<1>6. /\ Head(Jobs[w]) \in Range(Jobs[w]) /\ IsInjective(Tail(Jobs[w]))
      /\ Range(Tail(Jobs[w])) = Range(Jobs[w]) \ {Head(Jobs[w])}
  BY <1>2, <1>4, <1>5, TailTakes
<1> DEFINE h == Head(Jobs[w])
<1>7. h \in Tasks /\ h[2] = w /\ futures[h] = "pending"
  <2>1. h \in Tasks
    BY <1>2, <1>6, RangeBySequence
  <2> QED
    BY <1>6, <2>1 DEF WorkersSound, TasksFiled
<1>8. /\ futures'[h] # "pending"
      /\ \A u \in Tasks : u # h => futures'[u] = futures[u]
  BY <1>2, <1>4, <1>7
<1>9. ASSUME NEW i \in Workers
      PROVE  /\ IsInjective(Jobs'[i])
             /\ \A u \in Tasks :
                  u \in Range(Jobs'[i]) <=> u[2] = i /\ futures'[u] = "pending"
  <2>1. CASE i = w
    <3>1. Jobs'[i] = Tail(Jobs[w])
      BY <1>2, <1>4, <2>1
    <3> QED
      BY <1>6, <1>7, <1>8, <2>1, <3>1 DEF WorkersSound, TasksFiled
  <2>2. CASE i # w
    <3>1. Jobs'[i] = Jobs[i]
      BY <1>2, <1>4, <2>2
    <3> HIDE DEF h
    <3> QED
      BY <1>7, <1>8, <2>2, <3>1 DEF WorkersSound, TasksFiled
  <2> QED
    BY <2>1, <2>2
<1>10. TasksFiled'
  BY <1>9 DEF TasksFiled
<1>11. \A i \in Workers : SameServing(i)
  BY <1>1 DEF RunTask, Flush, Goto, SameServing, Serving, Absent, IInv, WorkerTypeOK
<1>12. \A u \in Tasks : futures'[u] = "pending" => futures[u] = "pending"
  BY <1>8
<1> QED
  BY <1>1, <1>10, <1>11, <1>12 DEF WorkersSound

\* What the thread does besides: it may be gone, once it was told to stop.
LEMMA LoopEffect ==
  ASSUME WorkersSound, NEW w \in Workers, Loop(w) \/ SpuriousWakeup(w)
  PROVE  /\ WorkersSound' /\ futures' = futures
         /\ \A i \in Workers : /\ Serving(i) => Serving(i)'
                               /\ Absent(i) => Absent(i)'
<1>1. IInv /\ IInv'
  BY ThreadPreserves DEF WorkersSound
<1>2. Jobs' = Jobs /\ futures' = futures
  BY <1>1, ThreadSimulates DEF E!vars, Jobs
<1>3. \A i \in Workers : Serving(i) => Serving(i)'
  <2>1. Accepting' = Accepting
    BY <1>1, ThreadSimulates DEF E!vars, Accepting
  <2> QED
    BY <2>1 DEF Accepting, Serving, Absent
<1>4. \A i \in Workers : Absent(i) => Absent(i)'
  BY <1>1 DEF Loop, Wait, TakeTask, LeaveLoop, Exit, SpuriousWakeup, Goto, Absent,
              IInv, WorkerTypeOK
<1> QED
  BY <1>1, <1>2, <1>3, <1>4 DEF WorkersSound, TasksFiled
-----------------------------------------------------------------------------
(* Who waits for which task, and which threads are there                   *)

\* Whether caller c, or the workers it is about to end, holds its task at p.
AwaitedAt(c, p) ==
  \/ /\ step[c] = "submit" \/ (kind = "split" /\ step[c] \in Building)
     /\ p < call[c].at
  \/ /\ step[c] = "gather" \/ (kind = "split" /\ step[c] \in {"stop", "join"})
     /\ p >= call[c].at

Wanted(t) ==
  IF t[3] = "start" THEN step[t[1]] = "started" /\ Worker(t[1]) = t[2]
  ELSE \E p \in 1..Count : indices_[p] = t[2] /\ AwaitedAt(t[1], p)

\* A task that is not answered belongs to a call that is under way.
PendingWanted == \A t \in Tasks : futures[t] = "pending" => Wanted(t)

\* Whether the call of c makes threads or ends them.
Changing(c) == step[c] # "idle" /\ (kind = "split" \/ call[c].op \notin Runs)

\* Whether position p of the collection has its thread, when no caller but c
\* changes that.
Stands(c, p) ==
  /\ kind = "split" => step[c] \notin {"idle", "inline", "finish"}
  /\ kind = "split" /\ step[c] = "construct" => p < call[c].at
  /\ kind = "split" /\ step[c] \in {"first", "started", "submit"} => p <= call[c].at
  /\ kind # "split" /\ step[c] = "construct" => p # call[c].at
  /\ call[c].op = "removeIndex" /\ step[c] \in {"join", "erase"} => p # call[c].at
  /\ call[c].op # "removeIndex" /\ step[c] = "stop" => p >= call[c].at
  /\ call[c].op # "removeIndex" /\ step[c] = "join" => p > call[c].at
  /\ call[c].op = "destroy" => step[c] # "erase"

\* The worker that c has told to stop is neither serving nor surely gone.
ThreadAt(c, p) ==
  /\ Stands(c, p) => Serving(indices_[p])
  /\ ~Stands(c, p) /\ ~(step[c] = "join" /\ p = call[c].at) => Absent(indices_[p])

ThreadsFollow ==
  /\ \A i \in Workers \ Range(indices_) : Absent(i)
  /\ ~isThreaded_ => \A i \in Workers : Absent(i)
  /\ isThreaded_ =>
       \A c \in Callers :
         (\A d \in Callers \ {c} : ~Changing(d)) =>
           \A p \in 1..Count : ThreadAt(c, p)

\* While c is in a call that is more than a search, or may begin one, no other
\* caller makes or ends threads.
LEMMA OthersStill ==
  ASSUME Control, NEW c \in Callers,
         \/ step[c] # "idle"
         \/ AllIdle
         \/ OthersSearch /\ kind # "split"
  PROVE  \A d \in Callers \ {c} : ~Changing(d)
BY DEF Control, Alone, CallFits, OthersSearch, AllIdle, Changing, Runs

\* The steps of one caller leave what the others wait for.
LEMMA WantedAfter ==
  ASSUME PendingWanted, NEW c \in Callers, UNCHANGED <<kind, indices_>>,
         \A d \in Callers \ {c} : step'[d] = step[d] /\ call'[d] = call[d],
         \A t \in Tasks : futures'[t] = "pending" =>
           \/ t[1] # c /\ futures[t] = "pending"
           \/ t[1] = c /\ Wanted(t)'
  PROVE  PendingWanted'
<1> SUFFICES ASSUME NEW t \in Tasks, futures'[t] = "pending"
             PROVE  Wanted(t)'
  BY DEF PendingWanted
<1>1. CASE t[1] = c
  BY <1>1
<1>2. CASE t[1] # c
  <2>1. Wanted(t) /\ t[1] \in Callers \ {c}
    BY <1>2, ThreadedAssumption DEF PendingWanted
  <2> QED
    BY <2>1 DEF Wanted, AwaitedAt, Worker, Count
<1> QED
  BY <1>1, <1>2

\* It is enough to look at the threads from the side of the caller that steps.
LEMMA FollowAfter ==
  ASSUME Control, Control', NEW c \in Callers, UNCHANGED confVars,
         \A d \in Callers \ {c} : ~Changing(d),
         \A d \in Callers \ {c} : step'[d] = step[d] /\ call'[d] = call[d],
         \A i \in Workers \ Range(indices_') : Absent(i)',
         ~isThreaded_ => \A i \in Workers : Absent(i)',
         isThreaded_ => \A p \in 1..Count' : ThreadAt(c, p)'
  PROVE  ThreadsFollow'
<1>1. ASSUME isThreaded_, NEW e \in Callers, \A d \in Callers \ {e} : ~Changing(d)',
             NEW p \in 1..Count'
      PROVE  ThreadAt(e, p)'
  <2>1. CASE e = c
    BY <1>1, <2>1
  <2>2. CASE e # c
    <3>1. ~Changing(c)' /\ ~Changing(e)'
      BY <1>1, <2>2 DEF Changing, confVars
    <3>2. ThreadAt(c, p)'
      BY <1>1
    <3>3. CallFits(c)' /\ CallFits(e)'
      BY DEF Control
    <3>4. Stands(c, p)' <=> kind' # "split"
      BY <3>1, <3>3 DEF Changing, Stands, CallFits, Runs, Building
    <3>5. Stands(e, p)' <=> kind' # "split"
      BY <3>1, <3>3 DEF Changing, Stands, CallFits, Runs, Building
    <3>6. step'[c] # "join"
      BY <3>1, <3>3 DEF Changing, CallFits, Runs
    <3> QED
      BY <3>2, <3>4, <3>5, <3>6 DEF ThreadAt
  <2> QED
    BY <2>1, <2>2
<1> QED
  BY <1>1 DEF ThreadsFollow, confVars

-----------------------------------------------------------------------------
(* Tasks and threads through the steps of a call                           *)

Crew == WorkersSound /\ PendingWanted /\ ThreadsFollow

\* What every step of a caller in a call rests on.
LEMMA InCall ==
  ASSUME Control, Crew, NEW c \in Callers, step[c] \notin {"idle", "finish"}
  PROVE  /\ CallFits(c) /\ call[c].at \in 1..Count /\ Count \in Nat
         /\ Worker(c) \in Workers /\ Worker(c) = indices_[call[c].at]
         /\ \A p \in 1..Count : /\ indices_[p] \in Workers
                                /\ indices_[p] = Worker(c) => p = call[c].at
         /\ \A k \in {"start", "call"} :
              /\ Task(c, k) \in Tasks /\ Task(c, k)[1] = c
              /\ Task(c, k)[2] = Worker(c) /\ Task(c, k)[3] = k
         /\ \A d \in Callers \ {c} : ~Changing(d)
         /\ isThreaded_ => \A p \in 1..Count : ThreadAt(c, p)
         /\ \A i \in Workers \ Range(indices_) : Absent(i)
<1>1. /\ CallFits(c) /\ call[c].at \in 1..call[c].last /\ call[c].last \in 1..Count
      /\ Count \in Nat
  BY LenProperties DEF Control, Configured, CallFits, Count
<1>2. call[c].at \in 1..Count
  BY <1>1
<1>3. \A p \in 1..Count : indices_[p] \in Workers
  BY ElementOfSeq DEF Control, Configured, Count
<1>4. \A p \in 1..Count : indices_[p] = indices_[call[c].at] => p = call[c].at
  BY <1>2, RangeBySequence DEF Control, Configured, Count
<1>5. Tasks = Callers \X Workers \X {"start", "call"}
  BY ThreadedAssumption
<1>6. \A d \in Callers \ {c} : ~Changing(d)
  BY OthersStill
<1> QED
  BY <1>1, <1>2, <1>3, <1>4, <1>5, <1>6 DEF Worker, Task, Crew, ThreadsFollow

\* A task is what its three parts say.
LEMMA TaskParts ==
  ASSUME NEW t \in Tasks
  PROVE  /\ t[1] \in Callers /\ t[2] \in Workers /\ t[3] \in {"start", "call"}
         /\ t = <<t[1], t[2], t[3]>>
BY ThreadedAssumption

\* The other callers, and how the index is made, stay as they are.
LEMMA CallerFrame ==
  ASSUME Control, NEW c \in Callers, Caller(c)
  PROVE  /\ UNCHANGED confVars
         /\ \A d \in Callers \ {c} : step'[d] = step[d] /\ call'[d] = call[d]
<1>1. UNCHANGED confVars
  BY DEF Caller, Construct, AddFirst, Constructed, Submit, Inline, Gather,
         StopWorker, Join, Erase, Finish
<1>2. call = [d \in Callers |-> call[d]] /\ step \in [Callers -> Steps]
  BY DEF Control
<1>3. CASE Construct(c) \/ AddFirst(c) \/ Constructed(c) \/ StopWorker(c) \/ Erase(c)
  BY <1>1, <1>2, <1>3
     DEF Construct, AddFirst, Constructed, StopWorker, Erase, CallerGoto
<1>4. CASE Submit(c) \/ Inline(c) \/ Gather(c) \/ Join(c) \/ Finish(c)
  BY <1>1, <1>2, <1>4
     DEF Submit, Inline, Gather, Join, Finish, CallerGoto, Advance
<1> QED
  BY <1>3, <1>4 DEF Caller

LEMMA ConstructKeepsCrew ==
  ASSUME Control, Crew, NEW c \in Callers, Construct(c)
  PROVE  Crew'
<1>0. step[c] = "construct" /\ Caller(c)
  BY DEF Construct, Caller
<1>1. /\ UNCHANGED <<confVars, indices_, call>>
      /\ step'[c] = "first" /\ kind' = kind
  BY DEF Construct, CallerGoto, Control, dataVars, confVars
<1>2. Control'
  BY <1>0, CallerKeepsControl
<1>3. PICK w \in Workers : w = Worker(c) /\ StartThread(w)
  BY <1>0, InCall DEF Construct
<1>4. /\ WorkersSound' /\ futures' = futures /\ Serving(w)'
      /\ \A i \in Workers \ {w} : SameServing(i)
  BY <1>3, StartEffect DEF Crew
<1>5. PendingWanted'
  <2>1. ASSUME NEW t \in Tasks, futures[t] = "pending", t[1] = c
        PROVE  Wanted(t)'
    <3>1. Wanted(t)
      BY <2>1 DEF Crew, PendingWanted
    <3> QED
      BY <1>0, <1>1, <2>1, <3>1
         DEF Wanted, AwaitedAt, Building, Count, Worker
  <2> QED
    BY <1>0, <1>1, <1>4, <2>1, CallerFrame, WantedAfter DEF Crew
<1>6. ThreadsFollow'
  <2>1. isThreaded_ /\ w \in Range(indices_)
    BY <1>0, <1>3, InCall, RangeBySequence
       DEF CallFits, Building, Control, Configured, Count
  <2>2. ASSUME NEW p \in 1..Count
        PROVE  ThreadAt(c, p)'
    <3>1. CASE p = call[c].at
      <4>1. Stands(c, p)'
        BY <1>0, <1>1, <3>1, InCall DEF Stands
      <4>2. indices_[p] = w
        BY <1>0, <1>3, <3>1, InCall
      <4> QED
        BY <1>1, <1>4, <4>1, <4>2 DEF ThreadAt
    <3>2. CASE p # call[c].at
      <4>1. Stands(c, p)' <=> Stands(c, p)
        BY <1>0, <1>1, <3>2, InCall DEF Stands
      <4>2. SameServing(indices_[p]) /\ ThreadAt(c, p)
        BY <1>0, <1>3, <1>4, <2>1, <3>2, InCall
      <4> QED
        BY <1>0, <1>1, <4>1, <4>2 DEF ThreadAt, SameServing
    <3> QED
      BY <3>1, <3>2
  <2>3. \A i \in Workers \ Range(indices_') : Absent(i)'
    BY <1>0, <1>1, <1>4, <2>1, InCall DEF SameServing
  <2>4. Count' = Count
    BY <1>1 DEF Count
  <2> QED
    BY <1>0, <1>1, <1>2, <2>1, <2>2, <2>3, <2>4, InCall, CallerFrame, FollowAfter
<1> QED
  BY <1>4, <1>5, <1>6 DEF Crew

\* Steps that neither make a thread nor end one.
LEMMA FollowSame ==
  ASSUME Control, Control', Crew, NEW c \in Callers, step[c] # "idle", Caller(c),
         UNCHANGED indices_, step[c] # "join",
         \A i \in Workers : SameServing(i),
         isThreaded_ => \A p \in 1..Count :
           (Stands(c, p)' <=> Stands(c, p)) /\ ~(step'[c] = "join" /\ p = call'[c].at)
  PROVE  ThreadsFollow'
<1>1. \A d \in Callers \ {c} : ~Changing(d)
  BY OthersStill
<1>2. /\ UNCHANGED confVars
      /\ \A d \in Callers \ {c} : step'[d] = step[d] /\ call'[d] = call[d]
  BY CallerFrame
<1>3. ASSUME isThreaded_, NEW p \in 1..Count
      PROVE  ThreadAt(c, p)'
  <2>1. indices_[p] \in Workers
    BY ElementOfSeq DEF Control, Configured, Count
  <2>2. ThreadAt(c, p) /\ SameServing(indices_[p])
    BY <1>1, <1>3, <2>1 DEF Crew, ThreadsFollow
  <2>3. Stands(c, p)' <=> Stands(c, p)
    BY <1>3
  <2> QED
    BY <2>2, <2>3 DEF ThreadAt, SameServing
<1>4. \A i \in Workers \ Range(indices_') : Absent(i)'
  BY DEF Crew, ThreadsFollow, SameServing
<1>5. ~isThreaded_ => \A i \in Workers : Absent(i)'
  BY DEF Crew, ThreadsFollow, SameServing
<1>6. Count' = Count
  BY DEF Count
<1> QED
  BY <1>1, <1>2, <1>3, <1>4, <1>5, <1>6, FollowAfter

\* The worker a caller gives a task to has been constructed.
LEMMA WorkerThere ==
  ASSUME Control, Crew, NEW c \in Callers, step[c] \in {"first", "submit"}
  PROVE  Serving(Worker(c)) /\ thread[Worker(c)] # "none"
<1>1. isThreaded_ /\ Stands(c, call[c].at)
  BY InCall DEF Stands, CallFits, Building
<1>2. Serving(Worker(c))
  BY <1>1, InCall DEF ThreadAt
<1> QED
  BY <1>2 DEF Serving, Absent

\* It has answered the last task of the kind, or was never given one.
LEMMA LastAnswered ==
  ASSUME Control, Crew, NEW c \in Callers
  PROVE  /\ step[c] = "first" => futures[Task(c, "start")] # "pending"
         /\ step[c] = "submit" => futures[Task(c, "call")] # "pending"
<1>1. ASSUME step[c] = "first"
      PROVE  futures[Task(c, "start")] # "pending"
  <2>1. Task(c, "start") \in Tasks /\ ~Wanted(Task(c, "start"))
    BY <1>1, InCall DEF Wanted
  <2> QED
    BY <2>1 DEF Crew, PendingWanted
<1>2. ASSUME step[c] = "submit"
      PROVE  futures[Task(c, "call")] # "pending"
  <2>1. ~ \E p \in 1..Count : indices_[p] = Worker(c) /\ AwaitedAt(c, p)
    BY <1>2, InCall DEF AwaitedAt, Building
  <2>2. Task(c, "call") \in Tasks /\ ~Wanted(Task(c, "call"))
    BY <1>2, <2>1, InCall DEF Wanted
  <2> QED
    BY <2>2 DEF Crew, PendingWanted
<1> QED
  BY <1>1, <1>2

LEMMA AddFirstKeepsCrew ==
  ASSUME Control, Crew, NEW c \in Callers, AddFirst(c)
  PROVE  Crew'
<1>0. step[c] = "first" /\ Caller(c)
  BY DEF AddFirst, Caller
<1>1. /\ Add(Worker(c), Task(c, "start")) /\ UNCHANGED <<confVars, indices_, call>>
      /\ step'[c] = "started" /\ kind' = kind
  BY DEF AddFirst, CallerGoto, Control, dataVars, confVars
<1>2. Control'
  BY <1>0, CallerKeepsControl
<1>3. futures[Task(c, "start")] # "pending"
  BY <1>0, LastAnswered
<1>4. /\ WorkersSound'
      /\ \A u \in Tasks : u # Task(c, "start") => futures'[u] = futures[u]
      /\ \A i \in Workers : SameServing(i)
  <2>1. PICK w \in Workers, t \in Tasks : w = Worker(c) /\ t = Task(c, "start")
    BY <1>0, InCall
  <2>2. t[2] = w /\ futures[t] # "pending" /\ thread[w] # "none" /\ Add(w, t)
    BY <1>0, <1>1, <1>3, <2>1, InCall, WorkerThere
  <2>3. /\ WorkersSound'
        /\ \A u \in Tasks : u # t => futures'[u] = futures[u]
        /\ \A i \in Workers : SameServing(i)
    BY <2>2, AddEffect DEF Crew
  <2> QED
    BY <2>1, <2>3
<1>5. PendingWanted'
  <2>1. ASSUME NEW t \in Tasks, futures'[t] = "pending", t[1] = c
        PROVE  Wanted(t)'
    <3>1. CASE t = Task(c, "start")
      BY <1>0, <1>1, <3>1, InCall DEF Wanted, Worker
    <3>2. CASE t # Task(c, "start")
      <4>1. Wanted(t)
        BY <1>4, <2>1, <3>2 DEF Crew, PendingWanted
      <4> QED
        BY <1>0, <1>1, <2>1, <4>1 DEF Wanted, AwaitedAt, Building, Count
    <3> QED
      BY <3>1, <3>2
  <2>2. \A t \in Tasks : t[1] # c => t # Task(c, "start")
    BY <1>0, InCall
  <2> QED
    BY <1>0, <1>1, <1>4, <2>1, <2>2, CallerFrame, WantedAfter DEF Crew
<1>6. ThreadsFollow'
  <2>1. \A p \in 1..Count :
          (Stands(c, p)' <=> Stands(c, p)) /\ ~(step'[c] = "join" /\ p = call'[c].at)
    BY <1>0, <1>1 DEF Stands
  <2> QED
    BY <1>0, <1>1, <1>2, <1>4, <2>1, FollowSame
<1> QED
  BY <1>4, <1>5, <1>6 DEF Crew

LEMMA ConstructedKeepsCrew ==
  ASSUME Control, Crew, NEW c \in Callers, Constructed(c)
  PROVE  Crew'
<1>0. step[c] = "started" /\ Caller(c)
  BY DEF Constructed, Caller
<1>1. /\ futures[Task(c, "start")] # "pending"
      /\ UNCHANGED <<workerVars, confVars, indices_, call>>
      /\ step'[c] = (IF kind = "split" THEN "submit" ELSE "finish") /\ kind' = kind
  BY DEF Constructed, CallerGoto, Control, dataVars, confVars
<1>2. Control'
  BY <1>0, CallerKeepsControl
<1>4. WorkersSound' /\ futures' = futures /\ \A i \in Workers : SameServing(i)
  BY <1>1 DEF Crew, WorkersSound, TasksFiled, IInv, WorkerTypeOK, StateFollowsThread,
              SameServing, Serving, Absent, Jobs, workerVars
<1>5. PendingWanted'
  <2>1. ASSUME NEW t \in Tasks, futures[t] = "pending", t[1] = c
        PROVE  Wanted(t)'
    <3>1. Wanted(t)
      BY <2>1 DEF Crew, PendingWanted
    <3>2. t[3] # "start"
      <4>1. t[3] = "start" => t[2] = Worker(c)
        BY <2>1, <3>1 DEF Wanted
      <4>2. t[3] = "start" => t = Task(c, "start")
        BY <2>1, <4>1, TaskParts DEF Task
      <4> QED
        BY <1>1, <2>1, <4>2
    <3> QED
      BY <1>0, <1>1, <2>1, <3>1, <3>2 DEF Wanted, AwaitedAt, Building, Count
  <2> QED
    BY <1>0, <1>1, <1>4, <2>1, CallerFrame, WantedAfter DEF Crew
<1>6. ThreadsFollow'
  <2>1. \A p \in 1..Count :
          (Stands(c, p)' <=> Stands(c, p)) /\ ~(step'[c] = "join" /\ p = call'[c].at)
    BY <1>0, <1>1 DEF Stands
  <2> QED
    BY <1>0, <1>1, <1>2, <1>4, <2>1, FollowSame
<1> QED
  BY <1>4, <1>5, <1>6 DEF Crew

LEMMA SubmitKeepsCrew ==
  ASSUME Control, Crew, NEW c \in Callers, Submit(c)
  PROVE  Crew'
<1>0. step[c] = "submit" /\ Caller(c)
  BY DEF Submit, Caller
<1>1. /\ Add(Worker(c), Task(c, "call")) /\ UNCHANGED <<confVars, indices_, kind>>
      /\ Advance(c, IF kind = "split" THEN "construct" ELSE "submit", "gather")
  BY DEF Submit, dataVars, confVars
<1>2. Control'
  BY <1>0, CallerKeepsControl
<1>3. /\ step'[c] = IF call[c].at < call[c].last
                    THEN IF kind = "split" THEN "construct" ELSE "submit"
                    ELSE "gather"
      /\ call'[c].at = IF call[c].at < call[c].last THEN call[c].at + 1 ELSE 1
      /\ call'[c].op = call[c].op
      /\ call[c].last = Count /\ call[c].op \in Runs /\ isThreaded_
  <2>1. call = [d \in Callers |-> call[d]] /\ IsCall(call[c])
    BY DEF Control
  <2>2. call[c].last = Count /\ call[c].op \in Runs /\ isThreaded_
    BY <1>0, InCall DEF CallFits, Whole, Runs
  <2>3. CASE call[c].at < call[c].last
    BY <1>1, <2>1, <2>2, <2>3 DEF Advance, CallerGoto, Control, IsCall
  <2>4. CASE ~(call[c].at < call[c].last)
    BY <1>1, <2>1, <2>2, <2>4 DEF Advance, CallerGoto, Control, IsCall
  <2> QED
    BY <2>3, <2>4
<1>4. futures[Task(c, "call")] # "pending"
  BY <1>0, LastAnswered
<1>5. /\ WorkersSound'
      /\ \A u \in Tasks : u # Task(c, "call") => futures'[u] = futures[u]
      /\ \A i \in Workers : SameServing(i)
  <2>1. PICK w \in Workers, t \in Tasks : w = Worker(c) /\ t = Task(c, "call")
    BY <1>0, InCall
  <2>2. t[2] = w /\ futures[t] # "pending" /\ thread[w] # "none" /\ Add(w, t)
    BY <1>0, <1>1, <1>4, <2>1, InCall, WorkerThere
  <2>3. /\ WorkersSound'
        /\ \A u \in Tasks : u # t => futures'[u] = futures[u]
        /\ \A i \in Workers : SameServing(i)
    BY <2>2, AddEffect DEF Crew
  <2> QED
    BY <2>1, <2>3
<1>6. \A p \in 1..Count : p = call[c].at \/ AwaitedAt(c, p) => AwaitedAt(c, p)'
  BY <1>0, <1>1, <1>3, InCall DEF AwaitedAt, Building
<1>7. PendingWanted'
  <2>1. ASSUME NEW t \in Tasks, futures'[t] = "pending", t[1] = c
        PROVE  Wanted(t)'
    <3>0. Count' = Count
      BY <1>1 DEF Count
    <3>1. CASE t = Task(c, "call")
      <4>1. t[3] # "start" /\ t[2] = indices_[call[c].at]
        BY <1>0, <3>1, InCall
      <4>2. PICK p \in 1..Count : p = call[c].at
        BY <1>0, InCall
      <4>3. AwaitedAt(c, p)' /\ indices_'[p] = t[2]
        BY <1>1, <1>6, <4>1, <4>2
      <4> QED
        BY <2>1, <3>0, <4>1, <4>2, <4>3 DEF Wanted
    <3>2. CASE t # Task(c, "call")
      <4>1. Wanted(t)
        BY <1>5, <2>1, <3>2 DEF Crew, PendingWanted
      <4> QED
        BY <1>0, <1>1, <1>6, <2>1, <3>0, <4>1 DEF Wanted
    <3> QED
      BY <3>1, <3>2
  <2>2. \A t \in Tasks : t[1] # c => t # Task(c, "call")
    BY <1>0, InCall
  <2> QED
    BY <1>0, <1>1, <1>5, <2>1, <2>2, CallerFrame, WantedAfter DEF Crew
<1>8. ThreadsFollow'
  <2>1. ASSUME NEW p \in 1..Count
        PROVE  (Stands(c, p)' <=> Stands(c, p)) /\ step'[c] # "join"
    BY <1>0, <1>1, <1>3, InCall DEF Stands, Runs
  <2> QED
    BY <1>0, <1>1, <1>2, <1>5, <2>1, FollowSame
<1> QED
  BY <1>5, <1>7, <1>8 DEF Crew

\* Steps that have nothing to do with the workers.
LEMMA SameWorkers ==
  ASSUME WorkersSound, UNCHANGED workerVars
  PROVE  WorkersSound' /\ futures' = futures /\ \A i \in Workers : SameServing(i)
BY DEF WorkersSound, TasksFiled, IInv, WorkerTypeOK, StateFollowsThread,
       SameServing, Serving, Absent, Jobs, workerVars

LEMMA InlineKeepsCrew ==
  ASSUME Control, Crew, NEW c \in Callers, Inline(c)
  PROVE  Crew'
<1>0. step[c] = "inline" /\ Caller(c) /\ UNCHANGED <<workerVars, confVars, indices_>>
  BY DEF Inline, Caller
<1>1. Control'
  BY <1>0, CallerKeepsControl
<1>2. ~isThreaded_
  BY <1>0, InCall DEF CallFits
<1>3. WorkersSound' /\ futures' = futures /\ \A i \in Workers : SameServing(i)
  BY <1>0, SameWorkers DEF Crew
<1>4. PendingWanted'
  <2>1. \A t \in Tasks : futures[t] = "pending" => t[1] # c
    BY <1>0 DEF Crew, PendingWanted, Wanted, AwaitedAt, Building
  <2> QED
    BY <1>0, <1>3, <2>1, CallerFrame, WantedAfter DEF Crew, confVars
<1>5. ThreadsFollow'
  BY <1>0, <1>1, <1>2, <1>3, FollowSame
<1> QED
  BY <1>3, <1>4, <1>5 DEF Crew

LEMMA GatherKeepsCrew ==
  ASSUME Control, Crew, NEW c \in Callers, Gather(c)
  PROVE  Crew'
<1>0. /\ step[c] = "gather" /\ Caller(c)
      /\ UNCHANGED <<workerVars, confVars, indices_, kind>>
      /\ futures[Task(c, "call")] # "pending"
  BY DEF Gather, Caller, dataVars, confVars
<1>1. Control'
  BY <1>0, CallerKeepsControl
<1>2. /\ call[c].last = Count /\ call[c].op \in Runs
      /\ kind = "split" => call[c].op = "search"
  BY <1>0, InCall DEF CallFits, Whole, Runs
<1>3. /\ call'[c].op = call[c].op
      /\ \/ step'[c] = "gather" /\ call'[c].at = call[c].at + 1
         \/ kind = "split" /\ step'[c] = "stop" /\ call'[c].at = 1
         \/ kind # "split" /\ step'[c] = "finish" /\ call[c].at = Count
  <2>1. PICK s \in {"gather", "stop", "finish"} : \E r :
          /\ step' = [step EXCEPT ![c] = s] /\ call' = [call EXCEPT ![c] = r]
          /\ IsCall(r) /\ r.op = call[c].op /\ r.last = call[c].last
          /\ \/ s = "gather" /\ r.at = call[c].at + 1 /\ call[c].at # call[c].last
             \/ kind = "split" /\ s = "stop" /\ r.at = 1
             \/ kind # "split" /\ s = "finish" /\ r.at = 1
                  /\ call[c].at = call[c].last
    BY GatherSteps
  <2> QED
    BY <1>2, <2>1 DEF Control
<1>4. WorkersSound' /\ futures' = futures /\ \A i \in Workers : SameServing(i)
  BY <1>0, SameWorkers DEF Crew
<1>5. PendingWanted'
  <2>1. ASSUME NEW t \in Tasks, futures[t] = "pending", t[1] = c
        PROVE  Wanted(t)'
    <3>1. t[3] # "start" /\ \E p \in 1..Count : indices_[p] = t[2] /\ AwaitedAt(c, p)
      BY <1>0, <2>1 DEF Crew, PendingWanted, Wanted
    <3>2. PICK p \in 1..Count : indices_[p] = t[2] /\ AwaitedAt(c, p)
      BY <3>1
    <3>3. p # call[c].at
      <4>1. p = call[c].at => t = Task(c, "call")
        <5>1. t = <<t[1], t[2], t[3]>> /\ t[3] = "call"
          BY <3>1, TaskParts
        <5> QED
          BY <2>1, <3>2, <5>1 DEF Task, Worker
      <4> QED
        BY <1>0, <2>1, <4>1
    <3>4. AwaitedAt(c, p)'
      BY <1>0, <1>3, <3>2, <3>3, InCall DEF AwaitedAt, Building
    <3>5. Count' = Count
      BY <1>0 DEF Count
    <3> QED
      BY <1>0, <2>1, <3>1, <3>2, <3>4, <3>5 DEF Wanted
  <2> QED
    BY <1>0, <1>4, <2>1, CallerFrame, WantedAfter DEF Crew
<1>6. ThreadsFollow'
  <2>1. ASSUME NEW p \in 1..Count
        PROVE  (Stands(c, p)' <=> Stands(c, p)) /\ step'[c] # "join"
    BY <1>0, <1>2, <1>3, InCall DEF Stands, Runs
  <2> QED
    BY <1>0, <1>1, <1>4, <2>1, FollowSame
<1> QED
  BY <1>4, <1>5, <1>6 DEF Crew

LEMMA StopKeepsCrew ==
  ASSUME Control, Crew, NEW c \in Callers, StopWorker(c)
  PROVE  Crew'
<1>0. step[c] = "stop" /\ Caller(c)
  BY DEF StopWorker, Caller
<1>1. /\ UNCHANGED <<confVars, indices_, call>>
      /\ step'[c] = "join" /\ kind' = kind
  BY DEF StopWorker, CallerGoto, Control, dataVars, confVars
<1>2. Control'
  BY <1>0, CallerKeepsControl
<1>3. PICK w \in Workers : w = Worker(c) /\ Stop(w)
  BY <1>0, InCall DEF StopWorker
<1>4. /\ WorkersSound' /\ futures' = futures
      /\ \A i \in Workers \ {w} : SameServing(i)
  BY <1>3, StopEffect DEF Crew
<1>5. PendingWanted'
  <2>1. ASSUME NEW t \in Tasks, futures[t] = "pending", t[1] = c
        PROVE  Wanted(t)'
    <3>1. Wanted(t)
      BY <2>1 DEF Crew, PendingWanted
    <3> QED
      BY <1>0, <1>1, <2>1, <3>1
         DEF Wanted, AwaitedAt, Building, Count, Worker
  <2> QED
    BY <1>0, <1>1, <1>4, <2>1, CallerFrame, WantedAfter DEF Crew
<1>6. ThreadsFollow'
  <2>1. isThreaded_ /\ w \in Range(indices_)
    BY <1>0, <1>3, InCall, RangeBySequence
       DEF CallFits, Control, Configured, Count
  <2>2. ASSUME NEW p \in 1..Count
        PROVE  ThreadAt(c, p)'
    <3>1. CASE p = call[c].at
      BY <1>0, <1>1, <3>1, InCall DEF ThreadAt, Stands
    <3>2. CASE p # call[c].at
      <4>1. Stands(c, p)' <=> Stands(c, p)
        BY <1>0, <1>1, <3>2, InCall DEF Stands
      <4>2. SameServing(indices_[p]) /\ ThreadAt(c, p)
        BY <1>0, <1>3, <1>4, <2>1, <3>2, InCall
      <4> QED
        BY <1>0, <1>1, <4>1, <4>2 DEF ThreadAt, SameServing
    <3> QED
      BY <3>1, <3>2
  <2>3. \A i \in Workers \ Range(indices_') : Absent(i)'
    BY <1>0, <1>1, <1>4, <2>1, InCall DEF SameServing
  <2>4. Count' = Count
    BY <1>1 DEF Count
  <2> QED
    BY <1>0, <1>1, <1>2, <2>1, <2>2, <2>3, <2>4, InCall, CallerFrame, FollowAfter
<1> QED
  BY <1>4, <1>5, <1>6 DEF Crew

LEMMA JoinKeepsCrew ==
  ASSUME Control, Crew, NEW c \in Callers, Join(c)
  PROVE  Crew'
<1>0. /\ step[c] = "join" /\ Caller(c)
      /\ UNCHANGED <<workerVars, confVars, indices_, kind>>
      /\ Absent(Worker(c))
  BY DEF Join, Caller, dataVars, confVars
<1>1. Control'
  BY <1>0, CallerKeepsControl
<1>2. /\ isThreaded_ /\ (kind = "split" \/ call[c].op \in {"removeIndex", "destroy"})
      /\ call[c].op \notin {"removeIndex", "addIndex"} => call[c].last = Count
      /\ kind = "split" => call[c].op = "search"
  BY <1>0, InCall DEF CallFits, Whole, Runs, Ops
<1>3. /\ call'[c].op = call[c].op
      /\ IF call[c].op = "removeIndex"
         THEN step'[c] = "erase" /\ call'[c].at = call[c].at
         ELSE IF call[c].at < Count
         THEN step'[c] = "stop" /\ call'[c].at = call[c].at + 1
         ELSE step'[c] = IF kind = "split" THEN "finish" ELSE "erase"
  <2>1. call = [d \in Callers |-> call[d]] /\ IsCall(call[c])
    BY DEF Control
  <2>2. CASE call[c].op = "removeIndex"
    BY <2>1, <2>2 DEF Join, CallerGoto, Control
  <2>3. CASE call[c].op # "removeIndex" /\ call[c].at < Count
    BY <1>2, <2>1, <2>3 DEF Join, Advance, CallerGoto, Control, IsCall
  <2>4. CASE call[c].op # "removeIndex" /\ ~(call[c].at < Count)
    BY <1>2, <2>1, <2>4 DEF Join, Advance, CallerGoto, Control, IsCall
  <2> QED
    BY <2>2, <2>3, <2>4
<1>4. WorkersSound' /\ futures' = futures /\ \A i \in Workers : SameServing(i)
  BY <1>0, SameWorkers DEF Crew
<1>5. PendingWanted'
  <2>1. ASSUME NEW t \in Tasks, futures[t] = "pending", t[1] = c
        PROVE  Wanted(t)'
    <3>1. t[3] # "start" /\ \E p \in 1..Count : indices_[p] = t[2] /\ AwaitedAt(c, p)
      BY <1>0, <2>1 DEF Crew, PendingWanted, Wanted
    <3>2. PICK p \in 1..Count : indices_[p] = t[2] /\ AwaitedAt(c, p)
      BY <3>1
    <3>3. t[2] # Worker(c)
      <4>1. PICK w \in Workers : w = Worker(c)
        BY <1>0, InCall
      <4>2. Jobs[w] = <<>>
        BY <1>0, <4>1, AbsentIsEmpty DEF Crew, WorkersSound
      <4>3. t \notin Range(Jobs[w])
        BY <4>2 DEF Range
      <4> QED
        BY <2>1, <4>1, <4>3 DEF Crew, WorkersSound, TasksFiled
    <3>4. p # call[c].at
      BY <3>2, <3>3 DEF Worker
    <3>5. AwaitedAt(c, p)'
      BY <1>0, <1>2, <1>3, <3>2, <3>4, InCall DEF AwaitedAt, Building
    <3>6. Count' = Count
      BY <1>0 DEF Count
    <3> QED
      BY <1>0, <2>1, <3>1, <3>2, <3>5, <3>6 DEF Wanted
  <2> QED
    BY <1>0, <1>4, <2>1, CallerFrame, WantedAfter DEF Crew
<1>6. ThreadsFollow'
  <2>1. ASSUME NEW p \in 1..Count
        PROVE  ThreadAt(c, p)'
    <3>1. ThreadAt(c, p) /\ SameServing(indices_[p])
      BY <1>0, <1>2, <1>4, InCall
    <3>2. p = call[c].at => Absent(indices_[p]) /\ ~Stands(c, p)'
      BY <1>0, <1>2, <1>3, InCall DEF Stands
    <3>3. p # call[c].at => (Stands(c, p)' <=> Stands(c, p))
      BY <1>0, <1>2, <1>3, InCall DEF Stands
    <3>4. step'[c] # "join"
      BY <1>3
    <3>5. CASE p = call[c].at
      BY <1>0, <3>1, <3>2, <3>5 DEF ThreadAt, SameServing
    <3>6. CASE p # call[c].at
      BY <1>0, <3>1, <3>3, <3>4, <3>6 DEF ThreadAt, SameServing
    <3> QED
      BY <3>5, <3>6
  <2>2. \A i \in Workers \ Range(indices_') : Absent(i)'
    BY <1>0, <1>4, InCall DEF SameServing
  <2>3. Count' = Count
    BY <1>0 DEF Count
  <2> QED
    BY <1>0, <1>1, <1>2, <2>1, <2>2, <2>3, InCall, CallerFrame, FollowAfter
<1> QED
  BY <1>4, <1>5, <1>6 DEF Crew

LEMMA EraseKeepsCrew ==
  ASSUME Control, Crew, NEW c \in Callers, Erase(c)
  PROVE  Crew'
<1>0. /\ step[c] = "erase" /\ Caller(c)
      /\ UNCHANGED <<workerVars, confVars, call, kind>>
      /\ step'[c] = "finish"
      /\ indices_' = IF call[c].op = "destroy" THEN <<>>
                     ELSE RemoveAt(indices_, call[c].at)
  BY DEF Erase, Caller, CallerGoto, confVars, Control
<1>1. Control'
  BY <1>0, CallerKeepsControl
<1>2. /\ call[c].op \in {"removeIndex", "destroy"} /\ kind # "split"
  BY <1>0, InCall DEF CallFits
<1>3. WorkersSound' /\ futures' = futures /\ \A i \in Workers : SameServing(i)
  BY <1>0, SameWorkers DEF Crew
<1>4. PendingWanted'
  <2>1. \A d \in Callers \ {c} : step[d] = "idle"
    BY <1>0, <1>2 DEF Control, Alone
  <2>2. ASSUME NEW t \in Tasks, futures[t] = "pending"
        PROVE  FALSE
    <3>1. Wanted(t) /\ t[1] \in Callers
      BY <2>2, TaskParts DEF Crew, PendingWanted
    <3> QED
      BY <1>0, <1>2, <2>1, <3>1 DEF Wanted, AwaitedAt, Building
  <2> QED
    BY <1>3, <2>2 DEF PendingWanted
<1>5. ThreadsFollow'
  <2>0. /\ indices_ \in Seq(Workers) /\ IsInjective(indices_)
        /\ indices_' \in Seq(Workers) /\ call[c].at \in 1..Len(indices_)
    BY <1>0, <1>1, InCall DEF Control, Configured, Count
  <2>1. ASSUME isThreaded_, NEW i \in Range(indices_), i \notin Range(indices_')
        PROVE  Absent(i)
    <3>1. PICK p \in 1..Count : i = indices_[p]
      BY <2>0, <2>1, RangeBySequence DEF Count
    <3>2. ThreadAt(c, p)
      BY <1>0, <2>1, InCall
    <3>3. ~Stands(c, p)
      <4>1. CASE call[c].op = "destroy"
        BY <1>0, <4>1 DEF Stands
      <4>2. CASE call[c].op = "removeIndex"
        <5>1. Range(indices_') = Range(indices_) \ {indices_[call[c].at]}
          BY <1>0, <2>0, <4>2, RemoveLeaves
        <5>2. i = indices_[call[c].at]
          BY <2>1, <5>1
        <5>3. p = call[c].at
          <6>1. indices_[p] = Worker(c)
            BY <3>1, <5>2 DEF Worker
          <6> QED
            BY <1>0, <6>1, InCall
        <5> QED
          BY <1>0, <4>2, <5>3 DEF Stands
      <4> QED
        BY <1>2, <4>1, <4>2
    <3> QED
      BY <1>0, <3>1, <3>2, <3>3 DEF ThreadAt
  <2>2. ASSUME isThreaded_, NEW p \in 1..Count'
        PROVE  ThreadAt(c, p)'
    <3>1. indices_'[p] \in Range(indices_') /\ indices_'[p] \in Workers
      BY <2>0, RangeBySequence DEF Count
    <3>2. call[c].op = "removeIndex"
      BY <1>0, <1>2, <3>1 DEF Range
    <3>3. Range(indices_') = Range(indices_) \ {indices_[call[c].at]}
      BY <1>0, <2>0, <3>2, RemoveLeaves
    <3>4. PICK q \in 1..Count : indices_'[p] = indices_[q] /\ q # call[c].at
      BY <2>0, <3>1, <3>3, RangeBySequence DEF Count
    <3>5. ThreadAt(c, q) /\ Stands(c, q)
      BY <1>0, <1>2, <2>2, <3>2, <3>4, InCall DEF Stands
    <3>6. PICK i \in Workers : i = indices_[q]
      BY <3>1, <3>4
    <3>7. Serving(i)'
      BY <1>3, <3>5, <3>6 DEF ThreadAt, SameServing
    <3>8. Stands(c, p)'
      BY <1>0, <1>2 DEF Stands
    <3> QED
      BY <3>4, <3>6, <3>7, <3>8 DEF ThreadAt
  <2>3. ASSUME NEW i \in Workers \ Range(indices_')
        PROVE  Absent(i)'
    <3>1. Absent(i)
      BY <1>0, <2>1, <2>3, InCall DEF Crew, ThreadsFollow
    <3> QED
      BY <1>3, <3>1 DEF SameServing
  <2>4. ~isThreaded_ => \A i \in Workers : Absent(i)'
    BY <1>3 DEF Crew, ThreadsFollow, SameServing
  <2> QED
    BY <1>0, <1>1, <2>2, <2>3, <2>4, InCall, CallerFrame, FollowAfter
<1> QED
  BY <1>3, <1>4, <1>5 DEF Crew

\* A call that ends has waited for its tasks.
LEMMA NothingLeft ==
  ASSUME Crew, NEW c \in Callers, step[c] = "finish"
  PROVE  /\ \A t \in Tasks : futures[t] = "pending" => t[1] # c
         /\ {c} \X Workers \X {"start", "call"}
              \in SUBSET {t \in Tasks : futures[t] # "pending"}
<1>1. \A t \in Tasks : futures[t] = "pending" => t[1] # c
  BY DEF Crew, PendingWanted, Wanted, AwaitedAt, Building
<1>2. \A t \in {c} \X Workers \X {"start", "call"} : t[1] = c /\ t \in Tasks
  BY ThreadedAssumption
<1> QED
  BY <1>1, <1>2

LEMMA FinishKeepsCrew ==
  ASSUME Control, Crew, NEW c \in Callers, Finish(c)
  PROVE  Crew'
<1>0. /\ step[c] = "finish" /\ Caller(c)
      /\ UNCHANGED <<confVars, indices_, kind>>
      /\ step'[c] = "idle" /\ Forget({c} \X Workers \X {"start", "call"})
  BY DEF Finish, Caller, CallerGoto, confVars, Control
<1>1. Control'
  BY <1>0, CallerKeepsControl
<1>2. /\ \A t \in Tasks : futures[t] = "pending" => t[1] # c
      /\ {c} \X Workers \X {"start", "call"}
           \in SUBSET {t \in Tasks : futures[t] # "pending"}
  BY <1>0, NothingLeft
<1>3. /\ WorkersSound'
      /\ \A u \in Tasks : futures'[u] = "pending" => futures[u] = "pending"
      /\ \A i \in Workers : SameServing(i)
  BY <1>0, <1>2, ForgetEffect DEF Crew
<1>4. PendingWanted'
  BY <1>0, <1>2, <1>3, CallerFrame, WantedAfter DEF Crew
<1>5. ThreadsFollow'
  <2>1. ASSUME NEW p \in 1..Count
        PROVE  (Stands(c, p)' <=> Stands(c, p)) /\ step'[c] # "join"
    BY <1>0 DEF Stands
  <2> QED
    BY <1>0, <1>1, <1>3, <2>1, FollowSame
<1> QED
  BY <1>3, <1>4, <1>5 DEF Crew

LEMMA CallerKeepsCrew ==
  ASSUME Control, Crew, NEW c \in Callers, Caller(c)
  PROVE  Crew'
BY ConstructKeepsCrew, AddFirstKeepsCrew, ConstructedKeepsCrew, SubmitKeepsCrew,
   InlineKeepsCrew, GatherKeepsCrew, StopKeepsCrew, JoinKeepsCrew, EraseKeepsCrew,
   FinishKeepsCrew DEF Caller

LEMMA BeginKeepsCrew ==
  ASSUME Control, Crew, NEW c \in Callers, Begin(c)
  PROVE  Crew'
<1>1. PICK s, r : /\ step[c] = "idle" /\ step' = [step EXCEPT ![c] = s]
                  /\ call' = [call EXCEPT ![c] = r]
                  /\ IsCall(r) /\ Begins(c, s, r)
  BY BeginSteps
<1>0. /\ UNCHANGED <<workerVars, confVars, kind, isThreaded_>> /\ Control'
      /\ Count \in Nat
  BY BeginKeepsControl, LenProperties
     DEF Begin, BeginRun, BeginSplit, BeginAddIndex, BeginRemove, confVars,
         Control, Configured, Count
<1>2. /\ step'[c] = s /\ call'[c] = r
      /\ \A d \in Callers \ {c} : step'[d] = step[d] /\ call'[d] = call[d]
  BY <1>1 DEF Control
<1>3. \A d \in Callers \ {c} : ~Changing(d)
  BY <1>1, OthersStill DEF Begins
<1>4. WorkersSound' /\ futures' = futures /\ \A i \in Workers : SameServing(i)
  BY <1>0, SameWorkers DEF Crew
<1>5. PendingWanted'
  <2>1. \A t \in Tasks : futures[t] = "pending" => step[t[1]] # "idle" /\ t[1] \in Callers
    BY TaskParts DEF Crew, PendingWanted, Wanted, AwaitedAt, Building
  <2>2. CASE indices_' = indices_
    BY <1>0, <1>1, <1>2, <1>4, <2>1, <2>2, WantedAfter DEF Crew
  <2>3. CASE indices_' # indices_
    <3>1. AllIdle
      BY <1>1, <2>3 DEF Begins
    <3> QED
      BY <1>4, <2>1, <3>1 DEF AllIdle, PendingWanted
  <2> QED
    BY <2>2, <2>3
<1>6. ThreadsFollow'
  <2>1. ~isThreaded_ => \A i \in Workers : Absent(i)'
    BY <1>4 DEF Crew, ThreadsFollow, SameServing
  <2>2. ASSUME NEW p \in 1..Count
        PROVE  /\ indices_[p] \in Workers /\ SameServing(indices_[p])
               /\ isThreaded_ => ThreadAt(c, p)
    <3>1. indices_[p] \in Workers
      BY ElementOfSeq DEF Control, Configured, Count
    <3> QED
      BY <1>3, <1>4, <3>1 DEF Crew, ThreadsFollow
  <2>3. \A p \in 1..Count : Stands(c, p) <=> kind # "split"
    BY <1>1 DEF Stands
  <2>4. CASE indices_' = indices_
    <3>1. \A i \in Workers \ Range(indices_') : Absent(i)'
      BY <1>4, <2>4 DEF Crew, ThreadsFollow, SameServing
    <3>2. Count' = Count
      BY <2>4 DEF Count
    <3>3. r.op # "addIndex"
      <4> SUFFICES ASSUME r.op = "addIndex" PROVE FALSE
        OBVIOUS
      <4>1. PICK i \in Workers \ Range(indices_) : indices_' = Append(indices_, i)
        BY <1>1 DEF Begins, Runs
      <4>2. Len(Append(indices_, i)) = Len(indices_) + 1
        BY AppendProperties DEF Control, Configured
      <4> QED
        BY <1>0, <2>4, <4>1, <4>2 DEF Count
    <3>4. ASSUME isThreaded_, NEW p \in 1..Count
          PROVE  ThreadAt(c, p)'
      <4>1. Stands(c, p)' <=> Stands(c, p)
        BY <1>0, <1>1, <1>2, <2>3, <3>3, <3>4 DEF Begins, Stands, Run, Runs
      <4>2. step'[c] # "join" /\ step[c] # "join"
        BY <1>1, <1>2, <3>4 DEF Begins, Run
      <4>3. PICK i \in Workers : i = indices_[p] /\ SameServing(i)
        BY <2>2
      <4> QED
        BY <2>2, <2>4, <3>4, <4>1, <4>2, <4>3 DEF ThreadAt, SameServing
    <3> QED
      BY <1>0, <1>2, <1>3, <2>1, <3>1, <3>2, <3>4, FollowAfter
  <2>5. CASE indices_' # indices_
    <3>1. /\ kind # "split" /\ r.op = "addIndex" /\ r.at = Count + 1
          /\ s = IF isThreaded_ THEN "construct" ELSE "finish"
          /\ \E i \in Workers \ Range(indices_) : indices_' = Append(indices_, i)
      BY <1>1, <2>5 DEF Begins
    <3>2. PICK i \in Workers \ Range(indices_) : indices_' = Append(indices_, i)
      BY <3>1
    <3>3. /\ Count' = Count + 1 /\ indices_'[Count + 1] = i
          /\ \A p \in 1..Count : indices_'[p] = indices_[p]
      BY <3>2, AppendProperties DEF Control, Configured, Count
    <3>4. Range(indices_') = Range(indices_) \cup {i}
      BY <3>2, AppendAdds DEF Control, Configured
    <3>5. \A j \in Workers \ Range(indices_) : Absent(j)'
      BY <1>4 DEF Crew, ThreadsFollow, SameServing
    <3>6. ASSUME isThreaded_, NEW p \in 1..Count'
          PROVE  ThreadAt(c, p)'
      <4>0. Stands(c, p)' <=> p # Count + 1
        BY <1>0, <1>2, <3>1, <3>6 DEF Stands
      <4>1. CASE p = Count + 1
        BY <3>3, <3>5, <4>0, <4>1 DEF ThreadAt
      <4>2. CASE p # Count + 1
        <5>1. p \in 1..Count
          BY <1>0, <3>3, <4>2
        <5>2. PICK j \in Workers : j = indices_[p] /\ SameServing(j)
          BY <2>2, <5>1
        <5>3. Serving(j)
          BY <2>2, <2>3, <3>1, <3>6, <5>1, <5>2 DEF ThreadAt
        <5>4. Serving(j)'
          BY <5>2, <5>3 DEF SameServing
        <5> QED
          BY <3>3, <4>0, <4>2, <5>1, <5>2, <5>4 DEF ThreadAt
      <4> QED
        BY <4>1, <4>2
    <3> QED
      BY <1>0, <1>2, <1>3, <2>1, <3>4, <3>5, <3>6, FollowAfter
  <2> QED
    BY <2>4, <2>5
<1> QED
  BY <1>4, <1>5, <1>6 DEF Crew

\* The threads run their tasks, and those that were told to stop end.
LEMMA ThreadKeepsCrew ==
  ASSUME Control, Crew, NEW w \in Workers, Thread(w) \/ Spurious(w)
  PROVE  Control' /\ Crew'
<1>0. UNCHANGED <<kind, isThreaded_, successive_ids, indices_, step, call>>
  BY DEF Thread, Perform, Spurious, confVars, dataVars, callVars
<1>1. Control'
  BY <1>0 DEF Control, Configured, CallFits, Alone, Count
<1>2. /\ WorkersSound'
      /\ \A u \in Tasks : futures'[u] = "pending" => futures[u] = "pending"
      /\ \A i \in Workers : Serving(i) => Serving(i)'
      /\ \A i \in Workers : Absent(i) => Absent(i)'
  <2>1. CASE Perform(w)
    BY <2>1, PerformEffect DEF Perform, Crew, SameServing
  <2>2. CASE Loop(w) \/ SpuriousWakeup(w)
    BY <2>2, LoopEffect DEF Crew
  <2> QED
    BY <2>1, <2>2 DEF Thread, Spurious
<1>3. PendingWanted'
  BY <1>0, <1>2 DEF Crew, PendingWanted, Wanted, AwaitedAt, Worker, Count
<1>4. ThreadsFollow'
  <2>1. ASSUME NEW c \in Callers, NEW p \in 1..Count, ThreadAt(c, p)
        PROVE  ThreadAt(c, p)'
    <3>1. PICK i \in Workers : i = indices_[p]
      BY ElementOfSeq DEF Control, Configured, Count
    <3>2. (Serving(i) => Serving(i)') /\ (Absent(i) => Absent(i)')
      BY <1>2
    <3>3. Stands(c, p)' <=> Stands(c, p)
      BY <1>0 DEF Stands
    <3> QED
      BY <1>0, <2>1, <3>1, <3>2, <3>3 DEF ThreadAt
  <2>2. \A c \in Callers : Changing(c)' <=> Changing(c)
    BY <1>0 DEF Changing
  <2>3. Count' = Count
    BY <1>0 DEF Count
  <2> QED
    BY <1>0, <1>2, <2>1, <2>2, <2>3 DEF Crew, ThreadsFollow
<1> QED
  BY <1>1, <1>2, <1>3, <1>4 DEF Crew

-----------------------------------------------------------------------------
(* The invariant                                                           *)

\* A WorkerThread alone has only its own invariant.
Inv == Control /\ IInv /\ (kind # "worker" => Crew)

\* All workers wait, or there is none yet; nothing is filed.
LEMMA InitWorkers ==
  ASSUME WorkersWaiting \/ WorkerInit
  PROVE  /\ WorkersSound /\ \A t \in Tasks : futures[t] # "pending"
         /\ WorkersWaiting => \A i \in Workers : Serving(i)
         /\ WorkerInit => \A i \in Workers : Absent(i)
<1>1. IInv
  <2>1. WorkerTypeOK
    <3>1. <<>> \in Seq(Tasks)
      BY EmptySeq
    <3>2. CASE WorkersWaiting
      BY <3>1, <3>2 DEF WorkersWaiting, WorkerTypeOK
    <3>3. CASE WorkerInit
      BY <3>1, <3>3 DEF WorkerInit, WorkerTypeOK
    <3> QED
      BY <3>2, <3>3
  <2>2. StateFollowsThread
    BY DEF WorkersWaiting, WorkerInit, StateFollowsThread, Absent
  <2> QED
    BY <2>1, <2>2 DEF IInv
<1>2. \A i \in Workers : Jobs[i] = <<>>
  <2> TAKE i \in Workers
  <2>1. running[i] = <<>> /\ queue_[i] = <<>>
    BY DEF WorkersWaiting, WorkerInit
  <2> QED
    BY <1>1, <2>1, MappedStates
<1>3. \A t \in Tasks : futures[t] = "none"
  BY DEF WorkersWaiting, WorkerInit
<1>4. IsInjective(<<>>) /\ Range(<<>>) = {}
  BY DEF IsInjective, Range
<1>5. TasksFiled
  BY <1>2, <1>3, <1>4 DEF TasksFiled
<1>6. /\ WorkersWaiting => \A i \in Workers : Serving(i)
      /\ WorkerInit => \A i \in Workers : Absent(i)
  BY DEF WorkersWaiting, WorkerInit, Serving, Absent
<1> QED
  BY <1>1, <1>3, <1>5, <1>6 DEF WorkersSound

LEMMA InitHolds == Init => Inv
<1> SUFFICES ASSUME Init PROVE Inv
  OBVIOUS
<1>1. Control
  BY InitControl
<1>2. /\ IF isThreaded_ /\ kind \in {"shards", "replicas"} THEN WorkersWaiting
                                                           ELSE WorkerInit
      /\ kind # "worker" => indices_ = SetToSeq(Workers)
      /\ step = [c \in Callers |-> "idle"] /\ call = [c \in Callers |-> NoCall]
  BY DEF Init
<1>3. /\ WorkersSound /\ \A t \in Tasks : futures[t] # "pending"
      /\ WorkersWaiting => \A i \in Workers : Serving(i)
      /\ WorkerInit => \A i \in Workers : Absent(i)
  BY <1>2, InitWorkers
<1>4. PendingWanted
  BY <1>3 DEF PendingWanted
<1>5. ASSUME kind # "worker"
      PROVE  ThreadsFollow
  <2>1. Range(indices_) = Workers
    BY <1>2, <1>5, ThreadedAssumption, SetToSeqProperties
  <2>2. ASSUME isThreaded_, NEW c \in Callers, NEW p \in 1..Count
        PROVE  ThreadAt(c, p)
    <3>1. indices_[p] \in Workers
      BY <1>1, ElementOfSeq DEF Control, Configured, Count
    <3>2. Stands(c, p) <=> kind # "split"
      BY <1>2 DEF Stands, NoCall
    <3>3. kind # "split" => WorkersWaiting
      BY <1>1, <1>2, <1>5, <2>2 DEF Control, Configured
    <3>4. kind = "split" => WorkerInit
      BY <1>2
    <3> QED
      BY <1>3, <3>1, <3>2, <3>3, <3>4 DEF ThreadAt
  <2>3. ~isThreaded_ => \A i \in Workers : Absent(i)
    BY <1>2, <1>3
  <2> QED
    BY <2>1, <2>2, <2>3 DEF ThreadsFollow
<1> QED
  BY <1>1, <1>3, <1>4, <1>5 DEF Inv, Crew, WorkersSound

\* A WorkerThread alone: nobody calls an index.
LEMMA AloneHolds ==
  ASSUME Inv, kind = "worker", [Next]_vars
  PROVE  Inv'
<1>1. \A c \in Callers : step[c] = "idle"
  BY DEF Inv, Control, CallFits
<1>2. \A c \in Callers : ~Begin(c) /\ ~Caller(c)
  BY <1>1 DEF Begin, BeginRun, BeginSplit, BeginAddIndex, BeginRemove, Caller,
              Construct, AddFirst, Constructed, Submit, Inline, Gather, StopWorker,
              Join, Erase, Finish
<1>3. UNCHANGED <<kind, isThreaded_, successive_ids, indices_, step, call>> /\ IInv'
  <2>1. ASSUME NEW w \in Workers, Thread(w) \/ Spurious(w)
        PROVE  UNCHANGED <<kind, isThreaded_, successive_ids, indices_, step, call>> /\ IInv'
    BY <2>1, ThreadPreserves
       DEF Thread, Perform, Spurious, Inv, confVars, dataVars, callVars
  <2>2. ASSUME NEW w \in Workers, DirectUse(w)
        PROVE  UNCHANGED <<kind, isThreaded_, successive_ids, indices_, step, call>> /\ IInv'
    BY <2>2, UsePreserves DEF DirectUse, Inv, confVars, dataVars, callVars
  <2>3. CASE UNCHANGED vars
    BY <2>3 DEF vars, workerVars, confVars, dataVars, callVars, Inv, IInv,
                WorkerTypeOK, StateFollowsThread, Absent
  <2> QED
    BY <1>2, <2>1, <2>2, <2>3 DEF Next, Finished
<1>4. Control'
  BY <1>3 DEF Inv, Control, Configured, CallFits, Alone, Count
<1> QED
  BY <1>3, <1>4 DEF Inv

LEMMA NextHolds == Inv /\ [Next]_vars => Inv'
<1> SUFFICES ASSUME Inv, [Next]_vars PROVE Inv'
  OBVIOUS
<1>1. CASE kind = "worker"
  BY <1>1, AloneHolds
<1>2. CASE kind # "worker"
  <2>0. Control /\ Crew
    BY <1>2 DEF Inv
  <2>1. ASSUME NEW c \in Callers, Begin(c) \/ Caller(c)
        PROVE  Control' /\ Crew'
    BY <2>0, <2>1, BeginKeepsControl, BeginKeepsCrew, CallerKeepsControl,
       CallerKeepsCrew
  <2>2. ASSUME NEW w \in Workers, Thread(w) \/ Spurious(w)
        PROVE  Control' /\ Crew'
    BY <2>0, <2>2, ThreadKeepsCrew
  <2>3. CASE UNCHANGED vars
    <3>1. UNCHANGED <<workerVars, kind, isThreaded_, successive_ids, indices_, step, call>>
      BY <2>3 DEF vars, confVars, dataVars, callVars
    <3>2. Control'
      BY <2>0, <3>1 DEF Control, Configured, CallFits, Alone, Count
    <3>3. WorkersSound' /\ futures' = futures /\ thread' = thread /\ wantStop_' = wantStop_
      BY <2>0, <3>1, SameWorkers DEF Crew, workerVars
    <3>4. PendingWanted' /\ ThreadsFollow'
      BY <2>0, <3>1, <3>3
         DEF Crew, PendingWanted, Wanted, AwaitedAt, Worker, Count, ThreadsFollow,
             ThreadAt, Stands, Changing, Serving, Absent
    <3> QED
      BY <3>2, <3>3, <3>4 DEF Crew, Inv, WorkersSound
  <2> QED
    BY <1>2, <2>1, <2>2, <2>3 DEF Next, DirectUse, Finished, Inv, Crew, WorkersSound
<1> QED
  BY <1>1, <1>2

\* Callers go through their steps, each worker follows its thread, an unanswered
\* task is filed once with its worker and belongs to a call under way, and each
\* position of the collection has its thread but where a call makes or ends it.
THEOREM ThreadedInvariance == Spec => []Inv
BY InitHolds, NextHolds, PTL DEF Spec

-----------------------------------------------------------------------------
(* What follows from it                                                    *)

\* A task refers to its caller's arrays: when the call is over, none of its tasks
\* is in a queue or running, whichever of them have thrown.
THEOREM TasksEnd == Spec => []TasksEndWithCall
<1>1. Inv => TasksEndWithCall
  <2> SUFFICES ASSUME Inv, NEW c \in Callers, NEW i \in Workers,
                      step[c] = "idle", kind # "worker",
                      NEW t \in Range(queue_[i] \o running[i])
               PROVE  t[1] # c
    BY DEF TasksEndWithCall
  <2>1. /\ running[i] \in Seq(Tasks) /\ queue_[i] \in Seq(Tasks)
        /\ Jobs[i] = running[i] \o queue_[i]
    BY MappedStates DEF Inv
  <2>2. t \in Range(Jobs[i]) /\ t \in Tasks
    <3>1. Range(queue_[i] \o running[i]) = Range(Jobs[i])
      <4>1. \A q, r \in Seq(Tasks) : Range(q \o r) = Range(q) \cup Range(r)
        BY ConcatRange
      <4>2. /\ Range(queue_[i] \o running[i]) = Range(queue_[i]) \cup Range(running[i])
            /\ Range(running[i] \o queue_[i]) = Range(running[i]) \cup Range(queue_[i])
        BY <2>1, <4>1, Zenon
      <4> QED
        BY <2>1, <4>2
    <3>2. Jobs[i] \in Seq(Tasks)
      BY <2>1, ConcatProperties
    <3> QED
      BY <3>1, <3>2, RangeBySequence
  <2>3. Wanted(t)
    BY <2>2 DEF Inv, Crew, WorkersSound, TasksFiled, PendingWanted
  <2> QED
    BY <2>3 DEF Wanted, AwaitedAt, Building
<1> QED
  BY <1>1, ThreadedInvariance, PTL

\* Between calls, each sub-index of the collection has its thread and no other
\* thread is left.
LEMMA SoundBetweenCalls == Inv => WorkersEndWithIndex
<1> SUFFICES ASSUME Inv, AllIdle, kind # "worker", NEW i \in Workers
             PROVE  ~Absent(i) <=> isThreaded_ /\ kind # "split" /\ i \in Range(indices_)
  BY DEF WorkersEndWithIndex
<1>1. ThreadsFollow /\ Configured
  BY DEF Inv, Crew, Control
<1>2. CASE isThreaded_ /\ i \in Range(indices_)
  <2>1. PICK p \in 1..Count : i = indices_[p]
    BY <1>1, <1>2, RangeBySequence DEF Configured, Count
  <2>2. ThreadAt(Owner, p)
    BY <1>1, <1>2, ThreadedAssumption DEF ThreadsFollow, AllIdle, Changing
  <2>3. step[Owner] = "idle"
    BY ThreadedAssumption DEF AllIdle
  <2>4. Stands(Owner, p) <=> kind # "split"
    BY <2>3 DEF Stands
  <2> QED
    BY <1>2, <2>1, <2>2, <2>3, <2>4 DEF ThreadAt, Serving
<1>3. CASE ~isThreaded_ \/ i \notin Range(indices_)
  BY <1>1, <1>3 DEF ThreadsFollow
<1> QED
  BY <1>2, <1>3

-----------------------------------------------------------------------------
(* What the sub-indexes hold                                               *)

Entry == [id : Nat, vec : Nat]

\* The vectors a call of add numbers on from base.
DataTyped ==
  /\ content \in [Workers -> Seq(Entry)]
  /\ ntotal \in Nat /\ clean \in BOOLEAN /\ calls \in Nat
  /\ \A c \in Callers : step[c] # "idle" => call[c].base \in Nat

LEMMA AllTyped ==
  ASSUME Configured, content \in [Workers -> Seq(Entry)]
  PROVE  All \in Seq(Entry) /\ Store \in Seq(Entry)
<1> DEFINE parts == [p \in 1..Count |-> content[indices_[p]]]
<1>1. Count \in Nat /\ \A p \in 1..Count : indices_[p] \in Workers
  BY LenProperties, ElementOfSeq DEF Configured, Count
<1>2. \A p \in 1..Count : content[indices_[p]] \in Seq(Entry)
  BY <1>1 DEF DataTyped
<1>3. parts \in Seq(Seq(Entry))
  BY <1>1, <1>2, SeqDef
<1>4. All \in Seq(Entry)
  <2> HIDE DEF parts
  <2>1. FlattenSeq(parts) \in Seq(Entry)
    BY <1>3, FlattenSeqType
  <2> QED
    BY <2>1 DEF All, parts
<1>5. Shifted(All) \in Seq(Entry)
  <2>1. /\ Len(All) \in Nat /\ DOMAIN All = 1..Len(All)
        /\ \A p \in 1..Len(All) : All[p] \in Entry
    BY <1>4, LenProperties, ElementOfSeq
  <2>2. \A p \in 1..Len(All) : [All[p] EXCEPT !.id = p - 1] \in Entry
    BY <2>1 DEF Entry
  <2>3. Shifted(All) \in [1..Len(All) -> Entry]
    BY <2>1, <2>2 DEF Shifted
  <2> QED
    BY <2>1, <2>3, SeqDef
<1>6. Store \in Seq(Entry)
  <2>1. CASE Count = 0
    BY <2>1, EmptySeq DEF Store
  <2>2. CASE Count > 0 /\ kind = "shards"
    BY <1>1, <1>4, <1>5, <2>2 DEF Store
  <2>3. CASE Count > 0 /\ kind # "shards"
    <3>1. 1 \in 1..Count
      BY <1>1, <2>3
    <3> QED
      BY <1>1, <1>2, <2>3, <3>1 DEF Store
  <2> QED
    BY <1>1, <2>1, <2>2, <2>3
<1> QED
  BY <1>4, <1>6

\* The parts of a range begin inside it.
LEMMA RangeTyped ==
  ASSUME NEW n \in Nat, Count \in Nat, NEW p \in 1..Count
  PROVE  ShardRange(n, p).from \in Nat /\ ShardRange(n, p).to \in Nat
<1>1. \A a, b \in Nat : a * b \in Nat
  OBVIOUS
<1>2. \A a \in Nat, b \in Nat \ {0} : a \div b \in Nat
  OBVIOUS
<1>3. p - 1 \in Nat /\ p \in Nat /\ Count \in Nat \ {0}
  OBVIOUS
<1>4. (p - 1) * n \in Nat /\ p * n \in Nat
  BY <1>1, <1>3
<1>5. ((p - 1) * n) \div Count \in Nat /\ (p * n) \div Count \in Nat
  BY <1>2, <1>3, <1>4
<1> QED
  BY <1>5 DEF ShardRange

LEMMA NewTyped ==
  ASSUME NEW c \in Callers, call[c].base \in Nat, NEW ids \in Nat,
         NEW from \in Nat, NEW to \in Nat
  PROVE  New(c, [from |-> from, to |-> to], ids) \in Seq(Entry)
<1> DEFINE f == [p \in 1..(to - from) |->
                   [id |-> ids + p - 1, vec |-> call[c].base + from + p - 1]]
<1>1. \A p \in 1..(to - from) :
        ids + p - 1 \in Nat /\ call[c].base + from + p - 1 \in Nat
  OBVIOUS
<1>2. f \in [1..(to - from) -> Entry]
  BY <1>1 DEF Entry
<1>3. to - from \in Int
  OBVIOUS
<1>4. f \in Seq(Entry)
  <2> HIDE DEF f
  <2> QED
    BY <1>2, <1>3, FunctionIsSeq
<1> QED
  BY <1>4 DEF New

LEMMA AddedTyped ==
  ASSUME Configured, DataTyped, NEW c \in Callers, IsCall(call[c]),
         step[c] # "idle", NEW i \in Workers, NEW p \in 1..Count
  PROVE  AddedTo(c, i, p) \in Seq(Entry)
<1> DEFINE n == call[c].n
           base == call[c].base
           from == ShardRange(n, p).from
           to == ShardRange(n, p).to
<1>1. n \in Nat /\ base \in Nat /\ Size(i) \in Nat /\ Count \in Nat
  BY LenProperties DEF IsCall, DataTyped, Size, Configured, Count
<1>2. from \in Nat /\ to \in Nat
  BY <1>1, RangeTyped
<1>3. ShardRange(n, p) = [from |-> from, to |-> to]
  BY DEF ShardRange
<1>4. base + from \in Nat
  BY <1>1, <1>2
<1> HIDE DEF n, base, from, to
<1>5. \A a, b, d \in Nat : New(c, [from |-> a, to |-> b], d) \in Seq(Entry)
  BY <1>1, NewTyped DEF base
<1>6. /\ New(c, [from |-> 0, to |-> n], Size(i)) \in Seq(Entry)
      /\ New(c, [from |-> from, to |-> to], Size(i)) \in Seq(Entry)
      /\ New(c, [from |-> from, to |-> to], base + from) \in Seq(Entry)
  <2>1. 0 \in Nat
    OBVIOUS
  <2> QED
    BY <1>1, <1>2, <1>4, <1>5, <2>1, Zenon
<1>7. AddedTo(c, i, p) =
        IF kind = "replicas" THEN New(c, [from |-> 0, to |-> n], Size(i))
        ELSE New(c, [from |-> from, to |-> to],
                 IF successive_ids THEN Size(i) ELSE base + from)
  BY <1>3 DEF AddedTo, n, base, from
<1> QED
  BY <1>6, <1>7

\* Tasks of add, reset and search change what their sub-index holds.
LEMMA EffectTyped ==
  ASSUME Configured, DataTyped, NEW c \in Callers, IsCall(call[c]),
         step[c] # "idle", NEW i \in Range(indices_), NEW r \in Outcomes,
         Effect(c, i, r)
  PROVE  content' \in [Workers -> Seq(Entry)]
<1>1. i \in Workers /\ Position(i) \in 1..Count
  BY RangeBySequence DEF Configured, Count, Position
<1>2. AddedTo(c, i, Position(i)) \in Seq(Entry)
  BY <1>1, AddedTyped
<1>3. content[i] \o AddedTo(c, i, Position(i)) \in Seq(Entry)
  BY <1>1, <1>2, ConcatProperties DEF DataTyped
<1>4. <<>> \in Seq(Entry)
  BY EmptySeq
<1>5. \/ UNCHANGED content
      \/ content' = [content EXCEPT ![i] = @ \o AddedTo(c, i, Position(i))]
      \/ content' = [content EXCEPT ![i] = <<>>]
  BY DEF Effect, Outcomes
<1> QED
  BY <1>3, <1>4, <1>5 DEF DataTyped

\* While it lasts, a call's base stays.
LEMMA BaseStays ==
  ASSUME Control, NEW c \in Callers, Caller(c), ~Finish(c)
  PROVE  step[c] # "idle" /\ call'[c].base = call[c].base
<1>1. call = [d \in Callers |-> call[d]] /\ IsCall(call[c])
  BY DEF Control
<1>2. step[c] # "idle"
  BY DEF Caller, Construct, AddFirst, Constructed, Submit, Inline, Gather,
         StopWorker, Join, Erase, Finish
<1>3. CASE Construct(c) \/ AddFirst(c) \/ Constructed(c) \/ StopWorker(c) \/ Erase(c)
  BY <1>2, <1>3 DEF Construct, AddFirst, Constructed, StopWorker, Erase
<1>4. CASE Submit(c) \/ Inline(c) \/ Gather(c) \/ Join(c)
  BY <1>1, <1>2, <1>4 DEF Submit, Inline, Gather, Join, Advance, IsCall
<1> QED
  BY <1>3, <1>4 DEF Caller

LEMMA CallerKeepsData ==
  ASSUME Control, Crew, DataTyped, NEW c \in Callers, Caller(c)
  PROVE  DataTyped'
<1>0. Configured /\ IsCall(call[c])
  BY DEF Control
<1>1. \A d \in Callers \ {c} : step'[d] = step[d] /\ call'[d] = call[d]
  BY CallerFrame
<1>2. CASE Finish(c)
  <2>1. Len(All) \in Nat /\ Len(Store) \in Nat
    BY <1>0, AllTyped, LenProperties DEF DataTyped
  <2>2. ntotal' \in Nat
    BY <1>2, <2>1 DEF Finish, DataTyped, Synced
  <2>3. clean' \in BOOLEAN /\ content' = content /\ calls' = calls
    BY <1>2 DEF Finish
  <2>4. step'[c] = "idle"
    BY <1>2 DEF Finish, CallerGoto, Control
  <2> QED
    BY <1>1, <2>2, <2>3, <2>4 DEF DataTyped
<1>3. CASE ~Finish(c)
  <2>1. \A d \in Callers : step'[d] # "idle" => call'[d].base \in Nat
    BY <1>1, <1>3, BaseStays DEF DataTyped
  <2>2. calls' = calls /\ ntotal' \in Nat /\ clean' \in BOOLEAN
    <3>1. CASE Erase(c)
      BY <3>1 DEF Erase, DataTyped
    <3>2. CASE ~Erase(c)
      BY <1>3, <3>2 DEF Caller, Construct, AddFirst, Constructed, Submit, Inline,
                        Gather, StopWorker, Join, dataVars, DataTyped
    <3> QED
      BY <3>1, <3>2
  <2>3. content' \in [Workers -> Seq(Entry)]
    <3>1. CASE Inline(c)
      <4>1. step[c] = "inline"
        BY <3>1 DEF Inline
      <4>2. Worker(c) \in Range(indices_)
        BY <4>1, InCall, RangeBySequence DEF Control, Configured, Count
      <4>3. PICK i \in Range(indices_), r \in Outcomes : Effect(c, i, r)
        BY <3>1, <4>2 DEF Inline
      <4> QED
        BY <1>0, <4>1, <4>3, EffectTyped
    <3>2. CASE ~Inline(c)
      BY <1>3, <3>2 DEF Caller, Construct, AddFirst, Constructed, Submit, Gather,
                        StopWorker, Join, Erase, dataVars, DataTyped
    <3> QED
      BY <3>1, <3>2
  <2> QED
    BY <2>1, <2>2, <2>3 DEF DataTyped
<1> QED
  BY <1>2, <1>3

LEMMA BeginKeepsData ==
  ASSUME Control, DataTyped, NEW c \in Callers, Begin(c)
  PROVE  DataTyped'
<1>1. PICK s, r : /\ step' = [step EXCEPT ![c] = s] /\ call' = [call EXCEPT ![c] = r]
                  /\ r.base = ntotal
  BY BeginSteps
<1>2. /\ call'[c] = r
      /\ \A d \in Callers \ {c} : step'[d] = step[d] /\ call'[d] = call[d]
  BY <1>1 DEF Control
<1>3. \A d \in Callers : step'[d] # "idle" => call'[d].base \in Nat
  BY <1>1, <1>2 DEF DataTyped
<1>4. calls' = calls + 1 /\ content' = content /\ ntotal' = ntotal
  BY DEF Begin, BeginRun, BeginSplit, BeginAddIndex, BeginRemove, Start, dataVars
<1>5. clean' \in BOOLEAN
  BY DEF Begin, BeginRun, BeginSplit, BeginAddIndex, BeginRemove, dataVars, DataTyped
<1> QED
  BY <1>3, <1>4, <1>5 DEF DataTyped

\* A task that a thread runs is one of a call under way, at a sub-index of the
\* collection.
LEMMA ThreadKeepsData ==
  ASSUME Control, IInv, kind # "worker" => Crew, DataTyped,
         NEW w \in Workers, Thread(w) \/ Spurious(w)
  PROVE  DataTyped'
<1>0. UNCHANGED <<step, call, ntotal, clean, calls>>
  BY DEF Thread, Perform, Spurious, dataVars, callVars
<1>1. CASE Perform(w)
  <2>1. PICK r \in Outcomes :
          \/ RunTask(w, r) /\ TaskEffect(running[w][1], r)
          \/ Flush(w, r) /\ TaskEffect(Head(queue_[w]), r)
    BY <1>1 DEF Perform
  <2>2. PICK t \in Range(Jobs[w]) : TaskEffect(t, r)
    <3>1. /\ running[w] \in Seq(Tasks) /\ queue_[w] \in Seq(Tasks)
          /\ Range(Jobs[w]) = Range(running[w]) \cup Range(queue_[w])
      <4>1. /\ running[w] \in Seq(Tasks) /\ queue_[w] \in Seq(Tasks)
            /\ Jobs[w] = running[w] \o queue_[w]
        BY MappedStates
      <4> QED
        BY <4>1, ConcatRange
    <3>2. CASE RunTask(w, r) /\ TaskEffect(running[w][1], r)
      <4>1. running[w] # <<>>
        BY <3>2 DEF RunTask, IInv, StateFollowsThread
      <4>2. 1 \in 1..Len(running[w])
        BY <3>1, <4>1, EmptySeq, LenProperties
      <4>3. running[w][1] \in Range(running[w])
        BY <3>1, <4>2, RangeBySequence
      <4> QED
        BY <3>1, <3>2, <4>3
    <3>3. CASE Flush(w, r) /\ TaskEffect(Head(queue_[w]), r)
      <4>1. queue_[w] # <<>>
        BY <3>3 DEF Flush
      <4>2. 1 \in 1..Len(queue_[w]) /\ Head(queue_[w]) = queue_[w][1]
        BY <3>1, <4>1, EmptySeq, LenProperties
      <4>3. Head(queue_[w]) \in Range(queue_[w])
        BY <3>1, <4>2, RangeBySequence
      <4> QED
        BY <3>1, <3>3, <4>3
    <3> QED
      BY <2>1, <3>2, <3>3
  <2>3. CASE kind = "worker" \/ t[3] = "start"
    BY <1>0, <2>2, <2>3 DEF TaskEffect, DataTyped
  <2>4. CASE kind # "worker" /\ t[3] # "start"
    <3>1. Jobs[w] \in Seq(Tasks)
      BY JobsTyped
    <3>2. t \in Tasks
      BY <3>1, RangeBySequence
    <3>3. Wanted(t)
      BY <2>4, <3>2 DEF Crew, WorkersSound, TasksFiled, PendingWanted
    <3>4. step[t[1]] # "idle" /\ t[1] \in Callers
      BY <2>4, <3>2, <3>3, TaskParts DEF Wanted, AwaitedAt, Building
    <3>5. t[2] \in Range(indices_)
      BY <2>4, <3>3, RangeBySequence DEF Wanted, Control, Configured, Count
    <3>6. Effect(t[1], t[2], r)
      BY <2>2, <2>4 DEF TaskEffect
    <3>7. content' \in [Workers -> Seq(Entry)]
      BY <3>4, <3>5, <3>6, EffectTyped DEF Control
    <3> QED
      BY <1>0, <3>7 DEF DataTyped
  <2> QED
    BY <2>3, <2>4
<1>2. CASE ~Perform(w)
  <2>1. content' = content
    BY <1>2 DEF Thread, Spurious, dataVars
  <2> QED
    BY <1>0, <2>1 DEF DataTyped
<1> QED
  BY <1>1, <1>2

LEMMA InitData == Init => DataTyped
<1> SUFFICES ASSUME Init PROVE DataTyped
  OBVIOUS
<1>1. PICK held \in {0, 1} :
        content = [i \in Workers |-> [p \in 1..held |-> [id |-> 0, vec |-> i]]]
  BY DEF Init
<1>2. ASSUME NEW i \in Workers
      PROVE  content[i] \in Seq(Entry)
  <2>1. content[i] \in [1..held -> Entry] /\ held \in Int
    BY <1>1, ThreadedAssumption DEF Entry
  <2> QED
    BY <2>1, FunctionIsSeq
<1>3. content \in [Workers -> Seq(Entry)]
  BY <1>1, <1>2
<1>4. /\ ntotal = Len(Store) /\ clean = TRUE /\ calls = 0
      /\ step = [c \in Callers |-> "idle"]
  BY DEF Init
<1>5. Configured
  BY InitControl DEF Control
<1>6. Store \in Seq(Entry)
  BY <1>3, <1>5, AllTyped
<1> QED
  BY <1>3, <1>4, <1>6, LenProperties DEF DataTyped

\* The whole invariant.
LEMMA DataHolds == Inv /\ DataTyped /\ [Next]_vars => DataTyped'
<1> SUFFICES ASSUME Inv, DataTyped, [Next]_vars PROVE DataTyped'
  OBVIOUS
<1>0. Control /\ IInv /\ (kind # "worker" => Crew)
  BY DEF Inv
<1>1. ASSUME NEW c \in Callers, Begin(c)
      PROVE  DataTyped'
  BY <1>0, <1>1, BeginKeepsData
<1>2. ASSUME NEW c \in Callers, Caller(c)
      PROVE  DataTyped'
  <2>1. step[c] # "idle"
    BY <1>2 DEF Caller, Construct, AddFirst, Constructed, Submit, Inline, Gather,
                StopWorker, Join, Erase, Finish
  <2>2. kind # "worker"
    BY <1>0, <2>1 DEF Control, CallFits
  <2> QED
    BY <1>0, <1>2, <2>2, CallerKeepsData
<1>3. ASSUME NEW w \in Workers, Thread(w) \/ Spurious(w)
      PROVE  DataTyped'
  BY <1>0, <1>3, ThreadKeepsData
<1>4. ASSUME NEW w \in Workers, DirectUse(w)
      PROVE  DataTyped'
  BY <1>4 DEF DirectUse, DataTyped, dataVars, callVars
<1>5. CASE UNCHANGED vars
  BY <1>5 DEF vars, dataVars, callVars, DataTyped
<1> QED
  BY <1>1, <1>2, <1>3, <1>4, <1>5 DEF Next, Finished

\* Type correctness, and that threads and collection stay in step through
\* addIndex, removeIndex and the destructors.
THEOREM WorkersFollow == Spec => []WorkersFollowIndex
<1>1. Inv /\ DataTyped => TypeOK
  <2> SUFFICES ASSUME Inv, DataTyped PROVE TypeOK
    OBVIOUS
  <2>1. WorkerTypeOK /\ Control
    BY DEF Inv, IInv
  <2>2. \A p, r \in 1..Count : indices_[p] = indices_[r] => p = r
    BY <2>1, RangeBySequence DEF Control, Configured, Count
  <2>3. ASSUME NEW c \in Callers, step[c] \notin {"idle", "finish"}
        PROVE  call[c].at \in 1..Count
    <3>1. /\ call[c].at \in 1..call[c].last /\ call[c].last \in 1..Count
          /\ Count \in Nat
      BY <2>1, <2>3, LenProperties DEF Control, Configured, CallFits, Count
    <3> QED
      BY <3>1
  <2> QED
    BY <2>1, <2>2, <2>3 DEF TypeOK, DataTyped, Entry, Control, Configured
<1>2. Inv => WorkersEndWithIndex
  BY SoundBetweenCalls
<1> QED
  BY <1>1, <1>2, InitHolds, NextHolds, InitData, DataHolds, PTL
     DEF Spec, WorkersFollowIndex

-----------------------------------------------------------------------------
(* The indexes use the class as it is meant to be used                     *)

\* A caller asks a worker that was constructed, and for a task that is not
\* unanswered; it gives up no future that is.
LEMMA UsedWell == Inv /\ [Next]_vars => [WorkerNext]_workerVars
<1> SUFFICES ASSUME Inv, [Next]_vars PROVE WorkerNext \/ UNCHANGED workerVars
  OBVIOUS
<1>0. Control /\ IInv /\ (kind # "worker" => Crew)
  BY DEF Inv
<1>1. ASSUME NEW c \in Callers, Begin(c)
      PROVE  UNCHANGED workerVars
  BY <1>1 DEF Begin, BeginRun, BeginSplit, BeginAddIndex, BeginRemove
<1>2. ASSUME NEW c \in Callers, Caller(c)
      PROVE  WorkerNext \/ UNCHANGED workerVars
  <2>0. Crew
    <3>1. step[c] # "idle"
      BY <1>2 DEF Caller, Construct, AddFirst, Constructed, Submit, Inline, Gather,
                  StopWorker, Join, Erase, Finish
    <3> QED
      BY <1>0, <3>1 DEF Control, CallFits
  <2>1. CASE Construct(c) \/ StopWorker(c)
    <3>1. PICK w \in Workers : StartThread(w) \/ Stop(w)
      BY <1>0, <2>0, <2>1, InCall DEF Construct, StopWorker
    <3> QED
      BY <3>1 DEF WorkerNext, Use
  <2>2. CASE AddFirst(c) \/ Submit(c)
    <3>1. PICK k \in {"start", "call"} :
            /\ Add(Worker(c), Task(c, k)) /\ futures[Task(c, k)] # "pending"
            /\ step[c] \in {"first", "submit"}
      BY <1>0, <2>0, <2>2, LastAnswered DEF AddFirst, Submit
    <3>2. PICK w \in Workers, t \in Tasks : w = Worker(c) /\ t = Task(c, k)
      BY <1>0, <2>0, <3>1, InCall
    <3>3. futures[t] # "pending" /\ thread[w] # "none" /\ Add(w, t)
      BY <1>0, <2>0, <3>1, <3>2, WorkerThere
    <3> QED
      BY <3>3 DEF WorkerNext, Use
  <2>3. CASE Finish(c)
    <3> DEFINE ts == {c} \X Workers \X {"start", "call"}
    <3>1. ts \in SUBSET {t \in Tasks : futures[t] # "pending"}
      BY <1>0, <2>0, <2>3, NothingLeft DEF Finish
    <3>2. Forget(ts)
      BY <2>3 DEF Finish
    <3> HIDE DEF ts
    <3> QED
      BY <3>1, <3>2 DEF WorkerNext
  <2>4. CASE Constructed(c) \/ Inline(c) \/ Gather(c) \/ Join(c) \/ Erase(c)
    BY <2>4 DEF Constructed, Inline, Gather, Join, Erase
  <2> QED
    BY <1>2, <2>1, <2>2, <2>3, <2>4 DEF Caller
<1>3. ASSUME NEW w \in Workers, Thread(w) \/ DirectUse(w) \/ Spurious(w)
      PROVE  WorkerNext
  BY <1>3 DEF Thread, Perform, DirectUse, Spurious, WorkerNext
<1>4. CASE UNCHANGED vars
  BY <1>4 DEF vars
<1> QED
  BY <1>1, <1>2, <1>3, <1>4 DEF Next, Finished

\* The indexes' workers run each task they accept once, in order, and refuse
\* tasks only when closed.
THEOREM IndexesImplementExecutor == Spec => E!Spec
<1>1. Inv => IInv
  BY DEF Inv
<1>2. Init => E!Init
  <2> SUFFICES ASSUME Init PROVE E!Init
    OBVIOUS
  <2>1. WorkersWaiting \/ WorkerInit
    BY DEF Init
  <2>2. \A w \in Workers : running[w] \o queue_[w] = <<>>
    BY <2>1, EmptySeq, ConcatEmptySeq DEF WorkersWaiting, WorkerInit
  <2> QED
    BY <2>1, <2>2 DEF WorkersWaiting, WorkerInit, E!Init
<1> QED
  BY <1>1, <1>2, ThreadedInvariance, UsedWell, NextSimulates, PTL DEF Spec, E!Spec

\* A thread that flushes its queue without the mutex is not disturbed by any
\* call of the index.
THEOREM IndexesFlushUndisturbed == Spec => FlushUndisturbed
<1>1. Inv => IInv
  BY DEF Inv
<1> QED
  BY <1>1, ThreadedInvariance, UsedWell, FlushShrinks, PTL DEF Spec, FlushUndisturbed

-----------------------------------------------------------------------------
(* Part 3: how an index counts and numbers its vectors                     *)

LEMMA DivGrows ==
  ASSUME NEW a \in Nat, NEW b \in Nat, NEW k \in Nat \ {0}, a <= b
  PROVE  a \div k \in Nat /\ a \div k <= b \div k
<1>1. a \div k \in Nat /\ b \div k \in Nat
  OBVIOUS
<1>2. a \div k <= b \div k
  OBVIOUS
<1> QED
  BY <1>1, <1>2

LEMMA DivExact ==
  ASSUME NEW n \in Nat, NEW k \in Nat \ {0}
  PROVE  (k * n) \div k = n
OBVIOUS

\* The ranges of the positions divide the n things among them.
LEMMA SharesDivide ==
  ASSUME NEW n \in Nat, Count \in Nat, Count # 0
  PROVE  /\ \A p \in 1..Count :
              /\ ShardRange(n, p).from \in Nat /\ ShardRange(n, p).to \in Nat
              /\ ShardRange(n, p).from <= ShardRange(n, p).to
              /\ ShardRange(n, p).to <= n
         /\ \A p, q \in 1..Count : p < q => ShardRange(n, p).to <= ShardRange(n, q).from
         /\ \A x \in 0..(n - 1) : \E p \in 1..Count :
              ShardRange(n, p).from <= x /\ x < ShardRange(n, p).to
<1> DEFINE C == Count
           Cut(p) == (p * n) \div C
<1>1. C \in Nat \ {0}
  OBVIOUS
<1>2. \A p \in 1..C : ShardRange(n, p) = [from |-> Cut(p - 1), to |-> Cut(p)]
  BY DEF ShardRange
<1> HIDE DEF C
<1>3. \A p, q \in 0..C : p <= q => Cut(p) \in Nat /\ Cut(p) <= Cut(q)
  <2> SUFFICES ASSUME NEW p \in 0..C, NEW q \in 0..C, p <= q
               PROVE  Cut(p) \in Nat /\ Cut(p) <= Cut(q)
    OBVIOUS
  <2>1. \A a, b, d \in Nat : a <= b => a * d \in Nat /\ b * d \in Nat /\ a * d <= b * d
    OBVIOUS
  <2>2. PICK a, b \in Nat : a = p * n /\ b = q * n /\ a <= b
    BY <1>1, <2>1
  <2> QED
    BY <1>1, <2>2, DivGrows
<1>4. Cut(0) = 0 /\ Cut(C) = n
  <2>1. 0 * n = 0 /\ 0 \div C = 0
    BY <1>1
  <2> QED
    BY <1>1, <2>1, DivExact
<1> HIDE DEF Cut
<1>5. \A p \in 1..C : p \in 0..C /\ p - 1 \in 0..C /\ p - 1 <= p /\ p <= C /\ p - 1 <= C
  BY <1>1
<1>6. C \in 0..C
  BY <1>1
<1>7. ASSUME NEW p \in 1..C
      PROVE  /\ Cut(p - 1) \in Nat /\ Cut(p) \in Nat
             /\ Cut(p - 1) <= Cut(p) /\ Cut(p) <= n
  BY <1>3, <1>4, <1>5, <1>6
<1>8. ASSUME NEW p \in 1..C, NEW q \in 1..C, p < q
      PROVE  Cut(p) <= Cut(q - 1)
  <2>1. p \in 0..C /\ q - 1 \in 0..C /\ p <= q - 1
    BY <1>1, <1>8
  <2> QED
    BY <1>3, <2>1
<1>9. ASSUME NEW x \in 0..(n - 1)
      PROVE  \E p \in 1..C : Cut(p - 1) <= x /\ x < Cut(p)
  <2> DEFINE Above == {p \in 0..C : x < Cut(p)}
  <2>1. C \in Above
    BY <1>4, <1>6
  <2>2. PICK m \in Above : \A k \in Above : m <= k
    <3>1. Above \in SUBSET Nat /\ Above # {}
      BY <2>1
    <3> HIDE DEF Above
    <3> QED
      BY <3>1, LeastNumber
  <2>3. m \in 1..C
    BY <1>4, <2>2
  <2>4. m - 1 \in 0..C /\ ~(m <= m - 1)
    BY <1>1, <2>3
  <2>5. ~(x < Cut(m - 1))
    BY <2>2, <2>4
  <2>6. Cut(m - 1) \in Nat
    BY <1>7, <2>3
  <2> QED
    BY <2>2, <2>3, <2>5, <2>6
<1>10. \A p \in 1..C : /\ ShardRange(n, p).from = Cut(p - 1)
                      /\ ShardRange(n, p).to = Cut(p)
  BY <1>2
<1> QED
  BY <1>7, <1>8, <1>9, <1>10 DEF C

-----------------------------------------------------------------------------
(* What the callers have been answered                                     *)

Collection == kind \in {"shards", "replicas"}

\* What caller c knows of its task at sub-index i.
AnswerOf(c, i) == futures[<<c, i, "call">>]

\* A call through runOnIndex submits its tasks in turn, waits for them in turn,
\* and has seen each of them done unless it throws.
AnswersFollow(c) ==
  /\ step[c] = "idle" => \A i \in Workers : AnswerOf(c, i) = "none"
  /\ step[c] = "submit" =>
       \A p \in 1..Count :
         IF p < call[c].at THEN AnswerOf(c, indices_[p]) \in {"pending"} \cup Outcomes
                           ELSE AnswerOf(c, indices_[p]) = "none"
  /\ step[c] = "gather" =>
       \A p \in 1..Count :
         /\ AnswerOf(c, indices_[p]) \in {"pending"} \cup Outcomes
         /\ ~call[c].thrown /\ p < call[c].at => AnswerOf(c, indices_[p]) = "done"
  /\ step[c] = "finish" /\ call[c].op \in Runs /\ ~call[c].thrown =>
       \A p \in 1..Count : AnswerOf(c, indices_[p]) = "done"

AnswersKnown == Collection /\ isThreaded_ => \A c \in Callers : AnswersFollow(c)

\* A thread that runs a task answers its future.
LEMMA PerformAnswers ==
  ASSUME WorkersSound, NEW w \in Workers, Perform(w)
  PROVE  \E r \in Outcomes : \E t \in Tasks :
           /\ futures[t] = "pending" /\ t[2] = w
           /\ futures' = [futures EXCEPT ![t] = r]
           /\ TaskEffect(t, r)
<1>1. PICK r \in Outcomes :
        \/ RunTask(w, r) /\ TaskEffect(running[w][1], r)
        \/ Flush(w, r) /\ TaskEffect(Head(queue_[w]), r)
  BY DEF Perform
<1>2. IInv
  BY DEF WorkersSound
<1>3. PICK t \in Range(Jobs[w]) : TaskEffect(t, r) /\ futures' = [futures EXCEPT ![t] = r]
  <2>1. /\ running[w] \in Seq(Tasks) /\ queue_[w] \in Seq(Tasks)
        /\ Range(Jobs[w]) = Range(running[w]) \cup Range(queue_[w])
    <3>1. /\ running[w] \in Seq(Tasks) /\ queue_[w] \in Seq(Tasks)
          /\ Jobs[w] = running[w] \o queue_[w]
      BY <1>2, MappedStates
    <3> QED
      BY <3>1, ConcatRange
  <2>2. CASE RunTask(w, r) /\ TaskEffect(running[w][1], r)
    <3>1. running[w] # <<>>
      BY <1>2, <2>2 DEF RunTask, IInv, StateFollowsThread
    <3>2. 1 \in 1..Len(running[w])
      BY <2>1, <3>1, EmptySeq, LenProperties
    <3>3. running[w][1] \in Range(running[w])
      BY <2>1, <3>2, RangeBySequence
    <3> QED
      BY <2>1, <2>2, <3>3 DEF RunTask
  <2>3. CASE Flush(w, r) /\ TaskEffect(Head(queue_[w]), r)
    <3>1. queue_[w] # <<>>
      BY <2>3 DEF Flush
    <3>2. 1 \in 1..Len(queue_[w]) /\ Head(queue_[w]) = queue_[w][1]
      BY <2>1, <3>1, EmptySeq, LenProperties
    <3>3. Head(queue_[w]) \in Range(queue_[w])
      BY <2>1, <3>2, RangeBySequence
    <3> QED
      BY <2>1, <2>3, <3>3 DEF Flush
  <2> QED
    BY <1>1, <2>2, <2>3
<1>4. t \in Tasks
  BY <1>2, JobsTyped, RangeBySequence
<1>5. futures[t] = "pending" /\ t[2] = w
  BY <1>3, <1>4 DEF WorkersSound, TasksFiled
<1> QED
  BY <1>3, <1>4, <1>5

\* A caller's step leaves the answers to the others.
LEMMA OthersAnswers ==
  ASSUME Control, Crew, NEW c \in Callers, Caller(c)
  PROVE  \A t \in Tasks : t[1] # c => futures'[t] = futures[t]
<1>1. DOMAIN futures = Tasks
  BY DEF Crew, WorkersSound, IInv, WorkerTypeOK
<1>2. CASE \/ Construct(c) \/ Constructed(c) \/ Inline(c) \/ Gather(c) \/ StopWorker(c)
           \/ Join(c) \/ Erase(c)
  BY <1>2 DEF Construct, Constructed, Inline, Gather, StopWorker, Join, Erase,
              StartThread, Stop, workerVars
<1>3. CASE AddFirst(c)
  <2>1. step[c] = "first" /\ Add(Worker(c), Task(c, "start"))
    BY <1>3 DEF AddFirst
  <2>2. Task(c, "start")[1] = c
    BY <2>1, InCall
  <2> QED
    BY <1>1, <2>1, <2>2 DEF Add
<1>4. CASE Submit(c)
  <2>1. step[c] = "submit" /\ Add(Worker(c), Task(c, "call"))
    BY <1>4 DEF Submit
  <2>2. Task(c, "call")[1] = c
    BY <2>1, InCall
  <2> QED
    BY <1>1, <2>1, <2>2 DEF Add
<1>5. CASE Finish(c)
  BY <1>5 DEF Finish, Forget
<1> QED
  BY <1>2, <1>3, <1>4, <1>5 DEF Caller

\* The caller submits a task to the sub-index at its position.
LEMMA SubmitAsks ==
  ASSUME Control, Crew, NEW c \in Callers, Submit(c)
  PROVE  \A p \in 1..Count :
           AnswerOf(c, indices_[p])'
             = IF p = call[c].at THEN "pending" ELSE AnswerOf(c, indices_[p])
<1>0. /\ step[c] = "submit" /\ Add(Worker(c), Task(c, "call"))
      /\ UNCHANGED indices_
  BY DEF Submit, dataVars
<1>1. /\ call[c].at \in 1..Count /\ Count \in Nat
      /\ Worker(c) \in Workers
      /\ \A p \in 1..Count : /\ indices_[p] \in Workers
                             /\ indices_[p] = Worker(c) <=> p = call[c].at
  BY <1>0, InCall
<1>2. futures' = [futures EXCEPT ![Task(c, "call")] = "pending"]
  BY <1>0, WorkerThere DEF Add, Serving
<1>3. DOMAIN futures = Tasks /\ Tasks = Callers \X Workers \X {"start", "call"}
  BY ThreadedAssumption DEF Crew, WorkersSound, IInv, WorkerTypeOK
<1>4. \A i \in Workers : AnswerOf(c, i)' = IF i = Worker(c) THEN "pending" ELSE AnswerOf(c, i)
  <2> TAKE i \in Workers
  <2>1. <<c, i, "call">> \in Tasks
    BY <1>3
  <2>2. <<c, i, "call">> = Task(c, "call") <=> i = Worker(c)
    BY DEF Task
  <2> QED
    BY <1>2, <1>3, <2>1, <2>2 DEF AnswerOf
<1>5. \A p \in 1..Count :
        AnswerOf(c, indices_[p])' = IF p = call[c].at THEN "pending" ELSE AnswerOf(c, indices_[p])
  <2> TAKE p \in 1..Count
  <2>1. PICK i \in Workers : i = indices_[p]
    BY <1>1
  <2>2. AnswerOf(c, indices_[p])' = AnswerOf(c, i)'
    BY <1>0, <2>1 DEF AnswerOf
  <2> QED
    BY <1>1, <1>4, <2>1, <2>2
<1> QED
  BY <1>5

\* What each kind of step does to what a caller has been answered.
LEMMA SubmitAnswers ==
  ASSUME Control, Crew, Collection, NEW c \in Callers, AnswersFollow(c), Submit(c)
  PROVE  AnswersFollow(c)'
<1>0. /\ step[c] = "submit" /\ UNCHANGED indices_ /\ kind # "split"
      /\ Advance(c, IF kind = "split" THEN "construct" ELSE "submit", "gather")
  BY DEF Submit, dataVars, Collection
<1>1. /\ call[c].at \in 1..Count /\ Count \in Nat /\ call[c].last = Count
  BY <1>0, InCall DEF CallFits, Whole
<1>5. \A p \in 1..Count :
        AnswerOf(c, indices_[p])' = IF p = call[c].at THEN "pending" ELSE AnswerOf(c, indices_[p])
  BY SubmitAsks
<1>6. \A p \in 1..Count : IF p < call[c].at THEN AnswerOf(c, indices_[p]) \in {"pending"} \cup Outcomes
                           ELSE AnswerOf(c, indices_[p]) = "none"
  BY <1>0 DEF AnswersFollow
<1>7. call = [d \in Callers |-> call[d]] /\ IsCall(call[c]) /\ step \in [Callers -> Steps]
  BY DEF Control
<1>8. Count' = Count /\ indices_' = indices_
  BY <1>0 DEF Count
<1>9. CASE call[c].at < call[c].last
  <2>1. step'[c] = "submit" /\ call'[c].at = call[c].at + 1
    BY <1>0, <1>7, <1>9 DEF Advance, CallerGoto, IsCall
  <2>2. \A p \in 1..Count : p < call[c].at + 1 <=> p < call[c].at \/ p = call[c].at
    BY <1>1
  <2>3. \A p \in 1..Count : IF p < call'[c].at
                           THEN AnswerOf(c, indices_[p])' \in {"pending"} \cup Outcomes
                           ELSE AnswerOf(c, indices_[p])' = "none"
    BY <1>5, <1>6, <2>1, <2>2
  <2> QED
    BY <1>8, <2>1, <2>3 DEF AnswersFollow
<1>10. CASE ~(call[c].at < call[c].last)
  <2>1. step'[c] = "gather" /\ call'[c].at = 1
    BY <1>0, <1>7, <1>10 DEF Advance, CallerGoto, IsCall
  <2>2. \A p \in 1..Count : (p < call[c].at \/ p = call[c].at) /\ ~(p < 1)
    BY <1>1, <1>10
  <2>3. \A p \in 1..Count : AnswerOf(c, indices_[p])' \in {"pending"} \cup Outcomes
    BY <1>5, <1>6, <2>2
  <2> QED
    BY <1>8, <2>1, <2>2, <2>3 DEF AnswersFollow
<1> QED
  BY <1>9, <1>10

LEMMA GatherAnswers ==
  ASSUME Control, Crew, Collection, NEW c \in Callers, AnswersFollow(c), Gather(c)
  PROVE  AnswersFollow(c)'
<1>0. /\ step[c] = "gather" /\ UNCHANGED <<futures, indices_>> /\ kind # "split"
      /\ futures[Task(c, "call")] # "pending"
  BY DEF Gather, dataVars, workerVars, Collection
<1>1. /\ call[c].at \in 1..Count /\ Count \in Nat /\ call[c].last = Count
      /\ call[c].op \in Runs
  BY <1>0, InCall DEF CallFits, Whole
<1>2. \A p \in 1..Count :
        /\ AnswerOf(c, indices_[p]) \in {"pending"} \cup Outcomes
        /\ ~call[c].thrown /\ p < call[c].at => AnswerOf(c, indices_[p]) = "done"
  BY <1>0 DEF AnswersFollow
<1>3. futures[Task(c, "call")] = AnswerOf(c, indices_[call[c].at])
  BY DEF Task, AnswerOf, Worker
<1>4. AnswerOf(c, indices_[call[c].at]) \in Outcomes
  BY <1>0, <1>1, <1>2, <1>3
<1>5. call = [d \in Callers |-> call[d]] /\ IsCall(call[c]) /\ step \in [Callers -> Steps]
  BY DEF Control
<1>6. /\ step'[c] = IF call[c].at = call[c].last THEN "finish" ELSE "gather"
      /\ call'[c].at = IF call[c].at = call[c].last THEN 1 ELSE call[c].at + 1
      /\ call'[c].thrown = (call[c].thrown \/ futures[Task(c, "call")] = "thrown")
      /\ call'[c].op = call[c].op
  BY <1>0, <1>5 DEF Gather, Leaves, CallerGoto, IsCall
<1>7. ASSUME ~call'[c].thrown
      PROVE  \A p \in 1..Count : p < call[c].at \/ p = call[c].at => AnswerOf(c, indices_[p]) = "done"
  <2>1. ~call[c].thrown /\ futures[Task(c, "call")] # "thrown"
    BY <1>6, <1>7
  <2>2. AnswerOf(c, indices_[call[c].at]) = "done"
    BY <1>3, <1>4, <2>1 DEF Outcomes
  <2> QED
    BY <1>2, <2>1, <2>2
<1>8. \A p \in 1..Count : AnswerOf(c, indices_[p])' = AnswerOf(c, indices_[p])
  BY <1>0 DEF AnswerOf
<1>9. Count' = Count /\ indices_' = indices_
  BY <1>0 DEF Count
<1>10. CASE call[c].at = call[c].last
  <2>1. \A p \in 1..Count : p < call[c].at \/ p = call[c].at
    BY <1>1, <1>10
  <2> QED
    BY <1>6, <1>7, <1>8, <1>9, <1>10, <2>1 DEF AnswersFollow
<1>11. CASE call[c].at # call[c].last
  <2>1. \A p \in 1..Count : p < call[c].at + 1 <=> p < call[c].at \/ p = call[c].at
    BY <1>1
  <2> QED
    BY <1>2, <1>6, <1>7, <1>8, <1>9, <1>11, <2>1 DEF AnswersFollow
<1> QED
  BY <1>10, <1>11

LEMMA CallerAnswers ==
  ASSUME Control, Crew, Collection, isThreaded_, NEW c \in Callers, AnswersFollow(c),
         Caller(c)
  PROVE  AnswersFollow(c)'
<1>0. Control'
  BY CallerKeepsControl
<1>1. CASE Finish(c)
  <2>1. step'[c] = "idle" /\ Forget({c} \X Workers \X {"start", "call"})
    BY <1>1 DEF Finish, CallerGoto, Control
  <2>2. \A i \in Workers : <<c, i, "call">> \in Tasks
    BY ThreadedAssumption
  <2>3. \A i \in Workers : AnswerOf(c, i)' = "none"
    BY <2>1, <2>2 DEF Forget, AnswerOf
  <2> QED
    BY <2>1, <2>3 DEF AnswersFollow
<1>2. CASE Construct(c) \/ AddFirst(c) \/ Constructed(c) \/ StopWorker(c) \/ Join(c) \/ Erase(c)
  <2>1. /\ step[c] \in Building \cup {"stop", "join", "erase"} /\ CallFits(c)
        /\ kind # "split"
    BY <1>2 DEF Construct, AddFirst, Constructed, StopWorker, Join, Erase, Building,
                Control, Collection
  <2>2. call[c].op \notin Runs
    BY <2>1 DEF CallFits, Runs, Building
  <2>3. call'[c].op = call[c].op
    <3>1. call = [d \in Callers |-> call[d]] /\ IsCall(call[c])
      BY DEF Control
    <3>2. CASE Join(c)
      BY <3>1, <3>2 DEF Join, Advance, IsCall
    <3>3. CASE ~Join(c)
      BY <1>2, <3>3 DEF Construct, AddFirst, Constructed, StopWorker, Erase
    <3> QED
      BY <3>2, <3>3
  <2>4. step'[c] \notin {"idle", "submit", "gather"}
    BY <1>2, <2>1
       DEF Construct, AddFirst, Constructed, StopWorker, Join, Erase, Advance,
           CallerGoto, Control
  <2> QED
    BY <2>2, <2>3, <2>4 DEF AnswersFollow
<1>3. CASE Inline(c)
  <2>1. ~isThreaded_
    BY <1>3 DEF Inline, Control, CallFits
  <2> QED
    BY <2>1
<1> QED
  BY <1>1, <1>2, <1>3, SubmitAnswers, GatherAnswers DEF Caller

\* A caller's answers stay when its tasks do, or when one of them is performed.
LEMMA AnswersStay ==
  ASSUME Control, NEW d \in Callers, AnswersFollow(d),
         step'[d] = step[d], call'[d] = call[d],
         indices_' = indices_ \/ step[d] = "idle",
         \A t \in Tasks : t[1] = d => \/ futures'[t] = futures[t]
                                      \/ futures[t] = "pending" /\ futures'[t] \in Outcomes
  PROVE  AnswersFollow(d)'
<1>1. \A i \in Workers : \/ AnswerOf(d, i)' = AnswerOf(d, i)
                         \/ AnswerOf(d, i) = "pending" /\ AnswerOf(d, i)' \in Outcomes
  <2> TAKE i \in Workers
  <2>1. <<d, i, "call">> \in Tasks /\ <<d, i, "call">>[1] = d
    BY ThreadedAssumption
  <2> QED
    BY <2>1 DEF AnswerOf
<1>2. CASE step[d] = "idle"
  BY <1>1, <1>2 DEF AnswersFollow
<1>3. CASE step[d] # "idle"
  <2>1. indices_' = indices_ /\ Count' = Count
    BY <1>3 DEF Count
  <2>2. \A p \in 1..Count :
          \/ AnswerOf(d, indices_[p])' = AnswerOf(d, indices_[p])
          \/ AnswerOf(d, indices_[p]) = "pending" /\ AnswerOf(d, indices_[p])' \in Outcomes
    <3> TAKE p \in 1..Count
    <3>1. PICK i \in Workers : i = indices_[p]
      BY ElementOfSeq DEF Control, Configured, Count
    <3>2. AnswerOf(d, indices_[p])' = AnswerOf(d, i)'
      BY <2>1, <3>1 DEF AnswerOf
    <3> QED
      BY <1>1, <3>1, <3>2
  <2> QED
    BY <1>3, <2>1, <2>2 DEF AnswersFollow, Outcomes
<1> QED
  BY <1>2, <1>3

LEMMA BeginAnswers ==
  ASSUME Control, Collection, NEW c \in Callers, AnswersFollow(c), Begin(c)
  PROVE  AnswersFollow(c)'
<1>1. PICK s, r : /\ step[c] = "idle" /\ step' = [step EXCEPT ![c] = s]
                  /\ call' = [call EXCEPT ![c] = r]
                  /\ IsCall(r) /\ Begins(c, s, r)
  BY BeginSteps
<1>2. step'[c] = s /\ call'[c] = r
  BY <1>1 DEF Control
<1>3. \A i \in Workers : AnswerOf(c, i)' = "none"
  BY <1>1 DEF AnswersFollow, AnswerOf, Begin, BeginRun, BeginSplit, BeginAddIndex, BeginRemove,
              workerVars
<1>4. CASE r.op \in Runs
  <2>1. s \in {"submit", "inline"} /\ UNCHANGED indices_ /\ r.at = 1
    BY <1>1, <1>4 DEF Begins, Collection, Run, Runs
  <2>2. \A p \in 1..Count : indices_[p] \in Workers /\ ~(p < 1)
    BY ElementOfSeq DEF Control, Configured, Count
  <2>3. \A p \in 1..Count : AnswerOf(c, indices_[p])' = "none"
    <3> TAKE p \in 1..Count
    <3>1. PICK i \in Workers : i = indices_[p]
      BY <2>2
    <3> QED
      BY <1>3, <2>1, <3>1 DEF AnswerOf
  <2>4. Count' = Count
    BY <2>1 DEF Count
  <2> QED
    BY <1>2, <2>1, <2>2, <2>3, <2>4 DEF AnswersFollow
<1>5. CASE r.op \notin Runs
  <2>1. s \in {"construct", "finish", "stop", "erase"}
    BY <1>1, <1>5 DEF Begins, Collection, Runs
  <2> QED
    BY <1>2, <1>5, <2>1 DEF AnswersFollow
<1> QED
  BY <1>4, <1>5

LEMMA AnswersHold == Inv /\ AnswersKnown /\ [Next]_vars => AnswersKnown'
<1> SUFFICES ASSUME Inv, AnswersKnown, [Next]_vars, Collection', isThreaded_',
                    NEW d \in Callers
             PROVE  AnswersFollow(d)'
  BY DEF AnswersKnown
<1>0. UNCHANGED confVars
  <2>1. \A c \in Callers : Caller(c) => UNCHANGED confVars
    BY CallerFrame DEF Inv
  <2>2. \A c \in Callers : Begin(c) => UNCHANGED confVars
    BY DEF Begin, BeginRun, BeginSplit, BeginAddIndex, BeginRemove
  <2> QED
    BY <2>1, <2>2 DEF Next, Thread, Perform, DirectUse, Spurious, Finished, vars
<1>1. /\ Collection /\ isThreaded_ /\ kind # "worker" /\ Control /\ Crew
      /\ \A c \in Callers : AnswersFollow(c)
  BY <1>0 DEF Collection, confVars, Inv, AnswersKnown
<1>2. ASSUME NEW c \in Callers, Begin(c)
      PROVE  AnswersFollow(d)'
  <2>1. CASE d = c
    BY <1>1, <1>2, <2>1, BeginAnswers
  <2>2. CASE d # c
    <3>1. PICK s, r : /\ step[c] = "idle" /\ step' = [step EXCEPT ![c] = s]
                      /\ call' = [call EXCEPT ![c] = r]
                      /\ IsCall(r) /\ Begins(c, s, r)
      BY <1>1, <1>2, BeginSteps
    <3>2. step'[d] = step[d] /\ call'[d] = call[d]
      BY <1>1, <2>2, <3>1 DEF Control
    <3>3. indices_' = indices_ \/ step[d] = "idle"
      BY <3>1 DEF Begins, AllIdle
    <3>4. futures' = futures
      BY <1>2 DEF Begin, BeginRun, BeginSplit, BeginAddIndex, BeginRemove, workerVars
    <3> QED
      BY <1>1, <3>2, <3>3, <3>4, AnswersStay
  <2> QED
    BY <2>1, <2>2
<1>3. ASSUME NEW c \in Callers, Caller(c)
      PROVE  AnswersFollow(d)'
  <2>1. CASE d = c
    BY <1>1, <1>3, <2>1, CallerAnswers
  <2>2. CASE d # c
    <3>1. step'[d] = step[d] /\ call'[d] = call[d]
      BY <1>1, <1>3, <2>2, CallerFrame
    <3>2. indices_' = indices_ \/ step[d] = "idle"
      <4>1. CASE Erase(c)
        <5>1. step[c] = "erase" /\ CallFits(c)
          BY <1>1, <4>1 DEF Erase, Control
        <5>2. call[c].op # "search"
          BY <5>1 DEF CallFits
        <5> QED
          BY <1>1, <2>2, <5>1, <5>2 DEF Control, Alone
      <4>2. CASE ~Erase(c)
        BY <1>3, <4>2 DEF Caller, Construct, AddFirst, Constructed, Submit, Inline, Gather,
                          StopWorker, Join, Finish, dataVars
      <4> QED
        BY <4>1, <4>2
    <3>3. \A t \in Tasks : t[1] = d => futures'[t] = futures[t]
      BY <1>1, <1>3, <2>2, OthersAnswers
    <3> QED
      BY <1>1, <3>1, <3>2, <3>3, AnswersStay
  <2> QED
    BY <2>1, <2>2
<1>4. ASSUME NEW w \in Workers, Thread(w) \/ Spurious(w)
      PROVE  AnswersFollow(d)'
  <2>1. UNCHANGED <<step, call, indices_>>
    BY <1>4 DEF Thread, Perform, Spurious, dataVars, callVars
  <2>2. \A t \in Tasks : \/ futures'[t] = futures[t]
                         \/ futures[t] = "pending" /\ futures'[t] \in Outcomes
    <3>1. CASE Perform(w)
      <4>1. DOMAIN futures = Tasks /\ WorkersSound
        BY <1>1 DEF Crew, WorkersSound, IInv, WorkerTypeOK
      <4>2. PICK r \in Outcomes : \E t \in Tasks :
              /\ futures[t] = "pending" /\ futures' = [futures EXCEPT ![t] = r]
        BY <3>1, <4>1, PerformAnswers
      <4> QED
        BY <4>1, <4>2
    <3>2. CASE Loop(w) \/ SpuriousWakeup(w)
      BY <1>1, <3>2, LoopEffect DEF Crew
    <3> QED
      BY <1>4, <3>1, <3>2 DEF Thread, Spurious
  <2> QED
    BY <1>1, <2>1, <2>2, AnswersStay
<1>5. CASE UNCHANGED vars
  <2>1. UNCHANGED <<step, call, indices_, futures>>
    BY <1>5 DEF vars, dataVars, callVars, workerVars
  <2> QED
    BY <1>1, <2>1, AnswersStay
<1>6. ASSUME NEW w \in Workers, DirectUse(w)
      PROVE  AnswersFollow(d)'
  BY <1>1, <1>6 DEF DirectUse
<1> QED
  BY <1>2, <1>3, <1>4, <1>5, <1>6 DEF Next, Finished

LEMMA InitAnswers == Init => AnswersKnown
<1> SUFFICES ASSUME Init, Collection, isThreaded_, NEW c \in Callers PROVE AnswersFollow(c)
  BY DEF AnswersKnown
<1>1. step[c] = "idle" /\ WorkersWaiting
  BY DEF Init, Collection
<1>2. \A i \in Workers : AnswerOf(c, i) = "none"
  BY <1>1, ThreadedAssumption DEF WorkersWaiting, AnswerOf
<1> QED
  BY <1>1, <1>2 DEF AnswersFollow

-----------------------------------------------------------------------------
(* What a call has done to the sub-indexes so far                          *)

\* The calls that change what the sub-indexes hold.
Writing(c) == step[c] # "idle" /\ call[c].op \in {"add", "reset"}

\* Whether the sub-index at position p has taken what the call of c does.
Took(c, p) ==
  IF isThreaded_ THEN AnswerOf(c, indices_[p]) = "done"
  ELSE step[c] = "finish" \/ p < call[c].at

\* No call but a search has thrown, and no shard with vectors was taken out.
Unharmed ==
  clean /\ \A c \in Callers : step[c] # "idle" /\ call[c].op # "search" => ~call[c].thrown

\* Until its end a call stays the same, and is not harmed less.
LEMMA CallGoesOn ==
  ASSUME Control, NEW c \in Callers, Caller(c), ~Finish(c)
  PROVE  /\ step[c] # "idle" /\ step'[c] # "idle"
         /\ call'[c].op = call[c].op /\ call'[c].n = call[c].n
         /\ call'[c].base = call[c].base
         /\ call[c].thrown => call'[c].thrown
<1>1. call = [d \in Callers |-> call[d]] /\ IsCall(call[c]) /\ step \in [Callers -> Steps]
  BY DEF Control
<1>2. CASE Construct(c) \/ AddFirst(c) \/ Constructed(c) \/ StopWorker(c) \/ Erase(c)
  BY <1>1, <1>2 DEF Construct, AddFirst, Constructed, StopWorker, Erase, CallerGoto
<1>3. CASE Submit(c)
  BY <1>1, <1>3 DEF Submit, Advance, CallerGoto, IsCall
<1>4. CASE Inline(c)
  BY <1>1, <1>4 DEF Inline, Advance, CallerGoto, IsCall
<1>5. CASE Gather(c)
  BY <1>1, <1>5 DEF Gather, CallerGoto, IsCall
<1>6. CASE Join(c)
  BY <1>1, <1>6 DEF Join, Advance, CallerGoto, IsCall
<1> QED
  BY <1>2, <1>3, <1>4, <1>5, <1>6 DEF Caller

\* What the threads leave alone.
LEMMA ThreadFrame ==
  ASSUME NEW w \in Workers, Thread(w) \/ Spurious(w) \/ DirectUse(w)
  PROVE  UNCHANGED <<confVars, indices_, ntotal, clean, step, call>>
BY DEF Thread, Perform, Spurious, DirectUse, confVars, dataVars, callVars

\* Harm stays until the end of the call, which then is not clean.
LEMMA UnharmedBefore ==
  ASSUME Control, [Next]_vars, Unharmed'
  PROVE  Unharmed
<1> SUFFICES clean /\ \A d \in Callers :
                        step[d] # "idle" /\ call[d].op # "search" => ~call[d].thrown
  BY DEF Unharmed
<1>0. clean' /\ \A d \in Callers :
                  step'[d] # "idle" /\ call'[d].op # "search" => ~call'[d].thrown
  BY DEF Unharmed
<1>1. ASSUME NEW c \in Callers, Begin(c)
      PROVE  clean /\ \A d \in Callers :
               step[d] # "idle" /\ call[d].op # "search" => ~call[d].thrown
  <2>1. PICK s, r : step[c] = "idle" /\ step' = [step EXCEPT ![c] = s]
                      /\ call' = [call EXCEPT ![c] = r]
    BY <1>1, BeginSteps
  <2>2. \A d \in Callers \ {c} : step'[d] = step[d] /\ call'[d] = call[d]
    BY <2>1 DEF Control
  <2>3. clean
    BY <1>0, <1>1 DEF Begin, BeginRun, BeginSplit, BeginAddIndex, BeginRemove, dataVars
  <2> QED
    BY <1>0, <2>1, <2>2, <2>3
<1>2. ASSUME NEW c \in Callers, Caller(c)
      PROVE  clean /\ \A d \in Callers :
               step[d] # "idle" /\ call[d].op # "search" => ~call[d].thrown
  <2>1. \A d \in Callers \ {c} : step'[d] = step[d] /\ call'[d] = call[d]
    BY <1>2, CallerFrame
  <2>2. CASE Finish(c)
    <3>1. clean /\ (call[c].op = "search" \/ ~call[c].thrown)
      BY <1>0, <2>2 DEF Finish
    <3> QED
      BY <1>0, <2>1, <3>1
  <2>3. CASE ~Finish(c)
    <3>1. clean
      BY <1>0, <1>2, <2>3
         DEF Caller, Construct, AddFirst, Constructed, Submit, Inline, Gather,
             StopWorker, Join, Erase, dataVars
    <3> QED
      BY <1>0, <1>2, <2>1, <2>3, <3>1, CallGoesOn
  <2> QED
    BY <2>2, <2>3
<1>3. ASSUME UNCHANGED <<clean, step, call>>
      PROVE  clean /\ \A d \in Callers :
               step[d] # "idle" /\ call[d].op # "search" => ~call[d].thrown
  BY <1>0, <1>3
<1>4. CASE UNCHANGED vars
  BY <1>3, <1>4 DEF vars, dataVars, callVars
<1> QED
  BY <1>1, <1>2, <1>3, <1>4, ThreadFrame DEF Next, Finished

\* Who changes the index is alone with its threads.
LEMMA OnlyWriter ==
  ASSUME Control, NEW c \in Callers, Writing(c)
  PROVE  /\ \A d \in Callers \ {c} : step[d] = "idle" /\ ~Caller(d)
         /\ \A d \in Callers : ~Begin(d)
         /\ kind # "split" /\ kind # "worker"
         /\ step[c] \in {"submit", "gather", "inline", "finish"}
<1>1. \A d \in Callers \ {c} : step[d] = "idle"
  BY DEF Control, Alone, Writing
<1>2. \A d \in Callers : step[d] = "idle" => ~Caller(d)
  BY DEF Caller, Construct, AddFirst, Constructed, Submit, Inline, Gather,
         StopWorker, Join, Erase, Finish
<1>3. ASSUME NEW d \in Callers, Begin(d)
      PROVE  FALSE
  <2>1. AllIdle \/ OthersSearch
    BY <1>3 DEF Begin, BeginRun, BeginSplit, BeginAddIndex, BeginRemove, MayChange
  <2> QED
    BY <2>1 DEF AllIdle, OthersSearch, Writing
<1>4. kind # "split" /\ kind # "worker"
  BY DEF Control, CallFits, Writing
<1>5. step[c] \in {"submit", "gather", "inline", "finish"}
  <2>1. CallFits(c) /\ step[c] \in Steps
    BY DEF Control
  <2> QED
    BY <1>4, <2>1 DEF CallFits, Writing, Building, Steps
<1> QED
  BY <1>1, <1>2, <1>3, <1>4, <1>5

\* The task at position q changes its sub-index, and no other does.
WritesAt(c, q) ==
  /\ ~Took(c, q) /\ Took(c, q)'
  /\ \A p \in 1..Count : p # q => (Took(c, p)' <=> Took(c, p))
  /\ content' = [content EXCEPT ![indices_[q]] =
       IF call[c].op = "reset" THEN <<>> ELSE @ \o AddedTo(c, indices_[q], q)]

LEMMA PositionIs ==
  ASSUME Configured, NEW q \in 1..Count
  PROVE  Position(indices_[q]) = q /\ indices_[q] \in Workers
<1>1. \A p \in 1..Count : indices_[p] = indices_[q] => p = q
  BY RangeBySequence DEF Configured, Count
<1>2. indices_[q] \in Workers
  BY ElementOfSeq DEF Configured, Count
<1> QED
  BY <1>1, <1>2 DEF Position

\* What a task of add or reset does.
LEMMA WriteEffect ==
  ASSUME Configured, NEW c \in Callers, call[c].op \in {"add", "reset"},
         NEW q \in 1..Count, NEW r \in Outcomes, Effect(c, indices_[q], r)
  PROVE  /\ r = "thrown" => UNCHANGED content
         /\ r = "done" =>
              content' = [content EXCEPT ![indices_[q]] =
                IF call[c].op = "reset" THEN <<>> ELSE @ \o AddedTo(c, indices_[q], q)]
<1>1. Position(indices_[q]) = q
  BY PositionIs
<1>2. CASE r = "thrown"
  BY <1>2 DEF Effect
<1>3. CASE r = "done" /\ call[c].op = "reset"
  BY <1>1, <1>3 DEF Effect
<1>4. CASE r = "done" /\ call[c].op = "add"
  BY <1>1, <1>4 DEF Effect
<1> QED
  BY <1>2, <1>3, <1>4 DEF Outcomes

\* The task a thread runs is one of a call under way, at one of its positions.
LEMMA ThreadTask ==
  ASSUME Control, Crew, kind # "worker", NEW w \in Workers, Perform(w)
  PROVE  \E r \in Outcomes : \E t \in Tasks :
           /\ futures[t] = "pending" /\ futures' = [futures EXCEPT ![t] = r]
           /\ TaskEffect(t, r) /\ step[t[1]] # "idle"
           /\ t[3] # "start" =>
                /\ Effect(t[1], t[2], r)
                /\ \E q \in 1..Count : t[2] = indices_[q] /\ AwaitedAt(t[1], q)
<1>1. PICK r \in Outcomes : \E t \in Tasks :
        /\ futures[t] = "pending" /\ futures' = [futures EXCEPT ![t] = r]
        /\ TaskEffect(t, r)
  BY PerformAnswers DEF Crew
<1>2. PICK t \in Tasks :
        /\ futures[t] = "pending" /\ futures' = [futures EXCEPT ![t] = r]
        /\ TaskEffect(t, r)
  BY <1>1
<1>3. Wanted(t)
  BY <1>2 DEF Crew, PendingWanted
<1>4. step[t[1]] # "idle"
  BY <1>3 DEF Wanted, AwaitedAt, Building
<1>5. t[3] # "start" => Effect(t[1], t[2], r)
  BY <1>2 DEF TaskEffect
<1>6. t[3] # "start" => \E q \in 1..Count : t[2] = indices_[q] /\ AwaitedAt(t[1], q)
  BY <1>3 DEF Wanted
<1> QED
  BY <1>2, <1>4, <1>5, <1>6

\* Nothing changes while no call changes anything.
LEMMA QuietContent ==
  ASSUME Inv, [Next]_vars, \A c \in Callers : ~Writing(c)
  PROVE  content' = content
<1>1. Control
  BY DEF Inv
<1>2. ASSUME NEW c \in Callers, Caller(c) \/ Begin(c)
      PROVE  content' = content
  <2>1. CASE Inline(c)
    <3>1. step[c] = "inline" /\ CallFits(c)
      BY <1>1, <2>1 DEF Inline, Control
    <3>2. call[c].op = "search"
      BY <3>1 DEF CallFits, Runs, Writing
    <3> QED
      BY <2>1, <3>2 DEF Inline, Effect, Outcomes
  <2>2. CASE ~Inline(c)
    BY <1>2, <2>2
       DEF Caller, Construct, AddFirst, Constructed, Submit, Gather, StopWorker, Join,
           Erase, Finish, dataVars, Begin, BeginRun, BeginSplit, BeginAddIndex, BeginRemove
  <2> QED
    BY <2>1, <2>2
<1>3. ASSUME NEW w \in Workers, Perform(w)
      PROVE  content' = content
  <2>1. CASE kind = "worker"
    BY <1>3, <2>1 DEF Perform, TaskEffect
  <2>2. CASE kind # "worker"
    <3>1. Crew
      BY <2>2 DEF Inv
    <3>2. PICK r \in Outcomes : \E t \in Tasks :
            /\ TaskEffect(t, r) /\ step[t[1]] # "idle"
            /\ t[3] # "start" => Effect(t[1], t[2], r)
      BY <1>1, <1>3, <2>2, <3>1, ThreadTask
    <3>3. PICK t \in Tasks :
            /\ TaskEffect(t, r) /\ step[t[1]] # "idle"
            /\ t[3] # "start" => Effect(t[1], t[2], r)
      BY <3>2
    <3>4. CASE t[3] = "start"
      BY <2>2, <3>3, <3>4 DEF TaskEffect
    <3>5. CASE t[3] # "start"
      <4>1. t[1] \in Callers /\ call[t[1]].op \notin {"add", "reset"}
        BY <3>3, TaskParts DEF Writing
      <4>2. Effect(t[1], t[2], r)
        BY <3>3, <3>5
      <4> QED
        BY <4>1, <4>2 DEF Effect, Outcomes
    <3> QED
      BY <3>4, <3>5
  <2> QED
    BY <2>1, <2>2
<1>4. ASSUME NEW w \in Workers, Thread(w) \/ DirectUse(w) \/ Spurious(w), ~Perform(w)
      PROVE  content' = content
  BY <1>4 DEF Thread, DirectUse, Spurious, dataVars
<1>5. CASE UNCHANGED vars
  BY <1>5 DEF vars, dataVars
<1> QED
  BY <1>2, <1>3, <1>4, <1>5 DEF Next, Finished

\* A step of a call that changes the sub-indexes, and that nothing harms,
\* changes one that had not been or none.
WriteSteps(c) ==
  \/ content' = content /\ \A p \in 1..Count : Took(c, p)' <=> Took(c, p)
  \/ \E q \in 1..Count : WritesAt(c, q)

\* The steps of such a call: a caller submits or runs a task, or a thread runs it.
LEMMA SubmitWrites ==
  ASSUME Control, Crew, NEW c \in Callers, AnswersFollow(c), Writing(c), Submit(c)
  PROVE  WriteSteps(c)
<1>1. /\ step[c] = "submit" /\ content' = content /\ isThreaded_ /\ isThreaded_'
      /\ call[c].at \in 1..Count /\ Count \in Nat
  BY InCall DEF Submit, dataVars, confVars, CallFits
<1>2. AnswerOf(c, indices_[call[c].at]) = "none"
  BY <1>1 DEF AnswersFollow
<1>3. \A p \in 1..Count : AnswerOf(c, indices_[p])' = "done" <=> AnswerOf(c, indices_[p]) = "done"
  BY <1>1, <1>2, SubmitAsks
<1> QED
  BY <1>1, <1>3 DEF WriteSteps, Took, AnswerOf

LEMMA InlineWrites ==
  ASSUME Control, Crew, NEW c \in Callers, Writing(c), Inline(c), ~call'[c].thrown
  PROVE  WriteSteps(c)
<1>1. /\ step[c] = "inline" /\ ~isThreaded_ /\ ~isThreaded_'
      /\ call[c].at \in 1..Count /\ Count \in Nat /\ call[c].last = Count
      /\ Worker(c) = indices_[call[c].at] /\ call[c].op \in {"add", "reset"}
  BY InCall DEF Inline, confVars, CallFits, Writing, Whole, Runs
<1>2. call = [d \in Callers |-> call[d]] /\ IsCall(call[c]) /\ step \in [Callers -> Steps]
      /\ Configured
  BY DEF Control
<1>3. PICK r \in Outcomes :
        /\ Effect(c, Worker(c), r)
        /\ IF r = "done" THEN Advance(c, "inline", "finish")
           ELSE IF kind = "split" \/ call[c].at = call[c].last
           THEN /\ CallerGoto(c, "finish")
                /\ call' = [call EXCEPT ![c].thrown = TRUE]
           ELSE /\ UNCHANGED step
                /\ call' = [call EXCEPT ![c].thrown = TRUE, ![c].at = @ + 1]
  BY DEF Inline
<1>4. r = "done"
  <2> SUFFICES ASSUME r # "done" PROVE FALSE
    OBVIOUS
  <2>1. \/ call' = [call EXCEPT ![c].thrown = TRUE]
        \/ call' = [call EXCEPT ![c].thrown = TRUE, ![c].at = @ + 1]
    BY <1>3
  <2>2. call'[c].thrown
    BY <1>2, <2>1 DEF IsCall
  <2> QED
    BY <2>2
<1>q. PICK q \in 1..Count : q = call[c].at
  BY <1>1
<1>5. content' = [content EXCEPT ![indices_[q]] =
        IF call[c].op = "reset" THEN <<>> ELSE @ \o AddedTo(c, indices_[q], q)]
  BY <1>1, <1>2, <1>3, <1>4, <1>q, WriteEffect
<1>6. /\ step'[c] = IF call[c].at < call[c].last THEN "inline" ELSE "finish"
      /\ call'[c].at = IF call[c].at < call[c].last THEN call[c].at + 1 ELSE 1
  BY <1>2, <1>3, <1>4 DEF Advance, CallerGoto, IsCall
<1>7. \A p \in 1..Count : Took(c, p) <=> p < q
  BY <1>1, <1>q DEF Took
<1>8. \A p \in 1..Count : Took(c, p)' <=> p < q \/ p = q
  <2>1. CASE q < Count
    <3>1. \A p \in 1..Count : p < q + 1 <=> p < q \/ p = q
      BY <1>1
    <3> QED
      BY <1>1, <1>6, <1>q, <2>1, <3>1 DEF Took
  <2>2. CASE ~(q < Count)
    <3>1. \A p \in 1..Count : p < q \/ p = q
      BY <1>1, <2>2
    <3> QED
      BY <1>1, <1>6, <1>q, <2>2, <3>1 DEF Took
  <2> QED
    BY <2>1, <2>2
<1>9. WritesAt(c, q)
  BY <1>1, <1>5, <1>7, <1>8 DEF WritesAt
<1> QED
  BY <1>1, <1>9 DEF WriteSteps

LEMMA ThreadWrites ==
  ASSUME Control, Crew, NEW c \in Callers, Writing(c), NEW w \in Workers, Perform(w)
  PROVE  WriteSteps(c)
<1>0. /\ UNCHANGED <<confVars, indices_, step, call>> /\ Configured
      /\ kind # "split" /\ kind # "worker"
      /\ \A d \in Callers \ {c} : step[d] = "idle"
      /\ call[c].op \in {"add", "reset"} /\ CallFits(c)
  BY ThreadFrame, OnlyWriter DEF Thread, Writing, Control
<1>1. PICK r \in Outcomes : \E t \in Tasks :
        /\ futures[t] = "pending" /\ futures' = [futures EXCEPT ![t] = r]
        /\ TaskEffect(t, r) /\ step[t[1]] # "idle"
        /\ t[3] # "start" =>
             /\ Effect(t[1], t[2], r)
             /\ \E q \in 1..Count : t[2] = indices_[q] /\ AwaitedAt(t[1], q)
  BY <1>0, ThreadTask
<1>2. PICK t \in Tasks :
        /\ futures[t] = "pending" /\ futures' = [futures EXCEPT ![t] = r]
        /\ TaskEffect(t, r) /\ step[t[1]] # "idle"
        /\ t[3] # "start" =>
             /\ Effect(t[1], t[2], r)
             /\ \E q \in 1..Count : t[2] = indices_[q] /\ AwaitedAt(t[1], q)
  BY <1>1
<1>3. t[1] = c /\ t = <<c, t[2], t[3]>> /\ t[3] \in {"start", "call"}
  BY <1>0, <1>2, TaskParts
<1>4. t[3] # "start"
  <2> SUFFICES ASSUME t[3] = "start" PROVE FALSE
    OBVIOUS
  <2>1. Wanted(t)
    BY <1>2 DEF Crew, PendingWanted
  <2>2. step[c] = "started"
    BY <1>3, <2>1 DEF Wanted
  <2> QED
    BY <1>0, <2>2 DEF CallFits, Building
<1>5. PICK q \in 1..Count : t[2] = indices_[q] /\ AwaitedAt(c, q)
  BY <1>2, <1>3, <1>4
<1>6. isThreaded_ /\ isThreaded_'
  <2>1. step[c] \in {"submit", "gather"}
    BY <1>0, <1>5 DEF AwaitedAt
  <2> QED
    BY <1>0, <2>1 DEF CallFits, confVars
<1>7. t = <<c, indices_[q], "call">>
  BY <1>3, <1>4, <1>5
<1>8. /\ r = "thrown" => content' = content
      /\ r = "done" =>
           content' = [content EXCEPT ![indices_[q]] =
             IF call[c].op = "reset" THEN <<>> ELSE @ \o AddedTo(c, indices_[q], q)]
  <2>1. Effect(c, indices_[q], r)
    BY <1>2, <1>3, <1>4, <1>5
  <2> QED
    BY <1>0, <2>1, WriteEffect
<1>9. DOMAIN futures = Tasks
  BY DEF Crew, WorkersSound, IInv, WorkerTypeOK
<1>10. \A p \in 1..Count : indices_[p] = indices_[q] => p = q
  BY <1>0, RangeBySequence DEF Configured, Count
<1>11. \A p \in 1..Count : /\ <<c, indices_[p], "call">> \in Tasks
                           /\ <<c, indices_[p], "call">> = t <=> p = q
  BY <1>0, <1>7, <1>10, PositionIs, ThreadedAssumption
<1>12. \A p \in 1..Count : AnswerOf(c, indices_[p])' = IF p = q THEN r ELSE AnswerOf(c, indices_[p])
  BY <1>0, <1>2, <1>9, <1>11 DEF AnswerOf
<1>13. AnswerOf(c, indices_[q]) = "pending"
  BY <1>2, <1>7 DEF AnswerOf
<1>14. CASE r = "done"
  <2>1. WritesAt(c, q)
    <3>1. ~Took(c, q) /\ Took(c, q)'
      BY <1>6, <1>12, <1>13, <1>14 DEF Took
    <3>2. \A p \in 1..Count : p # q => (Took(c, p)' <=> Took(c, p))
      BY <1>6, <1>12 DEF Took
    <3> QED
      BY <1>8, <1>14, <3>1, <3>2 DEF WritesAt
  <2> QED
    BY <2>1 DEF WriteSteps
<1>15. CASE r = "thrown"
  <2>1. \A p \in 1..Count : Took(c, p)' <=> Took(c, p)
    BY <1>6, <1>12, <1>13, <1>15 DEF Took
  <2> QED
    BY <1>8, <1>15, <2>1 DEF WriteSteps
<1> QED
  BY <1>14, <1>15 DEF Outcomes

LEMMA WorkStep ==
  ASSUME Inv, AnswersKnown, [Next]_vars, NEW c \in Callers,
         Writing(c), step'[c] # "idle", Unharmed'
  PROVE  /\ UNCHANGED <<confVars, indices_, ntotal, clean>>
         /\ call'[c].op = call[c].op /\ call'[c].n = call[c].n
         /\ call'[c].base = call[c].base
         /\ WriteSteps(c)
<1>0. /\ Control /\ Crew /\ Configured
      /\ \A d \in Callers \ {c} : ~Caller(d)
      /\ \A d \in Callers : ~Begin(d)
      /\ kind # "split" /\ kind # "worker"
      /\ step[c] \in {"submit", "gather", "inline", "finish"} /\ CallFits(c)
  BY OnlyWriter DEF Inv, Control
<1>1. CASE Caller(c)
  <2>1. ~Finish(c)
    BY <1>0 DEF Finish, CallerGoto, Control
  <2>2. /\ call'[c].op = call[c].op /\ call'[c].n = call[c].n
        /\ call'[c].base = call[c].base /\ ~call'[c].thrown
    BY <1>0, <1>1, <2>1, CallGoesOn DEF Unharmed, Writing
  <2>3. Submit(c) \/ Gather(c) \/ Inline(c)
    BY <1>0, <1>1, <2>1
       DEF Caller, Construct, AddFirst, Constructed, StopWorker, Join, Erase
  <2>4. UNCHANGED <<confVars, indices_, ntotal, clean>>
    BY <2>3 DEF Submit, Gather, Inline, dataVars
  <2>5. CASE Submit(c)
    <3>1. isThreaded_
      BY <1>0, <2>5 DEF Submit, CallFits
    <3>2. AnswersFollow(c)
      BY <1>0, <3>1 DEF AnswersKnown, Collection, Configured, Control
    <3> QED
      BY <1>0, <2>2, <2>4, <2>5, <3>2, SubmitWrites
  <2>6. CASE Gather(c)
    <3>1. isThreaded_ /\ isThreaded_' /\ content' = content /\ futures' = futures
          /\ indices_' = indices_
      BY <1>0, <2>6 DEF Gather, CallFits, workerVars, confVars, dataVars
    <3>2. \A p \in 1..Count : Took(c, p)' <=> Took(c, p)
      BY <3>1 DEF Took, AnswerOf
    <3> QED
      BY <2>2, <2>4, <3>1, <3>2 DEF WriteSteps
  <2>7. CASE Inline(c)
    BY <1>0, <2>2, <2>4, <2>7, InlineWrites
  <2> QED
    BY <2>3, <2>5, <2>6, <2>7
<1>2. ASSUME UNCHANGED <<confVars, indices_, ntotal, clean, step, call, futures, content>>
      PROVE  /\ UNCHANGED <<confVars, indices_, ntotal, clean>>
             /\ call'[c].op = call[c].op /\ call'[c].n = call[c].n
             /\ call'[c].base = call[c].base
             /\ WriteSteps(c)
  <2>1. \A p \in 1..Count : Took(c, p)' <=> Took(c, p)
    BY <1>2 DEF Took, AnswerOf, confVars
  <2> QED
    BY <1>2, <2>1 DEF WriteSteps
<1>3. ASSUME NEW w \in Workers, Thread(w) \/ Spurious(w)
      PROVE  /\ UNCHANGED <<confVars, indices_, ntotal, clean>>
             /\ call'[c].op = call[c].op /\ call'[c].n = call[c].n
             /\ call'[c].base = call[c].base
             /\ WriteSteps(c)
  <2>1. UNCHANGED <<confVars, indices_, ntotal, clean, step, call>>
    BY <1>3, ThreadFrame
  <2>2. CASE Perform(w)
    BY <1>0, <2>1, <2>2, ThreadWrites
  <2>3. CASE ~Perform(w)
    <3>1. content' = content
      BY <1>3, <2>3 DEF Thread, Spurious, dataVars
    <3>2. futures' = futures
      BY <1>0, <1>3, <2>3, LoopEffect DEF Thread, Spurious, Crew
    <3> QED
      BY <1>2, <2>1, <3>1, <3>2
  <2> QED
    BY <2>2, <2>3
<1>4. ASSUME NEW w \in Workers, DirectUse(w)
      PROVE  FALSE
  BY <1>0, <1>4 DEF DirectUse
<1>5. CASE UNCHANGED vars
  <2>1. UNCHANGED <<confVars, indices_, ntotal, clean, step, call, futures, content>>
    BY <1>5 DEF vars, dataVars, callVars, workerVars
  <2> QED
    BY <1>2, <2>1
<1> QED
  BY <1>0, <1>1, <1>3, <1>4, <1>5 DEF Next, Finished

\* A step that no data but contents can be different after.
KeepsCalls ==
  /\ UNCHANGED <<indices_, ntotal, clean>>
  /\ \A d \in Callers : /\ step'[d] = "idle" <=> step[d] = "idle"
                        /\ step[d] # "idle" => call'[d].op = call[d].op
                        /\ step[d] = "finish" => step'[d] = "finish"
                        /\ step'[d] = "finish" =>
                             step[d] = "finish" \/ call'[d].op # "destroy"

NoneWriting == \A c \in Callers : ~Writing(c)

\* The steps, as far as the data are concerned.
LEMMA StepCases ==
  ASSUME Inv, kind # "worker", [Next]_vars
  PROVE  \/ \E c \in Callers : /\ Writing(c) /\ step'[c] # "idle"
                               /\ \A d \in Callers : d # c => ~Writing(d) /\ ~Writing(d)'
         \/ \E c \in Callers : Writing(c) /\ Finish(c) /\ NoneWriting'
         \/ /\ content' = content /\ NoneWriting
            /\ \/ \E c \in Callers : /\ Begin(c)
                                     /\ \A d \in Callers : d # c => ~Writing(d)'
               \/ NoneWriting' /\ \E c \in Callers : Erase(c) \/ Finish(c)
               \/ NoneWriting' /\ KeepsCalls
<1>0. Control
  BY DEF Inv
<1>1. ASSUME NEW c \in Callers, Writing(c), step'[c] # "idle"
      PROVE  \A d \in Callers : d # c => ~Writing(d) /\ ~Writing(d)'
  <2>1. /\ \A d \in Callers \ {c} : step[d] = "idle" /\ ~Caller(d)
        /\ \A d \in Callers : ~Begin(d)
    BY <1>0, <1>1, OnlyWriter
  <2>2. \A d \in Callers \ {c} : step'[d] = step[d]
    <3>1. CASE Caller(c)
      BY <1>0, <3>1, CallerFrame
    <3>2. CASE \E w \in Workers : Thread(w) \/ DirectUse(w) \/ Spurious(w)
      BY <3>2, ThreadFrame
    <3>3. CASE UNCHANGED vars
      BY <3>3 DEF vars, callVars
    <3> QED
      BY <2>1, <3>1, <3>2, <3>3 DEF Next, Finished
  <2> QED
    BY <2>1, <2>2 DEF Writing
<1>2. ASSUME NEW c \in Callers, Writing(c), step'[c] = "idle"
      PROVE  Finish(c) /\ NoneWriting'
  <2>1. /\ \A d \in Callers \ {c} : step[d] = "idle" /\ ~Caller(d)
        /\ \A d \in Callers : ~Begin(d)
    BY <1>0, <1>2, OnlyWriter
  <2>2. step[c] # "idle"
    BY <1>2 DEF Writing
  <2>3. Caller(c)
    <3>1. ~ \E w \in Workers : Thread(w) \/ DirectUse(w) \/ Spurious(w)
      BY <1>2, <2>2, ThreadFrame
    <3>2. ~ UNCHANGED vars
      BY <1>2, <2>2 DEF vars, callVars
    <3> QED
      BY <2>1, <3>1, <3>2 DEF Next, Finished
  <2>4. Finish(c)
    BY <1>0, <1>2, <2>3, CallGoesOn
  <2>5. \A d \in Callers : step'[d] = "idle"
    BY <1>0, <1>2, <2>1, <2>3, CallerFrame
  <2> QED
    BY <2>4, <2>5 DEF NoneWriting, Writing
<1>3. CASE NoneWriting
  <2>1. content' = content
    BY <1>3, QuietContent DEF NoneWriting
  <2>2. ASSUME NEW c \in Callers, Begin(c)
        PROVE  \A d \in Callers : d # c => ~Writing(d)'
    <3>1. PICK s, r : step' = [step EXCEPT ![c] = s] /\ call' = [call EXCEPT ![c] = r]
      BY <1>0, <2>2, BeginSteps
    <3>2. \A d \in Callers \ {c} : step'[d] = step[d] /\ call'[d] = call[d]
      BY <1>0, <3>1 DEF Control
    <3> QED
      BY <1>3, <3>2 DEF NoneWriting, Writing
  <2>3. ASSUME NEW c \in Callers, Caller(c)
        PROVE  NoneWriting' /\ (Erase(c) \/ Finish(c) \/ KeepsCalls)
    <3>1. \A d \in Callers \ {c} : step'[d] = step[d] /\ call'[d] = call[d]
      BY <1>0, <2>3, CallerFrame
    <3>2. CASE Finish(c)
      <4>1. step'[c] = "idle"
        BY <1>0, <3>2 DEF Finish, CallerGoto, Control
      <4> QED
        BY <1>3, <3>1, <3>2, <4>1 DEF NoneWriting, Writing
    <3>3. CASE ~Finish(c)
      <4>1. step[c] # "idle" /\ step'[c] # "idle" /\ call'[c].op = call[c].op
        BY <1>0, <2>3, <3>3, CallGoesOn
      <4>2. NoneWriting'
        BY <1>3, <3>1, <4>1 DEF NoneWriting, Writing
      <4>3. CASE ~Erase(c)
        <5>1. UNCHANGED <<indices_, ntotal, clean>>
          BY <2>3, <3>3, <4>3
             DEF Caller, Construct, AddFirst, Constructed, Submit, Inline, Gather,
                 StopWorker, Join, dataVars
        <5>2. step[c] # "finish"
          BY <2>3, <3>3, <4>3
             DEF Caller, Construct, AddFirst, Constructed, Submit, Inline, Gather,
                 StopWorker, Join
        <5>3. ASSUME step'[c] = "finish" PROVE call[c].op # "destroy"
          <6>1. /\ CallFits(c) /\ kind \in {"shards", "replicas", "split"}
                /\ step \in [Callers -> Steps]
            BY <1>0 DEF Control, Configured
          <6>2. CASE Constructed(c) \/ Inline(c) \/ Gather(c)
            BY <6>1, <6>2 DEF Constructed, Inline, Gather, CallFits, Building, Runs
          <6>3. CASE Join(c)
            <7>1. kind = "split"
              BY <5>3, <6>1, <6>3 DEF Join, Advance, CallerGoto
            <7> QED
              BY <4>1, <6>1, <7>1 DEF CallFits
          <6>4. CASE Construct(c) \/ AddFirst(c) \/ Submit(c) \/ StopWorker(c)
            BY <5>3, <6>1, <6>4
               DEF Construct, AddFirst, Submit, StopWorker, Advance, CallerGoto
          <6> QED
            BY <2>3, <3>3, <4>3, <6>2, <6>3, <6>4 DEF Caller
        <5> QED
          BY <3>1, <4>1, <4>2, <5>1, <5>2, <5>3 DEF KeepsCalls
      <4> QED
        BY <4>2, <4>3
    <3> QED
      BY <3>2, <3>3
  <2>4. ASSUME UNCHANGED <<indices_, ntotal, clean, step, call>>
        PROVE  NoneWriting' /\ KeepsCalls
    BY <1>3, <2>4 DEF NoneWriting, Writing, KeepsCalls
  <2>5. CASE UNCHANGED vars
    BY <1>3, <2>1, <2>4, <2>5 DEF vars, dataVars, callVars
  <2> QED
    BY <1>3, <2>1, <2>2, <2>3, <2>4, <2>5, ThreadFrame DEF Next, Finished
<1> QED
  BY <1>1, <1>2, <1>3 DEF NoneWriting

\* A call begins with nothing done, and knows how many vectors there are.
LEMMA BeginWrites ==
  ASSUME Inv, AnswersKnown, NEW c \in Callers, Begin(c), Writing(c)'
  PROVE  /\ UNCHANGED <<indices_, ntotal, clean>>
         /\ call'[c].base = ntotal /\ AllIdle
         /\ \A p \in 1..Count : ~Took(c, p)'
<1>0. Control
  BY DEF Inv
<1>1. PICK s, r : /\ step[c] = "idle" /\ step' = [step EXCEPT ![c] = s]
                  /\ call' = [call EXCEPT ![c] = r]
                  /\ IsCall(r) /\ r.base = ntotal /\ Begins(c, s, r)
  BY <1>0, BeginSteps
<1>2. step'[c] = s /\ call'[c] = r
  BY <1>0, <1>1 DEF Control
<1>3. /\ Collection /\ r.op \in Runs /\ r.op # "search" /\ s = Run /\ r.at = 1
      /\ UNCHANGED indices_ /\ AllIdle
  BY <1>1, <1>2 DEF Begins, Writing, Runs, Collection
<1>4. UNCHANGED <<ntotal, clean, futures, confVars, isThreaded_>>
  <2>1. CASE BeginRun(c) \/ BeginSplit(c) \/ BeginRemove(c)
    BY <2>1 DEF BeginRun, BeginSplit, BeginRemove, dataVars, workerVars, confVars
  <2>2. CASE BeginAddIndex(c)
    <3>1. call'[c].op = "addIndex"
      BY <1>0, <2>2 DEF BeginAddIndex, Start, Control
    <3> QED
      BY <1>2, <1>3, <3>1 DEF Runs
  <2> QED
    BY <2>1, <2>2 DEF Begin
<1>5. ASSUME NEW p \in 1..Count
      PROVE  ~Took(c, p)'
  <2>1. CASE isThreaded_
    <3>1. AnswersFollow(c)
      BY <1>3, <2>1 DEF AnswersKnown
    <3>2. PICK i \in Workers : i = indices_[p]
      BY <1>0, PositionIs DEF Control
    <3>3. AnswerOf(c, i) = "none"
      BY <1>1, <3>1 DEF AnswersFollow
    <3> QED
      BY <1>3, <1>4, <2>1, <3>2, <3>3 DEF Took, AnswerOf
  <2>2. CASE ~isThreaded_
    <3>1. step'[c] = "inline" /\ call'[c].at = 1 /\ ~(p < 1)
      BY <1>2, <1>3, <2>2 DEF Run
    <3> QED
      BY <1>4, <2>2, <3>1 DEF Took
  <2> QED
    BY <2>1, <2>2
<1> QED
  BY <1>1, <1>2, <1>3, <1>4, <1>5

\* It ends with everything done, or has thrown.
LEMMA FinishTook ==
  ASSUME Inv, AnswersKnown, NEW c \in Callers, Writing(c), Finish(c), Unharmed'
  PROVE  /\ \A p \in 1..Count : Took(c, p)
         /\ ~call[c].thrown /\ step[c] = "finish"
         /\ UNCHANGED <<confVars, indices_, content>>
         /\ call[c].op = "reset" => ntotal' = 0
         /\ call[c].op = "add" => ntotal' = Synced
<1>1. /\ step[c] = "finish" /\ UNCHANGED <<confVars, indices_, content>>
      /\ call[c].op \in {"add", "reset"} /\ Collection
  <2>1. Control
    BY DEF Inv
  <2>2. kind # "split" /\ kind # "worker"
    BY <2>1, OnlyWriter
  <2> QED
    BY <2>1, <2>2 DEF Finish, Writing, Control, Configured, Collection
<1>2. ~call[c].thrown
  BY <1>1 DEF Finish, Unharmed
<1>3. ntotal' = IF call[c].op = "reset" THEN 0 ELSE Synced
  BY <1>1, <1>2 DEF Finish
<1>4. ASSUME NEW p \in 1..Count PROVE Took(c, p)
  <2>1. CASE isThreaded_
    BY <1>1, <1>2, <2>1 DEF AnswersKnown, AnswersFollow, Took, Runs
  <2>2. CASE ~isThreaded_
    BY <1>1, <2>2 DEF Took
  <2> QED
    BY <2>1, <2>2
<1> QED
  BY <1>1, <1>2, <1>3, <1>4

-----------------------------------------------------------------------------
(* What the collection stands for                                          *)

\* The store is what the sub-indexes of the collection hold.
LEMMA StoreStays ==
  UNCHANGED <<kind, successive_ids, indices_, content>> => All' = All /\ Store' = Store
<1> SUFFICES ASSUME UNCHANGED <<kind, successive_ids, indices_, content>>
             PROVE  All' = All /\ Store' = Store
  OBVIOUS
<1>1. Count' = Count /\ indices_' = indices_ /\ content' = content
  BY DEF Count
<1>2. All' = All
  BY <1>1 DEF All
<1>3. Shifted(All)' = Shifted(All)
  BY <1>2 DEF Shifted
<1> QED
  BY <1>1, <1>2, <1>3 DEF Store

\* All holds what they hold, and nothing else.
LEMMA AllHolds ==
  ASSUME Configured, content \in [Workers -> Seq(Entry)]
  PROVE  /\ Count \in Nat /\ \A p \in 1..Count : indices_[p] \in Workers
         /\ All \in Seq(Entry)
         /\ \A e : e \in Range(All) <=>
              \E p \in 1..Count : e \in Range(content[indices_[p]])
         /\ (\A p \in 1..Count : IsInjective(content[indices_[p]]))
              /\ (\A p, q \in 1..Count : p # q =>
                    Range(content[indices_[p]]) \cap Range(content[indices_[q]]) = {})
              => IsInjective(All)
<1> DEFINE parts == [p \in 1..Count |-> content[indices_[p]]]
<1>1. Count \in Nat /\ \A p \in 1..Count : indices_[p] \in Workers
  BY LenProperties, ElementOfSeq DEF Configured, Count
<1>2. \A p \in 1..Count : content[indices_[p]] \in Seq(Entry)
  BY <1>1
<1>3. /\ parts \in [1..Count -> Seq(Entry)] /\ parts \in Seq(Seq(Entry))
      /\ \A p \in 1..Count : parts[p] = content[indices_[p]]
  BY <1>1, <1>2, SeqDef
<1>4. All = FlattenSeq(parts)
  BY DEF All
<1> HIDE DEF parts
<1>5. Len(parts) = Count
  BY <1>1, <1>3, LenProperties
<1>6. /\ FlattenSeq(parts) \in Seq(Entry)
      /\ \A e : e \in Range(FlattenSeq(parts)) <=>
           \E p \in 1..Len(parts) : e \in Range(parts[p])
      /\ (\A p \in 1..Len(parts) : IsInjective(parts[p]))
           /\ (\A p, q \in 1..Len(parts) : p # q => Range(parts[p]) \cap Range(parts[q]) = {})
           => IsInjective(FlattenSeq(parts))
  BY <1>3, FlattenSeqHolds
<1>7. \A e : e \in Range(All) <=> \E p \in 1..Count : e \in Range(content[indices_[p]])
  BY <1>3, <1>4, <1>5, <1>6
<1>8. ASSUME \A p \in 1..Count : IsInjective(content[indices_[p]]),
             \A p, q \in 1..Count : p # q =>
               Range(content[indices_[p]]) \cap Range(content[indices_[q]]) = {}
      PROVE  IsInjective(All)
  <2>1. \A p \in 1..Len(parts) : IsInjective(parts[p])
    BY <1>3, <1>5, <1>8
  <2>2. \A p, q \in 1..Len(parts) : p # q => Range(parts[p]) \cap Range(parts[q]) = {}
    BY <1>3, <1>5, <1>8
  <2> QED
    BY <1>4, <1>6, <2>1, <2>2
<1> QED
  BY <1>1, <1>4, <1>6, <1>7, <1>8

\* A sequence holds nothing if and only if it is empty.
LEMMA EmptyRange ==
  ASSUME NEW S, NEW s \in Seq(S)
  PROVE  s = <<>> <=> \A e : e \notin Range(s)
<1>1. /\ Len(s) \in Nat /\ Range(s) = {s[i] : i \in 1..Len(s)}
  BY RangeBySequence
<1>2. CASE s = <<>>
  <2>1. Len(s) = 0
    BY <1>2, EmptySeq
  <2> QED
    BY <1>1, <1>2, <2>1
<1>3. CASE s # <<>>
  <2>1. Len(s) # 0
    BY <1>3, EmptySeq
  <2>2. 1 \in 1..Len(s)
    BY <1>1, <2>1
  <2> QED
    BY <1>1, <1>3, <2>2
<1> QED
  BY <1>2, <1>3

\* It is empty when they are, and of shards that keep their labels only then.
LEMMA StoreEmpty ==
  ASSUME Configured, content \in [Workers -> Seq(Entry)]
  PROVE  /\ (\A p \in 1..Count : content[indices_[p]] = <<>>) =>
              All = <<>> /\ Store = <<>>
         /\ kind = "shards" => Len(Store) = Len(All)
         /\ kind = "shards" /\ ~successive_ids => Store = All
         /\ kind = "shards" /\ ~successive_ids /\ Store = <<>> =>
              \A p \in 1..Count : content[indices_[p]] = <<>>
<1>1. /\ Count \in Nat /\ \A p \in 1..Count : indices_[p] \in Workers
      /\ All \in Seq(Entry)
      /\ \A e : e \in Range(All) <=>
           \E p \in 1..Count : e \in Range(content[indices_[p]])
  BY AllHolds
<1>2. \A p \in 1..Count : content[indices_[p]] \in Seq(Entry)
  BY <1>1
<1>3. (\A p \in 1..Count : content[indices_[p]] = <<>>) <=> All = <<>>
  <2>1. \A p \in 1..Count : content[indices_[p]] = <<>>
                              <=> \A e : e \notin Range(content[indices_[p]])
    BY <1>2, EmptyRange
  <2>2. All = <<>> <=> \A e : e \notin Range(All)
    BY <1>1, EmptyRange
  <2> QED
    BY <1>1, <2>1, <2>2
<1>4. Shifted(All) = [p \in 1..Len(All) |-> [All[p] EXCEPT !.id = p - 1]]
      /\ Len(All) \in Nat
  BY <1>1, LenProperties DEF Shifted
<1>5. Len(Shifted(All)) = Len(All)
  BY <1>4, LenProperties
<1>6. Count = 0 => All = <<>> /\ Store = <<>>
  BY <1>3 DEF Store
<1>7. kind = "shards" /\ Count > 0 => Store = IF successive_ids THEN Shifted(All) ELSE All
  BY DEF Store
<1>8. kind = "shards" => Len(Store) = Len(All)
  BY <1>1, <1>5, <1>6, <1>7
<1>9. kind = "shards" /\ ~successive_ids => Store = All
  BY <1>1, <1>6, <1>7
<1>10. All = <<>> => Shifted(All) = <<>>
  <2> HAVE All = <<>>
  <2>1. Len(All) = 0 /\ Len(Shifted(All)) = 0
    BY <1>5
  <2>2. Shifted(All) \in Seq({[All[p] EXCEPT !.id = p - 1] : p \in 1..Len(All)})
    BY <1>4, SeqDef
  <2> QED
    BY <2>1, <2>2, EmptySeq
<1>11. (\A p \in 1..Count : content[indices_[p]] = <<>>) => Store = <<>>
  <2> HAVE \A p \in 1..Count : content[indices_[p]] = <<>>
  <2>1. CASE Count > 0 /\ kind # "shards"
    <3>1. 1 \in 1..Count /\ Store = content[indices_[1]]
      BY <1>1, <2>1 DEF Store
    <3> QED
      BY <3>1
  <2> QED
    BY <1>1, <1>3, <1>6, <1>7, <1>10, <2>1
<1> QED
  BY <1>3, <1>8, <1>9, <1>11

-----------------------------------------------------------------------------
(* What is known of the vectors                                            *)

\* What reset is done with is empty.
ResetTakes ==
  \A c \in Callers : Writing(c) /\ call[c].op = "reset" =>
    \A p \in 1..Count : Took(c, p) => content[indices_[p]] = <<>>

\* A replica numbers its vectors by itself.
ReplicasNumbered ==
  kind = "replicas" => \A i \in Workers : \A k \in 1..Size(i) : content[i][k].id = k - 1

\* Callers that have not changed what ntotal counts, or have and counted it.
Settled(c) ==
  \/ step[c] = "idle" \/ call[c].op = "search"
  \/ call[c].op = "addIndex" /\ kind = "replicas" /\ Count > 1

\* ntotal counts the store, but for a call that has not counted its changes.
TotalKnown ==
  /\ (\A c \in Callers : Settled(c)) => ntotal = Len(Store)
  /\ \A c \in Callers : step[c] = "finish" /\ call[c].op = "destroy" =>
                          indices_ = <<>> /\ ntotal = 0

\* Shards that keep their labels share none, and a shard that was taken out
\* has none.
OutsideEmpty == \A i \in Workers \ Range(indices_) : content[i] = <<>>

Apart ==
  \A i, j \in Workers : \A k \in 1..Size(i), l \in 1..Size(j) :
    content[i][k].id = content[j][l].id => i = j /\ k = l

\* The labels the sub-indexes have given.
LabelsOf(i) == {content[i][k].id : k \in 1..Size(i)}
Labels == UNION {LabelsOf(i) : i \in Workers}

\* The labels that add gives to position p.
Share(c, p) ==
  (ntotal + ShardRange(call[c].n, p).from)..(ntotal + ShardRange(call[c].n, p).to - 1)

\* The labels are those up to ntotal, and those an add in progress has given.
LabelsCounted ==
  /\ NoneWriting => Labels = 0..(ntotal - 1)
  /\ \A c \in Callers : Writing(c) /\ call[c].op = "add" =>
       /\ call[c].base = ntotal
       /\ \A x : x \in Labels <=>
            \/ x \in 0..(ntotal - 1)
            \/ \E p \in 1..Count : Took(c, p) /\ x \in Share(c, p)

\* Of shards that keep their labels.
ShardsNumbered ==
  kind = "shards" /\ ~successive_ids => OutsideEmpty /\ Apart /\ LabelsCounted

Numbered == ResetTakes /\ ReplicasNumbered /\ TotalKnown /\ ShardsNumbered

\* A call that has thrown may leave the sub-indexes uneven: nothing is known then.
NumbersKnown == Collection /\ Unharmed => Numbered

\* Entries are what their sub-index gives them.
LEMMA EntryOf ==
  ASSUME content \in [Workers -> Seq(Entry)], NEW i \in Workers
  PROVE  /\ Size(i) \in Nat /\ content[i] \in Seq(Entry)
         /\ \A k \in 1..Size(i) : content[i][k] \in Entry /\ content[i][k].id \in Nat
         /\ Range(content[i]) = {content[i][k] : k \in 1..Size(i)}
         /\ content[i] = <<>> <=> Size(i) = 0
<1>1. content[i] \in Seq(Entry)
  OBVIOUS
<1>2. Size(i) = Len(content[i])
  BY DEF Size
<1>3. \A k \in 1..Size(i) : content[i][k] \in Entry
  BY <1>1, <1>2, ElementOfSeq
<1>4. \A e \in Entry : e.id \in Nat
  BY DEF Entry
<1> QED
  BY <1>1, <1>2, <1>3, <1>4, LenProperties, RangeBySequence, EmptySeq

LEMMA LabelsHeld ==
  ASSUME content \in [Workers -> Seq(Entry)]
  PROVE  /\ \A x : x \in Labels <=>
              \E i \in Workers : \E k \in 1..Size(i) : x = content[i][k].id
         /\ (\A i \in Workers : content[i] = <<>>) <=> Labels = {}
         /\ (\A i \in Workers : content[i] = <<>>) => Apart
<1>1. \A x : x \in Labels <=>
         \E i \in Workers : \E k \in 1..Size(i) : x = content[i][k].id
  BY DEF Labels, LabelsOf
<1>2. \A i \in Workers : Size(i) \in Nat /\ (content[i] = <<>> <=> Size(i) = 0)
  BY EntryOf
<1>3. (\A i \in Workers : content[i] = <<>>) => Labels = {} /\ Apart
  BY <1>1, <1>2 DEF Apart
<1>4. ASSUME NEW i \in Workers, content[i] # <<>>
      PROVE  Labels # {}
  <2>1. 1 \in 1..Size(i)
    BY <1>2, <1>4
  <2> QED
    BY <1>1, <2>1
<1> QED
  BY <1>1, <1>3, <1>4

\* Shards that share no label hold as many vectors as labels.
LEMMA AllCounts ==
  ASSUME Configured, content \in [Workers -> Seq(Entry)], OutsideEmpty, Apart,
         NEW m \in Nat, Labels = 0..(m - 1)
  PROVE  Len(All) = m /\ {e.id : e \in Range(All)} = 0..(m - 1)
<1>1. /\ Count \in Nat /\ \A p \in 1..Count : indices_[p] \in Workers
      /\ All \in Seq(Entry)
      /\ \A e : e \in Range(All) <=>
           \E p \in 1..Count : e \in Range(content[indices_[p]])
  BY AllHolds
<1>2. \A i \in Workers :
        /\ Size(i) \in Nat /\ content[i] \in Seq(Entry) /\ Size(i) = Len(content[i])
        /\ \A k \in 1..Size(i) : content[i][k] \in Entry /\ content[i][k].id \in Nat
        /\ Range(content[i]) = {content[i][k] : k \in 1..Size(i)}
        /\ content[i] = <<>> <=> Size(i) = 0
  BY EntryOf DEF Size
<1>3. \A p, q \in 1..Count : indices_[p] = indices_[q] => p = q
  BY RangeBySequence DEF Configured, Count
<1>4. \A p \in 1..Count : IsInjective(content[indices_[p]])
  <2> TAKE p \in 1..Count
  <2>1. \A k, l \in 1..Len(content[indices_[p]]) :
          content[indices_[p]][k] = content[indices_[p]][l] => k = l
    BY <1>1, <1>2 DEF Apart
  <2> QED
    BY <1>1, <1>2, <2>1, RangeBySequence
<1>5. \A p, q \in 1..Count : p # q =>
        Range(content[indices_[p]]) \cap Range(content[indices_[q]]) = {}
  <2> SUFFICES ASSUME NEW p \in 1..Count, NEW q \in 1..Count, p # q,
                      NEW e, e \in Range(content[indices_[p]]),
                      e \in Range(content[indices_[q]])
               PROVE  FALSE
    OBVIOUS
  <2>1. indices_[p] \in Workers /\ indices_[q] \in Workers /\ indices_[p] # indices_[q]
    BY <1>1, <1>3
  <2>2. PICK k \in 1..Size(indices_[p]) : e = content[indices_[p]][k]
    BY <1>2, <2>1
  <2>3. PICK l \in 1..Size(indices_[q]) : e = content[indices_[q]][l]
    BY <1>2, <2>1
  <2> QED
    BY <2>1, <2>2, <2>3 DEF Apart
<1>6. IsInjective(All)
  BY <1>4, <1>5, AllHolds
<1>7. /\ Len(All) \in Nat /\ Range(All) = {All[k] : k \in 1..Len(All)}
      /\ \A k, l \in 1..Len(All) : All[k] = All[l] => k = l
  BY <1>1, <1>6, RangeBySequence
<1>8. \A e \in Range(All) : \E i \in Workers : \E k \in 1..Size(i) : e = content[i][k]
  BY <1>1, <1>2
<1>9. \A e, f \in Range(All) : e.id = f.id => e = f
  BY <1>8 DEF Apart
<1>10. \A e \in Range(All) : e.id \in 0..(m - 1)
  <2> TAKE e \in Range(All)
  <2>1. PICK i \in Workers : \E k \in 1..Size(i) : e = content[i][k]
    BY <1>8
  <2> QED
    BY <2>1, LabelsHeld
<1>11. \A x \in 0..(m - 1) : \E e \in Range(All) : e.id = x
  <2> TAKE x \in 0..(m - 1)
  <2>1. PICK i \in Workers : \E k \in 1..Size(i) : x = content[i][k].id
    BY LabelsHeld
  <2>2. PICK k \in 1..Size(i) : x = content[i][k].id
    BY <2>1
  <2>3. content[i] # <<>>
    BY <1>2, <2>2
  <2>4. i \in Range(indices_)
    BY <2>3 DEF OutsideEmpty
  <2>5. PICK p \in 1..Count : i = indices_[p]
    BY <2>4, RangeBySequence DEF Configured, Count
  <2>6. content[i][k] \in Range(All)
    BY <1>1, <1>2, <2>2, <2>5
  <2> QED
    BY <2>2, <2>6
<1>12. {e.id : e \in Range(All)} = 0..(m - 1)
  BY <1>10, <1>11
<1>13. Len(All) = m
  <2> DEFINE f == [k \in 1..Len(All) |-> All[k].id]
  <2>1. \A k \in 1..Len(All) : All[k] \in Range(All)
    BY <1>7
  <2>2. \A k, l \in 1..Len(All) : f[k] = f[l] => k = l
    BY <1>7, <1>9, <2>1
  <2>3. f \in [1..Len(All) -> 0..(m - 1)]
    BY <1>10, <2>1
  <2>4. \A x \in 0..(m - 1) : \E k \in 1..Len(All) : f[k] = x
    <3> TAKE x \in 0..(m - 1)
    <3>1. PICK e \in Range(All) : e.id = x
      BY <1>11
    <3>2. PICK k \in 1..Len(All) : e = All[k]
      BY <1>7, <3>1
    <3> QED
      BY <3>1, <3>2
  <2> HIDE DEF f
  <2>5. f \in Bijection(1..Len(All), 0..(m - 1))
    <3>1. IsInjective(f)
      BY <2>2, <2>3 DEF IsInjective
    <3>2. f \in Injection(1..Len(All), 0..(m - 1))
      BY <2>3, <3>1 DEF Injection
    <3>3. f \in Surjection(1..Len(All), 0..(m - 1))
      BY <2>3, <2>4 DEF Surjection
    <3> QED
      BY <3>2, <3>3 DEF Bijection
  <2>6. /\ IsFiniteSet(1..Len(All)) /\ Cardinality(1..Len(All)) = Len(All)
    <3>1. \A n \in Nat : IsFiniteSet(1..n) /\ Cardinality(1..n) = n
      BY FS_Interval
    <3> QED
      BY <1>7, <3>1
  <2>7. Cardinality(0..(m - 1)) = m
    BY FS_Interval
  <2>8. ExistsBijection(1..Len(All), 0..(m - 1))
    BY <2>5 DEF ExistsBijection
  <2> QED
    BY <2>6, <2>7, <2>8, FS_Bijection
<1> QED
  BY <1>12, <1>13

-----------------------------------------------------------------------------
(* How the calls change it                                                 *)

LEMMA ConfStays == Inv /\ [Next]_vars => UNCHANGED confVars
<1> SUFFICES ASSUME Inv, [Next]_vars PROVE UNCHANGED confVars
  OBVIOUS
<1>1. \A c \in Callers : Caller(c) => UNCHANGED confVars
  BY CallerFrame DEF Inv
<1>2. \A c \in Callers : Begin(c) => UNCHANGED confVars
  BY DEF Begin, BeginRun, BeginSplit, BeginAddIndex, BeginRemove
<1> QED
  BY <1>1, <1>2 DEF Next, Thread, Perform, DirectUse, Spurious, Finished, vars

\* What add puts into a sub-index is numbered on from one label.
LEMMA AddedLabels ==
  ASSUME Configured, DataTyped, NEW c \in Callers, IsCall(call[c]),
         step[c] # "idle", NEW q \in 1..Count, NEW i \in Workers
  PROVE  /\ AddedTo(c, i, q) \in Seq(Entry)
         /\ kind = "replicas" =>
              \A k \in 1..Len(AddedTo(c, i, q)) : AddedTo(c, i, q)[k].id = Size(i) + k - 1
         /\ kind # "replicas" /\ ~successive_ids =>
              LET r == ShardRange(call[c].n, q) IN
              /\ r.from <= r.to => Len(AddedTo(c, i, q)) = r.to - r.from
              /\ \A k \in 1..Len(AddedTo(c, i, q)) :
                   AddedTo(c, i, q)[k].id = call[c].base + r.from + k - 1
<1>1. AddedTo(c, i, q) \in Seq(Entry)
  BY AddedTyped
<1>2. /\ Count \in Nat /\ call[c].n \in Nat /\ call[c].base \in Nat /\ Size(i) \in Nat
  BY LenProperties DEF IsCall, DataTyped, Size, Configured, Count
<1>3. ASSUME NEW from \in Nat, NEW to \in Nat, NEW ids \in Nat
      PROVE  LET s == New(c, [from |-> from, to |-> to], ids) IN
             /\ from <= to => Len(s) = to - from
             /\ \A k \in 1..Len(s) : s[k].id = ids + k - 1
  <2> DEFINE s == New(c, [from |-> from, to |-> to], ids)
  <2>1. s \in Seq(Entry)
    BY <1>2, NewTyped
  <2>2. s = [p \in 1..(to - from) |->
               [id |-> ids + p - 1, vec |-> call[c].base + from + p - 1]]
    BY DEF New
  <2> HIDE DEF s
  <2>3. DOMAIN s = 1..Len(s) /\ DOMAIN s = 1..(to - from) /\ Len(s) \in Nat
    BY <2>1, <2>2, LenProperties
  <2>4. from <= to => Len(s) = to - from
    BY <2>3
  <2>5. \A k \in 1..Len(s) : s[k].id = ids + k - 1
    BY <2>2, <2>3
  <2> QED
    BY <2>4, <2>5 DEF s
<1>4. CASE kind = "replicas"
  <2>1. AddedTo(c, i, q) = New(c, [from |-> 0, to |-> call[c].n], Size(i))
    BY <1>4 DEF AddedTo
  <2> QED
    BY <1>1, <1>2, <1>3, <1>4, <2>1
<1>5. CASE kind # "replicas" /\ ~successive_ids
  <2> DEFINE r == ShardRange(call[c].n, q)
  <2>1. r.from \in Nat /\ r.to \in Nat /\ r = [from |-> r.from, to |-> r.to]
    BY <1>2, RangeTyped DEF ShardRange
  <2>2. AddedTo(c, i, q) = New(c, r, call[c].base + r.from)
    BY <1>5 DEF AddedTo
  <2> HIDE DEF r
  <2>3. call[c].base + r.from \in Nat
    BY <1>2, <2>1
  <2>4. /\ r.from <= r.to => Len(AddedTo(c, i, q)) = r.to - r.from
        /\ \A k \in 1..Len(AddedTo(c, i, q)) :
             AddedTo(c, i, q)[k].id = call[c].base + r.from + k - 1
    BY <1>3, <2>1, <2>2, <2>3
  <2> QED
    BY <1>1, <1>5, <2>4 DEF r
<1> QED
  BY <1>1, <1>4, <1>5

\* The same of any contents, before and after a step.
ApartIn(f) ==
  \A i, j \in Workers : \A k \in 1..Len(f[i]), l \in 1..Len(f[j]) :
    f[i][k].id = f[j][l].id => i = j /\ k = l

HasLabel(f, x) == \E i \in Workers : \E k \in 1..Len(f[i]) : x = f[i][k].id

LEMMA LabelsAre ==
  /\ Apart <=> ApartIn(content)
  /\ Apart' <=> ApartIn(content')
  /\ \A x : x \in Labels <=> HasLabel(content, x)
  /\ \A x : x \in Labels' <=> HasLabel(content', x)
<1>1. Apart <=> ApartIn(content)
  BY DEF Apart, ApartIn, Size
<1>2. Apart' <=> ApartIn(content')
  BY DEF Apart, ApartIn, Size
<1>3. \A x : x \in Labels <=> HasLabel(content, x)
  BY DEF Labels, LabelsOf, Size, HasLabel
<1>4. \A x : x \in Labels' <=> HasLabel(content', x)
  BY DEF Labels, LabelsOf, Size, HasLabel
<1> QED
  BY <1>1, <1>2, <1>3, <1>4

\* g is f with entries numbered from b, which are new numbers, put behind f[i].
Grows(f, g, i, s, b) ==
  /\ f \in [Workers -> Seq(Entry)] /\ i \in Workers /\ s \in Seq(Entry) /\ b \in Nat
  /\ \A k \in 1..Len(s) : s[k].id = b + k - 1
  /\ g = [f EXCEPT ![i] = @ \o s]
  /\ ApartIn(f) /\ \A x \in b..(b + Len(s) - 1) : ~HasLabel(f, x)

\* New labels keep all labels apart.
LEMMA AddNumbers ==
  ASSUME NEW f, NEW g, NEW i, NEW s, NEW b, Grows(f, g, i, s, b)
  PROVE  /\ ApartIn(g)
         /\ \A x : HasLabel(g, x) <=> HasLabel(f, x) \/ x \in b..(b + Len(s) - 1)
<1> USE DEF Grows
<1> DEFINE n == Len(f[i])
           m == Len(s)
<1>1. /\ g[i] = f[i] \o s /\ m \in Nat /\ n \in Nat
      /\ \A j \in Workers : j # i => g[j] = f[j]
      /\ f[i] \in Seq(Entry)
  BY LenProperties
<1>2. /\ Len(g[i]) = n + m
      /\ \A k \in 1..(n + m) : g[i][k] = IF k <= n THEN f[i][k] ELSE s[k - n]
  BY <1>1, ConcatProperties
<1>4. \A j \in Workers : \A k \in 1..Len(f[j]) : HasLabel(f, f[j][k].id)
  BY DEF HasLabel
<1>0. \A k \in 1..m : s[k].id = b + k - 1
  OBVIOUS
<1> HIDE DEF n, m
<1>5. \A k \in 1..(n + m) :
        \/ k \in 1..n /\ g[i][k] = f[i][k]
        \/ /\ k - n \in 1..m /\ g[i][k].id = b + (k - n) - 1
           /\ g[i][k].id \in b..(b + m - 1)
  <2> TAKE k \in 1..(n + m)
  <2>1. CASE k <= n
    BY <1>1, <1>2, <2>1
  <2>2. CASE ~(k <= n)
    <3>1. k - n \in 1..m /\ g[i][k] = s[k - n]
      BY <1>1, <1>2, <2>2
    <3>2. s[k - n].id = b + (k - n) - 1
      BY <1>0, <3>1
    <3>3. b + (k - n) - 1 \in b..(b + m - 1)
      BY <1>1, <3>1
    <3> QED
      BY <3>1, <3>2, <3>3
  <2> QED
    BY <2>1, <2>2
<1>6. \A k \in 1..n : k \in 1..(n + m) /\ g[i][k] = f[i][k]
  BY <1>1, <1>2
<1>7. \A x \in b..(b + m - 1) : \E k \in 1..(n + m) : g[i][k].id = x
  <2> TAKE x \in b..(b + m - 1)
  <2>1. PICK k \in 1..m : k = x - b + 1
    BY <1>1
  <2>2. s[k].id = x
    BY <1>0, <2>1
  <2>3. /\ n + k \in 1..(n + m) /\ ~(n + k <= n) /\ (n + k) - n = k
    BY <1>1
  <2>4. g[i][n + k] = s[k]
    BY <1>2, <2>3
  <2> QED
    BY <2>2, <2>3, <2>4
<1>8. \A j \in Workers : \A k \in 1..Len(g[j]) :
        \/ k \in 1..Len(f[j]) /\ g[j][k] = f[j][k]
        \/ /\ j = i /\ k - n \in 1..m /\ k \in 1..(n + m)
           /\ g[j][k].id = b + (k - n) - 1
           /\ g[j][k].id \in b..(b + m - 1)
  BY <1>1, <1>2, <1>5 DEF n
<1>9. \A x \in b..(b + m - 1) : ~HasLabel(f, x)
  BY DEF m
<1>10. \A x : HasLabel(g, x) <=> HasLabel(f, x) \/ x \in b..(b + m - 1)
  <2>1. ASSUME NEW x, HasLabel(g, x)
        PROVE  HasLabel(f, x) \/ x \in b..(b + m - 1)
    <3>1. PICK j \in Workers : \E k \in 1..Len(g[j]) : x = g[j][k].id
      BY <2>1 DEF HasLabel
    <3>2. PICK k \in 1..Len(g[j]) : x = g[j][k].id
      BY <3>1
    <3> QED
      BY <1>4, <1>8, <3>2
  <2>2. ASSUME NEW x, HasLabel(f, x)
        PROVE  HasLabel(g, x)
    <3>1. PICK j \in Workers : \E k \in 1..Len(f[j]) : x = f[j][k].id
      BY <2>2 DEF HasLabel
    <3>2. PICK k \in 1..Len(f[j]) : x = f[j][k].id
      BY <3>1
    <3>3. k \in 1..Len(g[j]) /\ x = g[j][k].id
      BY <1>1, <1>2, <1>6, <3>2 DEF n
    <3> QED
      BY <3>3 DEF HasLabel
  <2>3. ASSUME NEW x \in b..(b + m - 1)
        PROVE  HasLabel(g, x)
    BY <1>2, <1>7 DEF HasLabel
  <2> QED
    BY <2>1, <2>2, <2>3
<1>11. ApartIn(g)
  <2> SUFFICES ASSUME NEW j \in Workers, NEW h \in Workers,
                      NEW k \in 1..Len(g[j]), NEW l \in 1..Len(g[h]),
                      g[j][k].id = g[h][l].id
               PROVE  j = h /\ k = l
    BY DEF ApartIn
  <2>2. CASE k \in 1..Len(f[j]) /\ g[j][k] = f[j][k]
    <3>1. HasLabel(f, g[h][l].id)
      BY <1>4, <2>2
    <3>2. l \in 1..Len(f[h]) /\ g[h][l] = f[h][l]
      BY <1>8, <1>9, <3>1
    <3> QED
      BY <2>2, <3>2 DEF ApartIn
  <2>3. CASE l \in 1..Len(f[h]) /\ g[h][l] = f[h][l]
    <3>1. HasLabel(f, g[j][k].id)
      BY <1>4, <2>3
    <3>2. k \in 1..Len(f[j]) /\ g[j][k] = f[j][k]
      BY <1>8, <1>9, <3>1
    <3> QED
      BY <2>3, <3>2 DEF ApartIn
  <2>4. CASE /\ j = i /\ k \in 1..(n + m) /\ g[j][k].id = b + (k - n) - 1
             /\ h = i /\ l \in 1..(n + m) /\ g[h][l].id = b + (l - n) - 1
    BY <1>1, <2>4
  <2> QED
    BY <1>8, <2>2, <2>3, <2>4
<1> QED
  BY <1>10, <1>11 DEF m

\* A call under way as the tasks go on.
Working(c) ==
  /\ Configured /\ DataTyped /\ IsCall(call[c]) /\ Writing(c) /\ Writing(c)'
  /\ \A d \in Callers : d # c => ~Writing(d) /\ ~Writing(d)'
  /\ UNCHANGED <<confVars, indices_, ntotal, clean>>
  /\ call'[c].op = call[c].op /\ call'[c].n = call[c].n /\ call'[c].base = call[c].base
  /\ WriteSteps(c)

\* Its tasks keep what is known of the vectors.
LEMMA WorkResets ==
  ASSUME NEW c \in Callers, Working(c), ResetTakes
  PROVE  ResetTakes'
<1>0. /\ Configured /\ DataTyped /\ UNCHANGED indices_ /\ Writing(c)
      /\ call'[c].op = call[c].op
      /\ WriteSteps(c)
      /\ \A d \in Callers : d # c => ~Writing(d)'
  BY DEF Working
<1>1. Count' = Count
  BY <1>0 DEF Count
<1>2. SUFFICES ASSUME call[c].op = "reset", NEW p \in 1..Count, Took(c, p)'
               PROVE  content'[indices_[p]] = <<>>
  BY <1>0, <1>1 DEF ResetTakes
<1>3. \A r \in 1..Count : Took(c, r) => content[indices_[r]] = <<>>
  BY <1>0, <1>2 DEF ResetTakes
<1>4. \A r \in 1..Count : Position(indices_[r]) = r /\ indices_[r] \in Workers
  BY <1>0, PositionIs
<1>5. CASE content' = content /\ \A r \in 1..Count : Took(c, r)' <=> Took(c, r)
  BY <1>2, <1>3, <1>5
<1>6. ASSUME NEW q \in 1..Count, WritesAt(c, q)
      PROVE  content'[indices_[p]] = <<>>
  <2>1. content' = [content EXCEPT ![indices_[q]] = <<>>]
    BY <1>2, <1>6 DEF WritesAt
  <2>2. content \in [Workers -> Seq(Entry)]
    BY <1>0 DEF DataTyped
  <2>3. CASE p = q
    BY <1>4, <2>1, <2>2, <2>3
  <2>4. CASE p # q
    <3>1. Took(c, p)
      BY <1>2, <1>6, <2>4 DEF WritesAt
    <3>2. indices_[p] # indices_[q] /\ indices_[p] \in Workers
      BY <1>4, <2>4
    <3> QED
      BY <1>3, <2>1, <2>2, <3>1, <3>2
  <2> QED
    BY <2>3, <2>4
<1> QED
  BY <1>0, <1>5, <1>6 DEF WriteSteps

LEMMA WorkReplicas ==
  ASSUME NEW c \in Callers, Working(c), ReplicasNumbered
  PROVE  ReplicasNumbered'
<1>0. /\ Configured /\ DataTyped /\ UNCHANGED kind /\ Writing(c) /\ WriteSteps(c)
      /\ IsCall(call[c])
  BY DEF Working, confVars
<1>1. SUFFICES ASSUME kind = "replicas", NEW i \in Workers
               PROVE  \A k \in 1..Len(content'[i]) : content'[i][k].id = k - 1
  BY <1>0 DEF ReplicasNumbered, Size
<1>2. /\ content \in [Workers -> Seq(Entry)] /\ Size(i) \in Nat /\ Size(i) = Len(content[i])
      /\ \A k \in 1..Size(i) : content[i][k].id = k - 1
  BY <1>0, <1>1, LenProperties DEF DataTyped, Size, ReplicasNumbered
<1>3. CASE content'[i] = content[i]
  BY <1>2, <1>3
<1>4. ASSUME NEW q \in 1..Count, WritesAt(c, q), i = indices_[q]
      PROVE  \A k \in 1..Len(content'[i]) : content'[i][k].id = k - 1
  <2>1. CASE call[c].op = "reset"
    <3>1. content'[i] = <<>>
      BY <1>2, <1>4, <2>1 DEF WritesAt
    <3>2. Len(content'[i]) = 0
      BY <3>1
    <3> QED
      BY <3>2
  <2>2. CASE call[c].op # "reset"
    <3> DEFINE s == AddedTo(c, i, q)
    <3>1. s \in Seq(Entry) /\ \A k \in 1..Len(s) : s[k].id = Size(i) + k - 1
      BY <1>0, <1>1, <1>4, AddedLabels DEF Writing
    <3>2. content'[i] = content[i] \o s
      BY <1>2, <1>4, <2>2 DEF WritesAt
    <3> HIDE DEF s
    <3>3. /\ Len(s) \in Nat /\ Len(content'[i]) = Size(i) + Len(s)
          /\ \A k \in 1..(Size(i) + Len(s)) :
               content'[i][k] = IF k <= Size(i) THEN content[i][k] ELSE s[k - Size(i)]
      <4>1. content[i] \in Seq(Entry)
        BY <1>2
      <4> QED
        BY <1>2, <3>1, <3>2, <4>1, ConcatProperties, LenProperties
    <3>4. PICK n \in Nat : n = Size(i)
      BY <1>2
    <3>5. PICK m \in Nat : m = Len(s)
      BY <3>3
    <3>6. ASSUME NEW k \in 1..(n + m)
          PROVE  content'[i][k].id = k - 1
      <4>1. CASE k <= n
        <5>1. k \in 1..n
          BY <4>1
        <5> QED
          BY <1>2, <3>3, <3>4, <3>5, <4>1, <5>1
      <4>2. CASE ~(k <= n)
        <5>1. k - n \in 1..m /\ n + (k - n) - 1 = k - 1
          BY <4>2
        <5>2. s[k - n].id = n + (k - n) - 1
          BY <3>1, <3>4, <3>5, <5>1
        <5>3. content'[i][k] = s[k - n]
          BY <3>3, <3>4, <3>5, <4>2
        <5> QED
          BY <5>1, <5>2, <5>3
      <4> QED
        BY <4>1, <4>2
    <3> QED
      BY <3>3, <3>4, <3>5, <3>6
  <2> QED
    BY <2>1, <2>2
<1>5. ASSUME NEW q \in 1..Count, WritesAt(c, q), i # indices_[q]
      PROVE  content'[i] = content[i]
  BY <1>2, <1>5 DEF WritesAt
<1> QED
  BY <1>0, <1>3, <1>4, <1>5 DEF WriteSteps

\* The labels add gives at a position are new ones.
LEMMA ShareIsNew ==
  ASSUME NEW c \in Callers, Configured, DataTyped, IsCall(call[c]), Writing(c),
         call[c].op = "add", LabelsCounted, NEW q \in 1..Count, ~Took(c, q)
  PROVE  \A x \in Share(c, q) : x \notin Labels
<1> SUFFICES ASSUME NEW x \in Share(c, q), x \in Labels PROVE FALSE
  OBVIOUS
<1>1. /\ Count \in Nat /\ Count # 0 /\ call[c].n \in Nat /\ ntotal \in Nat
  <2>1. Count \in Nat /\ call[c].n \in Nat /\ ntotal \in Nat
    BY LenProperties DEF IsCall, DataTyped, Configured, Count
  <2> QED
    BY <2>1
<1> DEFINE r(p) == ShardRange(call[c].n, p)
<1>2. /\ \A p \in 1..Count : r(p).from \in Nat /\ r(p).to \in Nat
      /\ \A p, s \in 1..Count : p < s => r(p).to <= r(s).from
  BY <1>1, SharesDivide
<1>3. \A p \in 1..Count : Share(c, p) = (ntotal + r(p).from)..(ntotal + r(p).to - 1)
  BY DEF Share
<1> HIDE DEF r
<1>4. \/ x \in 0..(ntotal - 1)
      \/ \E p \in 1..Count : Took(c, p) /\ x \in Share(c, p)
  BY DEF LabelsCounted
<1>5. CASE x \in 0..(ntotal - 1)
  BY <1>1, <1>2, <1>3, <1>5
<1>6. ASSUME NEW p \in 1..Count, Took(c, p), x \in Share(c, p)
      PROVE  FALSE
  <2>1. p # q
    BY <1>6
  <2>2. PICK a \in Nat, b \in Nat : a = r(p).from /\ b = r(p).to
    BY <1>2
  <2>3. PICK d \in Nat, e \in Nat : d = r(q).from /\ e = r(q).to
    BY <1>2
  <2>4. x \in (ntotal + a)..(ntotal + b - 1) /\ x \in (ntotal + d)..(ntotal + e - 1)
    BY <1>3, <1>6, <2>2, <2>3
  <2>5. b <= d \/ e <= a
    <3>1. p < q \/ q < p
      BY <1>1, <2>1
    <3> QED
      BY <1>2, <2>2, <2>3, <3>1
  <2> QED
    BY <1>1, <2>4, <2>5
<1> QED
  BY <1>4, <1>5, <1>6

LEMMA WorkShards ==
  ASSUME NEW c \in Callers, Working(c), ShardsNumbered
  PROVE  ShardsNumbered'
<1>0. /\ Configured /\ DataTyped /\ UNCHANGED <<kind, successive_ids, indices_, ntotal>>
      /\ Writing(c) /\ Writing(c)' /\ WriteSteps(c) /\ IsCall(call[c])
      /\ \A d \in Callers : d # c => ~Writing(d) /\ ~Writing(d)'
      /\ call'[c].op = call[c].op /\ call'[c].n = call[c].n
      /\ call'[c].base = call[c].base
      /\ content \in [Workers -> Seq(Entry)]
  BY DEF Working, confVars, DataTyped
<1>1. SUFFICES ASSUME kind = "shards", ~successive_ids
               PROVE  OutsideEmpty' /\ Apart' /\ LabelsCounted'
  BY <1>0 DEF ShardsNumbered
<1>2. OutsideEmpty /\ Apart /\ LabelsCounted
  BY <1>1 DEF ShardsNumbered
<1>3. Count' = Count /\ \A p : Share(c, p)' = Share(c, p)
  BY <1>0 DEF Count, Share, ShardRange
<1>4. \A q \in 1..Count : indices_[q] \in Workers /\ indices_[q] \in Range(indices_)
  BY <1>0, PositionIs, RangeBySequence DEF Configured, Count
<1>5. OutsideEmpty'
  <2>1. ASSUME NEW i \in Workers, i \notin Range(indices_)
        PROVE  content'[i] = content[i]
    BY <1>0, <1>4, <2>1 DEF WriteSteps, WritesAt
  <2> QED
    BY <1>0, <1>2, <2>1 DEF OutsideEmpty
<1>6. LabelsCounted' <=>
        (call[c].op = "add" =>
           /\ call[c].base = ntotal
           /\ \A x : x \in Labels' <=>
                \/ x \in 0..(ntotal - 1)
                \/ \E p \in 1..Count : Took(c, p)' /\ x \in Share(c, p))
  <2>1. ~NoneWriting'
    BY <1>0 DEF NoneWriting
  <2> QED
    BY <1>0, <1>3, <2>1 DEF LabelsCounted
<1>7. call[c].op = "add" =>
        /\ call[c].base = ntotal
        /\ \A x : x \in Labels <=>
             \/ x \in 0..(ntotal - 1)
             \/ \E p \in 1..Count : Took(c, p) /\ x \in Share(c, p)
  BY <1>0, <1>2 DEF LabelsCounted
<1>8. CASE content' = content /\ \A p \in 1..Count : Took(c, p)' <=> Took(c, p)
  <2>1. Apart' /\ Labels' = Labels
    BY <1>2, <1>8 DEF Apart, Labels, LabelsOf, Size
  <2> QED
    BY <1>5, <1>6, <1>7, <1>8, <2>1
<1>9. ASSUME NEW q \in 1..Count, WritesAt(c, q), call[c].op = "reset"
      PROVE  Apart' /\ LabelsCounted'
  <2>1. \A i \in Workers : content'[i] = content[i] \/ content'[i] = <<>>
    BY <1>0, <1>4, <1>9 DEF WritesAt
  <2>2. \A i \in Workers : \A k \in 1..Len(content'[i]) :
          k \in 1..Len(content[i]) /\ content'[i][k] = content[i][k]
    <3>1. Len(<<>>) = 0 /\ 1..0 = {}
      OBVIOUS
    <3> QED
      BY <2>1, <3>1
  <2>3. ApartIn(content')
    <3>1. ApartIn(content)
      BY <1>2, LabelsAre
    <3>2. PICK g : g = content'
      OBVIOUS
    <3>3. PICK f : f = content
      OBVIOUS
    <3>4. ApartIn(f)
      BY <3>1, <3>3
    <3>5. \A i \in Workers : \A k \in 1..Len(g[i]) : k \in 1..Len(f[i]) /\ g[i][k] = f[i][k]
      BY <2>2, <3>2, <3>3
    <3>6. ApartIn(g)
      <4> SUFFICES ASSUME NEW i \in Workers, NEW j \in Workers,
                          NEW k \in 1..Len(g[i]), NEW l \in 1..Len(g[j]),
                          g[i][k].id = g[j][l].id
                   PROVE  i = j /\ k = l
        BY DEF ApartIn
      <4>1. k \in 1..Len(f[i]) /\ l \in 1..Len(f[j]) /\ f[i][k].id = f[j][l].id
        BY <3>5
      <4> QED
        BY <3>4, <4>1 DEF ApartIn
    <3> QED
      BY <3>2, <3>6
  <2> QED
    BY <1>6, <1>9, <2>3, LabelsAre
<1>10. ASSUME NEW q \in 1..Count, WritesAt(c, q), call[c].op = "add"
       PROVE  Apart' /\ LabelsCounted'
  <2> DEFINE r == ShardRange(call[c].n, q)
  <2>1. /\ r.from \in Nat /\ r.to \in Nat /\ r.from <= r.to /\ ntotal \in Nat
        /\ Share(c, q) = (ntotal + r.from)..(ntotal + r.to - 1)
    <3>1. /\ Count \in Nat /\ Count # 0 /\ call[c].n \in Nat /\ ntotal \in Nat
      <4>1. Count \in Nat /\ call[c].n \in Nat /\ ntotal \in Nat
        BY <1>0, LenProperties DEF IsCall, DataTyped, Configured, Count
      <4> QED
        BY <4>1
    <3> QED
      BY <3>1, SharesDivide DEF Share
  <2>2. PICK i \in Workers : i = indices_[q]
    BY <1>4
  <2>3. PICK s : s = AddedTo(c, i, q)
    OBVIOUS
  <2>4. /\ s \in Seq(Entry)
        /\ r.from <= r.to => Len(s) = r.to - r.from
        /\ \A k \in 1..Len(s) : s[k].id = call[c].base + r.from + k - 1
    BY <1>0, <1>1, <2>3, AddedLabels DEF Writing
  <2>5. content' = [content EXCEPT ![i] = @ \o s]
    BY <1>10, <2>2, <2>3 DEF WritesAt
  <2>6. \A x \in Share(c, q) : x \notin Labels
    BY <1>0, <1>2, <1>10, ShareIsNew DEF WritesAt
  <2>7. PICK b \in Nat : b = ntotal + r.from
    BY <2>1
  <2> HIDE DEF r
  <2>8. Share(c, q) = b..(b + Len(s) - 1)
    <3>1. PICK from \in Nat, to \in Nat : from = r.from /\ to = r.to
      BY <2>1
    <3>2. /\ Share(c, q) = (ntotal + from)..(ntotal + to - 1)
          /\ Len(s) = to - from /\ b = ntotal + from
      BY <2>1, <2>4, <2>7, <3>1
    <3> QED
      BY <2>1, <3>2
  <2>9. \A k \in 1..Len(s) : s[k].id = b + k - 1
    BY <1>7, <1>10, <2>4, <2>7
  <2>10. ApartIn(content) /\ \A x \in b..(b + Len(s) - 1) : ~HasLabel(content, x)
    BY <1>2, <2>6, <2>8, LabelsAre
  <2>11. /\ ApartIn(content')
         /\ \A x : HasLabel(content', x) <=> HasLabel(content, x) \/ x \in b..(b + Len(s) - 1)
    <3>1. PICK g : g = content'
      OBVIOUS
    <3>2. PICK f \in [Workers -> Seq(Entry)] : f = content
      BY <1>0
    <3>3. /\ ApartIn(g)
          /\ \A x : HasLabel(g, x) <=> HasLabel(f, x) \/ x \in b..(b + Len(s) - 1)
      <4>1. Grows(f, g, i, s, b)
        BY <2>2, <2>4, <2>5, <2>7, <2>9, <2>10, <3>1, <3>2 DEF Grows
      <4> QED
        BY <4>1, AddNumbers
    <3> QED
      BY <3>1, <3>2, <3>3
  <2>12. Apart' /\ \A x : x \in Labels' <=> x \in Labels \/ x \in Share(c, q)
    BY <2>8, <2>11, LabelsAre
  <2>13. \A p \in 1..Count : Took(c, p)' <=> Took(c, p) \/ p = q
    BY <1>10 DEF WritesAt
  <2> QED
    BY <1>6, <1>7, <1>10, <2>12, <2>13
<1> QED
  BY <1>0, <1>5, <1>8, <1>9, <1>10 DEF WriteSteps, Writing

LEMMA WorkNumbers ==
  ASSUME Inv, Inv', DataTyped, AnswersKnown, Unharmed', Numbered, [Next]_vars,
         NEW c \in Callers, Writing(c), step'[c] # "idle",
         \A d \in Callers : d # c => ~Writing(d) /\ ~Writing(d)'
  PROVE  Numbered'
<1>1. /\ UNCHANGED <<confVars, indices_, ntotal, clean>>
      /\ call'[c].op = call[c].op /\ call'[c].n = call[c].n
      /\ call'[c].base = call[c].base
      /\ WriteSteps(c)
  BY WorkStep
<1>2. call[c].op \in {"add", "reset"} /\ Writing(c)'
  BY <1>1 DEF Writing
<1>3. Working(c)
  BY <1>1, <1>2 DEF Working, Inv, Control
<1>4. TotalKnown'
  <2>1. ~Settled(c)'
    BY <1>1, <1>2 DEF Settled
  <2>2. ASSUME NEW d \in Callers, step'[d] = "finish", call'[d].op = "destroy"
        PROVE  FALSE
    <3>1. d # c
      BY <1>1, <1>2, <2>2
    <3> QED
      BY <1>1, <1>2, <2>2, <3>1 DEF Inv, Control, Alone
  <2> QED
    BY <2>1, <2>2 DEF TotalKnown
<1> QED
  BY <1>3, <1>4, WorkResets, WorkReplicas, WorkShards DEF Numbered

\* When all positions have taken their share, the labels are those up to the
\* new total.
LEMMA AllTaken ==
  ASSUME Configured, DataTyped, NEW c \in Callers, IsCall(call[c]), Writing(c),
         call[c].op = "add", Count # 0, LabelsCounted,
         \A p \in 1..Count : Took(c, p)
  PROVE  \E m \in Nat : m = ntotal + call[c].n /\ Labels = 0..(m - 1)
<1>1. /\ Count \in Nat /\ call[c].n \in Nat /\ ntotal \in Nat
  BY LenProperties DEF IsCall, DataTyped, Configured, Count
<1>2. PICK n \in Nat : n = call[c].n
  BY <1>1
<1>3. PICK t \in Nat : t = ntotal
  BY <1>1
<1> DEFINE r(p) == ShardRange(n, p)
<1>4. /\ \A p \in 1..Count : /\ r(p).from \in Nat /\ r(p).to \in Nat
                             /\ r(p).to <= n
      /\ \A x \in 0..(n - 1) : \E p \in 1..Count : r(p).from <= x /\ x < r(p).to
  BY <1>1, SharesDivide
<1>5. \A p \in 1..Count : Share(c, p) = (t + r(p).from)..(t + r(p).to - 1)
  BY <1>2, <1>3 DEF Share
<1> HIDE DEF r
<1>6. \A x : x \in Labels <=>
         x \in 0..(t - 1) \/ \E p \in 1..Count : x \in Share(c, p)
  BY <1>3 DEF LabelsCounted
<1>7. ASSUME NEW x, x \in Labels
      PROVE  x \in 0..(t + n - 1)
  <2>1. CASE x \in 0..(t - 1)
    BY <2>1
  <2>2. ASSUME NEW p \in 1..Count, x \in Share(c, p)
        PROVE  x \in 0..(t + n - 1)
    <3>1. PICK a \in Nat, b \in Nat : a = r(p).from /\ b = r(p).to /\ b <= n
      BY <1>4
    <3>2. x \in (t + a)..(t + b - 1)
      BY <1>5, <2>2, <3>1
    <3> QED
      BY <3>1, <3>2
  <2> QED
    BY <1>6, <1>7, <2>1, <2>2
<1>8. ASSUME NEW x \in 0..(t + n - 1)
      PROVE  x \in Labels
  <2>1. CASE x < t
    <3>1. x \in 0..(t - 1)
      BY <2>1
    <3> QED
      BY <1>6, <3>1
  <2>2. CASE ~(x < t)
    <3>1. x - t \in 0..(n - 1)
      BY <2>2
    <3>2. PICK p \in 1..Count : r(p).from <= x - t /\ x - t < r(p).to
      BY <1>4, <3>1
    <3>3. PICK a \in Nat, b \in Nat : a = r(p).from /\ b = r(p).to
      BY <1>4
    <3>4. x \in (t + a)..(t + b - 1)
      BY <3>2, <3>3
    <3> QED
      BY <1>5, <1>6, <3>3, <3>4
  <2> QED
    BY <2>1, <2>2
<1>9. PICK m \in Nat : m = t + n
  OBVIOUS
<1>10. Labels = 0..(m - 1)
  <2>1. m - 1 = t + n - 1
    BY <1>9
  <2> QED
    BY <1>7, <1>8, <2>1
<1> QED
  BY <1>2, <1>3, <1>9, <1>10

\* The end of add or reset counts what its tasks have done.
LEMMA FinishWriting ==
  ASSUME Inv, DataTyped, AnswersKnown, Unharmed', Numbered,
         NEW c \in Callers, Writing(c), Finish(c), NoneWriting'
  PROVE  Numbered'
<1>0. /\ Control /\ Configured /\ IsCall(call[c]) /\ content \in [Workers -> Seq(Entry)]
      /\ step \in [Callers -> Steps] /\ ntotal \in Nat
      /\ call[c].op \in {"add", "reset"}
  BY DEF Inv, Control, DataTyped, Writing
<1>r. Range(indices_) = {indices_[p] : p \in 1..Count}
  BY <1>0, RangeBySequence DEF Configured, Count
<1>1. /\ \A p \in 1..Count : Took(c, p)
      /\ ~call[c].thrown /\ step[c] = "finish"
      /\ UNCHANGED <<kind, successive_ids, indices_, content>>
      /\ call[c].op = "reset" => ntotal' = 0
      /\ call[c].op = "add" => ntotal' = Synced
  BY FinishTook DEF confVars
<1>2. All' = All /\ Store' = Store
  BY <1>1, StoreStays
<1>3. ResetTakes'
  BY DEF NoneWriting, ResetTakes
<1>4. ReplicasNumbered'
  BY <1>1 DEF Numbered, ReplicasNumbered, Size
<1>5. \A d \in Callers : step'[d] = "idle"
  <2>1. \A d \in Callers \ {c} : step[d] = "idle"
    BY <1>0, OnlyWriter
  <2>2. Caller(c)
    BY DEF Caller
  <2>3. \A d \in Callers \ {c} : step'[d] = step[d]
    BY <1>0, <2>2, CallerFrame
  <2>4. step'[c] = "idle"
    BY <1>0 DEF Finish, CallerGoto
  <2> QED
    BY <2>1, <2>3, <2>4
<1>6. call[c].op = "reset" => \A p \in 1..Count : content[indices_[p]] = <<>>
  BY <1>1 DEF Numbered, ResetTakes
<1>7. ntotal' = Len(Store')
  <2>1. CASE call[c].op = "reset"
    <3>1. Store = <<>>
      BY <1>0, <1>6, <2>1, StoreEmpty
    <3> QED
      BY <1>1, <1>2, <2>1, <3>1
  <2>2. CASE call[c].op = "add"
    BY <1>0, <1>1, <1>2, <2>2, StoreEmpty DEF Synced
  <2> QED
    BY <1>0, <2>1, <2>2
<1>8. TotalKnown'
  BY <1>5, <1>7 DEF TotalKnown
<1>9. ShardsNumbered'
  <2> SUFFICES ASSUME kind = "shards", ~successive_ids
               PROVE  OutsideEmpty' /\ Apart' /\ LabelsCounted'
    BY <1>1 DEF ShardsNumbered
  <2>1. OutsideEmpty /\ Apart /\ LabelsCounted
    BY DEF Numbered, ShardsNumbered
  <2>2. OutsideEmpty' /\ Apart' /\ Labels' = Labels
    BY <1>1, <2>1 DEF OutsideEmpty, Apart, Labels, LabelsOf, Size
  <2>3. Labels = 0..(ntotal' - 1)
    <3>1. CASE call[c].op = "reset"
      <4>1. \A i \in Workers : content[i] = <<>>
        <5>1. \A i \in Range(indices_) : content[i] = <<>>
          BY <1>r, <1>6, <3>1
        <5> QED
          BY <2>1, <5>1 DEF OutsideEmpty
      <4>2. Labels = {}
        BY <1>0, <4>1, LabelsHeld
      <4> QED
        BY <1>1, <3>1, <4>2
    <3>2. CASE call[c].op = "add"
      <4>1. CASE Count # 0
        <5>1. PICK m \in Nat : m = ntotal + call[c].n /\ Labels = 0..(m - 1)
          BY <1>0, <1>1, <2>1, <3>2, <4>1, AllTaken
        <5>2. Len(All) = m
          BY <1>0, <2>1, <5>1, AllCounts
        <5> QED
          BY <1>1, <3>2, <5>1, <5>2 DEF Synced
      <4>2. CASE Count = 0
        <5>1. Range(indices_) = {}
          BY <1>r, <4>2
        <5>2. \A i \in Workers : content[i] = <<>>
          BY <2>1, <5>1 DEF OutsideEmpty
        <5>3. Labels = {} /\ All = <<>>
          BY <1>0, <4>2, <5>2, LabelsHeld, StoreEmpty
        <5>4. ntotal' = 0
          BY <1>1, <3>2, <5>3 DEF Synced
        <5> QED
          BY <5>3, <5>4
      <4> QED
        BY <4>1, <4>2
    <3> QED
      BY <1>0, <3>1, <3>2
  <2>4. LabelsCounted'
    BY <2>2, <2>3 DEF LabelsCounted, NoneWriting
  <2> QED
    BY <2>2, <2>4
<1> QED
  BY <1>3, <1>4, <1>8, <1>9 DEF Numbered

\* Steps that leave the data, and no call less settled, change nothing.
LEMMA SameNumbers ==
  ASSUME UNCHANGED <<kind, successive_ids, indices_, content, ntotal>>, Numbered,
         NoneWriting, NoneWriting',
         \A d \in Callers : (Settled(d))' => Settled(d),
         \A d \in Callers : step'[d] = "finish" /\ call'[d].op = "destroy" =>
           step[d] = "finish" /\ call[d].op = "destroy"
  PROVE  Numbered'
<1>1. Store' = Store
  BY StoreStays
<1>2. ResetTakes'
  BY DEF NoneWriting, ResetTakes
<1>3. ReplicasNumbered'
  BY DEF Numbered, ReplicasNumbered, Size
<1>4. TotalKnown'
  BY <1>1 DEF Numbered, TotalKnown
<1>5. ShardsNumbered'
  BY DEF Numbered, ShardsNumbered, OutsideEmpty, Apart, LabelsCounted, Labels, LabelsOf,
         Size, NoneWriting
<1> QED
  BY <1>2, <1>3, <1>4, <1>5 DEF Numbered

\* And so do the steps in which no call changes the sub-indexes.
LEMMA BeginNumbers ==
  ASSUME Inv, DataTyped, AnswersKnown, Collection, Numbered, NoneWriting,
         NEW c \in Callers, Begin(c), content' = content,
         \A d \in Callers : d # c => ~Writing(d)'
  PROVE  Numbered'
<1>0. /\ Control /\ Configured /\ content \in [Workers -> Seq(Entry)]
  BY DEF Inv, Control, DataTyped
<1>1. PICK s, r : /\ step[c] = "idle" /\ step' = [step EXCEPT ![c] = s]
                  /\ call' = [call EXCEPT ![c] = r]
                  /\ IsCall(r) /\ r.base = ntotal
                  /\ Begins(c, s, r)
  BY <1>0, BeginSteps
<1>2. /\ step'[c] = s /\ call'[c] = r
      /\ \A d \in Callers \ {c} : step'[d] = step[d] /\ call'[d] = call[d]
  BY <1>0, <1>1 DEF Control
<1>3. UNCHANGED <<kind, successive_ids, ntotal>>
  BY DEF Begin, BeginRun, BeginSplit, BeginAddIndex, BeginRemove, confVars, dataVars
<1>4. kind \in {"shards", "replicas"} /\ s # "idle"
  BY <1>1 DEF Collection, Begins, Run
<1>5. CASE /\ r.op \in Runs /\ s = Run /\ OthersSearch /\ (r.op # "search" => AllIdle)
           /\ UNCHANGED indices_
  <2>1. CASE r.op = "search"
    <3>1. NoneWriting'
      BY <1>2, <2>1 DEF NoneWriting, Writing
    <3>2. \A d \in Callers : Settled(d)
      BY <1>5 DEF OthersSearch, Settled
    <3>3. \A d \in Callers : step'[d] = "finish" /\ call'[d].op = "destroy" =>
            step[d] = "finish" /\ call[d].op = "destroy"
      BY <1>2, <2>1
    <3> QED
      BY <1>3, <1>5, <3>1, <3>2, <3>3, SameNumbers
  <2>2. CASE r.op # "search"
    <3>1. /\ Writing(c)' /\ r.op \in {"add", "reset"}
      BY <1>2, <1>4, <1>5, <2>2 DEF Writing, Runs
    <3>2. /\ UNCHANGED <<indices_, ntotal, clean>>
          /\ call'[c].base = ntotal /\ AllIdle
          /\ \A p \in 1..Count : ~Took(c, p)'
      BY <3>1, BeginWrites
    <3>3. Count' = Count
      BY <3>2 DEF Count
    <3>4. ResetTakes'
      <4>1. \A d \in Callers : Writing(d)' => d = c
        OBVIOUS
      <4>2. \A p \in 1..Count' : ~Took(c, p)'
        BY <3>2, <3>3
      <4> QED
        BY <4>1, <4>2 DEF ResetTakes
    <3>5. ReplicasNumbered'
      BY <1>3 DEF Numbered, ReplicasNumbered, Size
    <3>6. TotalKnown'
      <4>1. ~Settled(c)'
        BY <1>2, <1>4, <3>1 DEF Settled
      <4>2. \A d \in Callers : step'[d] = "finish" => d = c
        BY <1>2, <3>2 DEF AllIdle
      <4>3. call'[c].op # "destroy"
        BY <1>2, <3>1
      <4> QED
        BY <4>1, <4>2, <4>3 DEF TotalKnown
    <3>7. ASSUME kind = "shards", ~successive_ids
          PROVE  OutsideEmpty' /\ Apart' /\ LabelsCounted'
      <4>1. OutsideEmpty /\ Apart /\ Labels = 0..(ntotal - 1)
        BY <3>7 DEF Numbered, ShardsNumbered, LabelsCounted
      <4>2. OutsideEmpty' /\ Apart' /\ Labels' = Labels
        BY <3>2, <4>1 DEF OutsideEmpty, Apart, Labels, LabelsOf, Size
      <4>3. ~NoneWriting'
        BY <3>1 DEF NoneWriting
      <4>4. \A p \in 1..Count' : ~Took(c, p)'
        BY <3>2, <3>3
      <4>5. \A d \in Callers : Writing(d)' => d = c
        OBVIOUS
      <4>6. LabelsCounted'
        BY <3>2, <4>1, <4>2, <4>3, <4>4, <4>5 DEF LabelsCounted
      <4> QED
        BY <4>2, <4>6
    <3> QED
      BY <1>3, <3>4, <3>5, <3>6, <3>7 DEF Numbered, ShardsNumbered
  <2> QED
    BY <2>1, <2>2
<1>6. CASE /\ r.op = "addIndex" /\ AllIdle
           /\ \E i \in Workers \ Range(indices_) : indices_' = Append(indices_, i)
  <2>1. PICK i \in Workers \ Range(indices_) : indices_' = Append(indices_, i)
    BY <1>6
  <2>2. NoneWriting'
    BY <1>2, <1>6 DEF NoneWriting, Writing
  <2>3. /\ indices_ \in Seq(Workers) /\ Count \in Nat /\ Count' = Count + 1
        /\ Count > 0 => indices_'[1] = indices_[1]
        /\ Range(indices_') = Range(indices_) \cup {i}
    BY <1>0, <2>1, AppendAdds, AppendProperties, LenProperties DEF Configured, Count
  <2>4. ResetTakes'
    BY <2>2 DEF NoneWriting, ResetTakes
  <2>5. ReplicasNumbered'
    BY <1>3 DEF Numbered, ReplicasNumbered, Size
  <2>6. TotalKnown'
    <3>1. ASSUME \A d \in Callers : Settled(d)'
          PROVE  ntotal' = Len(Store')
      <4>1. kind = "replicas" /\ Count' > 1
        BY <1>2, <1>3, <1>4, <1>6, <3>1 DEF Settled
      <4>2. Count > 0
        BY <2>3, <4>1
      <4>3. Store = content[indices_[1]]
        BY <2>3, <4>1, <4>2 DEF Store
      <4>4. Store' = content'[indices_'[1]]
        BY <1>3, <2>3, <4>1 DEF Store
      <4>5. ntotal = Len(Store)
        BY <1>6 DEF Numbered, TotalKnown, Settled, AllIdle
      <4> QED
        BY <1>3, <2>3, <4>2, <4>3, <4>4, <4>5
    <3>2. \A d \in Callers : step'[d] = "finish" => call'[d].op # "destroy"
      BY <1>2, <1>6 DEF AllIdle
    <3> QED
      BY <3>1, <3>2 DEF TotalKnown
  <2>7. ShardsNumbered'
    <3> SUFFICES ASSUME kind = "shards", ~successive_ids
                 PROVE  OutsideEmpty' /\ Apart' /\ LabelsCounted'
      BY <1>3 DEF ShardsNumbered
    <3>1. OutsideEmpty /\ Apart /\ Labels = 0..(ntotal - 1)
      BY DEF Numbered, ShardsNumbered, LabelsCounted
    <3>2. OutsideEmpty' /\ Apart' /\ Labels' = Labels
      BY <2>3, <3>1 DEF OutsideEmpty, Apart, Labels, LabelsOf, Size
    <3>3. LabelsCounted'
      BY <1>3, <2>2, <3>1, <3>2 DEF LabelsCounted, NoneWriting
    <3> QED
      BY <3>2, <3>3
  <2> QED
    BY <2>4, <2>5, <2>6, <2>7 DEF Numbered
<1>7. CASE /\ r.op \in {"removeIndex", "destroy"} /\ AllIdle
           /\ s = IF isThreaded_ THEN "stop" ELSE "erase"
           /\ UNCHANGED indices_
  <2>1. NoneWriting'
    BY <1>2, <1>7 DEF NoneWriting, Writing
  <2>2. \A d \in Callers : Settled(d)
    BY <1>7 DEF AllIdle, Settled
  <2>3. \A d \in Callers : step'[d] = "finish" => FALSE
    BY <1>2, <1>7 DEF AllIdle
  <2> QED
    BY <1>3, <1>7, <2>1, <2>2, <2>3, SameNumbers
<1> QED
  BY <1>1, <1>4, <1>5, <1>6, <1>7 DEF Begins

LEMMA EraseNumbers ==
  ASSUME Inv, DataTyped, Numbered, NoneWriting, NoneWriting', Unharmed',
         NEW c \in Callers, Erase(c)
  PROVE  Numbered'
<1>0. /\ Control /\ Configured /\ content \in [Workers -> Seq(Entry)] /\ CallFits(c)
      /\ ntotal \in Nat /\ step \in [Callers -> Steps]
  BY DEF Inv, Control, DataTyped
<1>1. /\ step[c] = "erase" /\ step' = [step EXCEPT ![c] = "finish"] /\ UNCHANGED call
      /\ UNCHANGED <<kind, successive_ids, content>>
      /\ indices_' = IF call[c].op = "destroy" THEN <<>>
                     ELSE RemoveAt(indices_, call[c].at)
      /\ ntotal' = IF call[c].op = "destroy" THEN 0 ELSE ntotal
      /\ kind = "replicas" \/ successive_ids \/ Store = <<>>
  BY DEF Erase, CallerGoto, confVars, Unharmed
<1>2. call[c].op \in {"removeIndex", "destroy"}
  BY <1>0, <1>1 DEF CallFits
<1>3. ResetTakes'
  BY DEF NoneWriting, ResetTakes
<1>4. ReplicasNumbered'
  BY <1>1 DEF Numbered, ReplicasNumbered, Size
<1>5. TotalKnown'
  <2>1. ~Settled(c)'
    BY <1>0, <1>1, <1>2 DEF Settled
  <2>2. \A d \in Callers : step'[d] # "idle" => d = c
    BY <1>0, <1>1, <1>2 DEF Control, Alone
  <2>3. call'[c].op = "destroy" => indices_' = <<>> /\ ntotal' = 0
    BY <1>1
  <2> QED
    BY <2>1, <2>2, <2>3 DEF TotalKnown
<1>6. ShardsNumbered'
  <2> SUFFICES ASSUME kind = "shards", ~successive_ids
               PROVE  OutsideEmpty' /\ Apart' /\ LabelsCounted'
    BY <1>1 DEF ShardsNumbered
  <2>1. OutsideEmpty /\ Labels = 0..(ntotal - 1)
    BY DEF Numbered, ShardsNumbered, LabelsCounted
  <2>2. \A p \in 1..Count : content[indices_[p]] = <<>>
    BY <1>0, <1>1, StoreEmpty
  <2>3. Range(indices_) = {indices_[p] : p \in 1..Count}
    BY <1>0, RangeBySequence DEF Configured, Count
  <2>4. \A i \in Workers : content[i] = <<>>
    BY <2>1, <2>2, <2>3 DEF OutsideEmpty
  <2>5. Labels = {} /\ Apart
    BY <1>0, <2>4, LabelsHeld
  <2>6. ntotal = 0
    <3>1. CASE ntotal > 0
      <4>1. 0 \in 0..(ntotal - 1)
        BY <1>0, <3>1
      <4> QED
        BY <2>1, <2>5, <4>1
    <3> QED
      BY <1>0, <3>1
  <2>7. OutsideEmpty' /\ Apart' /\ Labels' = Labels
    BY <1>1, <2>4, <2>5 DEF OutsideEmpty, Apart, Labels, LabelsOf, Size
  <2>8. ntotal' = 0
    BY <1>1, <2>6
  <2>9. LabelsCounted'
    BY <2>5, <2>7, <2>8 DEF LabelsCounted, NoneWriting
  <2> QED
    BY <2>7, <2>9
<1> QED
  BY <1>3, <1>4, <1>5, <1>6 DEF Numbered

LEMMA FinishNumbers ==
  ASSUME Inv, DataTyped, Collection, Unharmed, Numbered, NoneWriting, NoneWriting',
         NEW c \in Callers, Finish(c)
  PROVE  Numbered'
<1>0. /\ Control /\ Configured /\ content \in [Workers -> Seq(Entry)] /\ CallFits(c)
      /\ ntotal \in Nat /\ step \in [Callers -> Steps]
  BY DEF Inv, Control, DataTyped
<1>1. /\ step[c] = "finish" /\ step'[c] = "idle"
      /\ UNCHANGED <<kind, successive_ids, indices_, content>>
      /\ \A d \in Callers \ {c} : step'[d] = step[d] /\ call'[d] = call[d]
  BY <1>0, CallerFrame DEF Caller, Finish, CallerGoto, confVars
<1>2. call[c].op \in {"search", "destroy", "addIndex", "removeIndex"}
  BY <1>0, <1>1 DEF CallFits, Ops, Whole, Runs, NoneWriting, Writing
<1>3. call[c].op # "search" => ~call[c].thrown
  BY <1>1 DEF Unharmed
<1>4. All' = All /\ Store' = Store /\ Count' = Count
  BY <1>1, StoreStays DEF Count
<1>5. CASE \/ call[c].op = "search"
           \/ call[c].op = "addIndex" /\ kind = "replicas" /\ Count > 1
  <2>1. ntotal' = ntotal
    BY <1>3, <1>5 DEF Finish
  <2>2. Settled(c)
    BY <1>5 DEF Settled
  <2>3. \A d \in Callers \ {c} : Settled(d)' => Settled(d)
    BY <1>1, <1>4 DEF Settled
  <2>4. \A d \in Callers : step'[d] = "finish" /\ call'[d].op = "destroy" =>
          step[d] = "finish" /\ call[d].op = "destroy"
    BY <1>1
  <2> QED
    BY <1>1, <2>1, <2>2, <2>3, <2>4, SameNumbers
<1>6. CASE /\ call[c].op \in {"destroy", "addIndex", "removeIndex"}
           /\ ~(call[c].op = "addIndex" /\ kind = "replicas" /\ Count > 1)
  <2>1. \A d \in Callers : step'[d] = "idle"
    BY <1>0, <1>1, <1>6 DEF Control, Alone
  <2>2. ntotal' = IF call[c].op = "destroy" THEN ntotal ELSE Synced
    BY <1>3, <1>6 DEF Finish
  <2>3. call[c].op = "destroy" => indices_ = <<>> /\ ntotal = 0
    BY <1>1 DEF Numbered, TotalKnown
  <2>4. kind = "shards" => Len(Store) = Len(All)
    BY <1>0, StoreEmpty
  <2>5. call[c].op = "destroy" => Store = <<>>
    <3> HAVE call[c].op = "destroy"
    <3>1. Count = 0
      BY <2>3 DEF Count
    <3> QED
      BY <3>1 DEF Store
  <2>6. ntotal' = Len(Store')
    BY <1>4, <2>2, <2>3, <2>4, <2>5 DEF Synced
  <2>7. TotalKnown'
    BY <2>1, <2>6 DEF TotalKnown
  <2>8. ResetTakes' /\ ReplicasNumbered'
    BY <1>1 DEF NoneWriting, ResetTakes, Numbered, ReplicasNumbered, Size
  <2>9. ShardsNumbered'
    <3> SUFFICES ASSUME kind = "shards", ~successive_ids
                 PROVE  OutsideEmpty' /\ Apart' /\ LabelsCounted'
      BY <1>1 DEF ShardsNumbered
    <3>1. OutsideEmpty /\ Apart /\ Labels = 0..(ntotal - 1)
      BY DEF Numbered, ShardsNumbered, LabelsCounted
    <3>2. OutsideEmpty' /\ Apart' /\ Labels' = Labels
      BY <1>1, <3>1 DEF OutsideEmpty, Apart, Labels, LabelsOf, Size
    <3>3. ntotal' = ntotal
      <4>1. Len(All) = ntotal
        BY <1>0, <3>1, AllCounts
      <4> QED
        BY <2>2, <4>1 DEF Synced
    <3>4. LabelsCounted'
      BY <3>1, <3>2, <3>3 DEF LabelsCounted, NoneWriting
    <3> QED
      BY <3>2, <3>4
  <2> QED
    BY <2>7, <2>8, <2>9 DEF Numbered
<1> QED
  BY <1>2, <1>5, <1>6

LEMMA NumbersHold ==
  Inv /\ DataTyped /\ AnswersKnown /\ NumbersKnown /\ [Next]_vars => NumbersKnown'
<1> SUFFICES ASSUME Inv, DataTyped, AnswersKnown, NumbersKnown, [Next]_vars,
                    Collection', Unharmed'
             PROVE  Numbered'
  BY DEF NumbersKnown
<1>0. Inv' /\ Control
  BY NextHolds DEF Inv
<1>1. UNCHANGED confVars
  BY ConfStays
<1>2. Collection /\ kind # "worker"
  BY <1>1 DEF Collection, confVars
<1>3. Unharmed
  BY <1>0, UnharmedBefore
<1>4. Numbered
  BY <1>2, <1>3 DEF NumbersKnown
<1>5. ASSUME NEW c \in Callers, Writing(c), step'[c] # "idle",
             \A d \in Callers : d # c => ~Writing(d) /\ ~Writing(d)'
      PROVE  Numbered'
  BY <1>0, <1>4, <1>5, WorkNumbers
<1>6. ASSUME NEW c \in Callers, Writing(c), Finish(c), NoneWriting'
      PROVE  Numbered'
  BY <1>4, <1>6, FinishWriting
<1>7. ASSUME NEW c \in Callers, Begin(c), NoneWriting, content' = content,
             \A d \in Callers : d # c => ~Writing(d)'
      PROVE  Numbered'
  BY <1>2, <1>4, <1>7, BeginNumbers
<1>8. ASSUME NEW c \in Callers, Erase(c) \/ Finish(c), NoneWriting, NoneWriting'
      PROVE  Numbered'
  BY <1>2, <1>3, <1>4, <1>8, EraseNumbers, FinishNumbers
<1>9. ASSUME KeepsCalls, NoneWriting, NoneWriting', content' = content
      PROVE  Numbered'
  <2>1. UNCHANGED <<kind, successive_ids, indices_, content, ntotal>>
    BY <1>1, <1>9 DEF KeepsCalls, confVars
  <2>2. \A d \in Callers : (Settled(d))' => Settled(d)
    BY <1>9, <2>1 DEF KeepsCalls, Settled, Count
  <2>3. \A d \in Callers : step'[d] = "finish" /\ call'[d].op = "destroy" =>
          step[d] = "finish" /\ call[d].op = "destroy"
    BY <1>9 DEF KeepsCalls
  <2> QED
    BY <1>4, <1>9, <2>1, <2>2, <2>3, SameNumbers
<1> QED
  BY <1>2, <1>5, <1>6, <1>7, <1>8, <1>9, StepCases

LEMMA InitNumbers == Init => NumbersKnown
<1> SUFFICES ASSUME Init, Collection PROVE Numbered
  BY DEF NumbersKnown
<1>0. Configured /\ content \in [Workers -> Seq(Entry)] /\ ntotal \in Nat
  BY InitControl, InitData DEF Control, DataTyped
<1>1. /\ \A c \in Callers : step[c] = "idle"
      /\ ntotal = Len(Store)
      /\ successive_ids => kind = "shards"
  BY DEF Init
<1>2. NoneWriting
  BY <1>1 DEF NoneWriting, Writing
<1>3. ASSUME ~successive_ids
      PROVE  \A i \in Workers : content[i] = <<>>
  <2>1. content = [i \in Workers |-> [p \in 1..0 |-> [id |-> 0, vec |-> i]]]
    BY <1>3 DEF Init
  <2>2. \A i \in Workers : [p \in 1..0 |-> [id |-> 0, vec |-> i]] = <<>>
    OBVIOUS
  <2> QED
    BY <2>1, <2>2
<1>4. ResetTakes
  BY <1>1 DEF ResetTakes, Writing
<1>5. ReplicasNumbered
  <2> SUFFICES ASSUME kind = "replicas", NEW i \in Workers PROVE 1..Size(i) = {}
    BY DEF ReplicasNumbered
  <2>1. content[i] = <<>>
    BY <1>1, <1>3
  <2> QED
    BY <1>0, <2>1, EntryOf
<1>6. TotalKnown
  BY <1>1 DEF TotalKnown
<1>7. ShardsNumbered
  <2> SUFFICES ASSUME kind = "shards", ~successive_ids
               PROVE  OutsideEmpty /\ Apart /\ LabelsCounted
    BY DEF ShardsNumbered
  <2>1. \A i \in Workers : content[i] = <<>>
    BY <1>3
  <2>2. Labels = {} /\ Apart
    BY <1>0, <2>1, LabelsHeld
  <2>3. Store = <<>>
    <3>1. \A p \in 1..Count : content[indices_[p]] = <<>>
      BY <1>0, <2>1, AllHolds
    <3> QED
      BY <1>0, <3>1, StoreEmpty
  <2>4. ntotal = 0
    BY <1>1, <2>3
  <2> QED
    BY <1>1, <2>1, <2>2, <2>4 DEF OutsideEmpty, LabelsCounted, Writing
<1> QED
  BY <1>4, <1>5, <1>6, <1>7 DEF Numbered

\* Labels that number a sequence from 0 are those up to its length.
LEMMA NumberedFromZero ==
  ASSUME NEW s \in Seq(Entry), \A k \in 1..Len(s) : s[k].id = k - 1
  PROVE  {e.id : e \in Range(s)} = 0..(Len(s) - 1)
<1>1. Len(s) \in Nat /\ Range(s) = {s[k] : k \in 1..Len(s)}
  BY RangeBySequence
<1>2. \A e \in Range(s) : e.id \in 0..(Len(s) - 1)
  BY <1>1
<1>3. \A x \in 0..(Len(s) - 1) : \E e \in Range(s) : e.id = x
  <2> TAKE x \in 0..(Len(s) - 1)
  <2>1. x + 1 \in 1..Len(s) /\ (x + 1) - 1 = x
    BY <1>1
  <2> QED
    BY <1>1, <2>1
<1> QED
  BY <1>2, <1>3

LEMMA NumbersAgree == Inv /\ DataTyped /\ NumbersKnown => TotalsAgree
<1> SUFFICES ASSUME Inv, DataTyped, NumbersKnown, AllIdle, clean, Collection
             PROVE  /\ ntotal = Len(Store)
                    /\ {e.id : e \in Range(Store)} = 0..(ntotal - 1)
  BY DEF TotalsAgree, Collection
<1>0. Configured /\ content \in [Workers -> Seq(Entry)] /\ ntotal \in Nat
  BY DEF Inv, Control, DataTyped
<1>1. Unharmed /\ NoneWriting /\ \A c \in Callers : Settled(c)
  BY DEF AllIdle, Unharmed, NoneWriting, Writing, Settled
<1>2. Numbered
  BY <1>1 DEF NumbersKnown
<1>3. ntotal = Len(Store)
  BY <1>1, <1>2 DEF Numbered, TotalKnown
<1>4. /\ Store \in Seq(Entry) /\ All \in Seq(Entry) /\ Count \in Nat
      /\ \A p \in 1..Count : indices_[p] \in Workers
  BY <1>0, AllTyped, AllHolds
<1>5. CASE Count = 0
  <2>1. Store = <<>>
    BY <1>5 DEF Store
  <2>2. Len(Store) = 0 /\ 1..0 = {}
    BY <2>1
  <2> QED
    BY <1>3, <1>4, <2>2, NumberedFromZero
<1>6. CASE Count > 0 /\ kind = "replicas"
  <2>1. PICK i \in Workers : i = indices_[1]
    BY <1>4, <1>6
  <2>2. Store = content[i]
    BY <1>6, <2>1 DEF Store
  <2>3. \A k \in 1..Len(Store) : Store[k].id = k - 1
    BY <1>2, <1>6, <2>2 DEF Numbered, ReplicasNumbered, Size
  <2> QED
    BY <1>3, <1>4, <2>3, NumberedFromZero
<1>7. CASE Count > 0 /\ kind = "shards" /\ successive_ids
  <2>1. Store = [p \in 1..Len(All) |-> [All[p] EXCEPT !.id = p - 1]]
    BY <1>4, <1>7, LenProperties DEF Store, Shifted
  <2>2. Len(Store) = Len(All)
    BY <1>0, <1>7, StoreEmpty
  <2>3. \A p \in 1..Len(All) : All[p] \in Entry
    BY <1>4, ElementOfSeq
  <2>4. \A k \in 1..Len(Store) : Store[k].id = k - 1
    BY <2>1, <2>2, <2>3 DEF Entry
  <2> QED
    BY <1>3, <1>4, <2>4, NumberedFromZero
<1>8. CASE Count > 0 /\ kind = "shards" /\ ~successive_ids
  <2>1. OutsideEmpty /\ Apart /\ Labels = 0..(ntotal - 1)
    BY <1>1, <1>2, <1>8 DEF Numbered, ShardsNumbered, LabelsCounted
  <2>2. Store = All
    BY <1>0, <1>8, StoreEmpty
  <2> QED
    BY <1>0, <1>3, <2>1, <2>2, AllCounts
<1> QED
  BY <1>4, <1>5, <1>6, <1>7, <1>8 DEF Collection

\* Unless a call has thrown or a shard with vectors was taken out, an index
\* knows between calls how many vectors its sub-indexes hold, and the labels
\* number them.
THEOREM TotalsAlwaysAgree == Spec => []TotalsAgree
<1>1. Init => Inv /\ DataTyped /\ AnswersKnown /\ NumbersKnown
  BY InitHolds, InitData, InitAnswers, InitNumbers
<1>2. Inv /\ DataTyped /\ AnswersKnown /\ NumbersKnown /\ [Next]_vars =>
        (Inv /\ DataTyped /\ AnswersKnown /\ NumbersKnown)'
  BY NextHolds, DataHolds, AnswersHold, NumbersHold
<1> QED
  BY <1>1, <1>2, NumbersAgree, PTL DEF Spec
=============================================================================

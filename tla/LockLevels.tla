----------------------------- MODULE LockLevels -----------------------------
(***************************************************************************)
(* The three-level lock of faiss/invlists/OnDiskInvertedLists.cpp.         *)
(*                                                                         *)
(* level 1: one lock per inverted list, taken by whoever reads or writes   *)
(*          that list;                                                     *)
(* level 2: one lock, taken by a level-1 holder that changes the slots;    *)
(* level 3: taken by the level-2 holder while it remaps the file.          *)
(*                                                                         *)
(* Every method runs under the mutex mutex1, so a method body is one step, *)
(* enabled while mutex1 is free.  Three things break that atomicity and    *)
(* are modelled: a pthread_cond_wait gives mutex1 up (the thread is in a   *)
(* "wait" state until it is signalled), a signalled thread must take       *)
(* mutex1 again before it re-tests its condition ("retry"), and lock_3     *)
(* returns with mutex1 held, until unlock_3.                               *)
(***************************************************************************)
EXTENDS Integers, FiniteSets

CONSTANTS
  Threads,   \* threads that use the locks
  Lists,     \* numbers n of the locks lock1(n)
  NoThread   \* owner of mutex1 when it is free

ASSUME ThreadsAssumption == IsFiniteSet(Threads) /\ NoThread \notin Threads
ASSUME ListsAssumption == IsFiniteSet(Lists) /\ Lists # {}

VARIABLES
  mutex1,          \* the thread that holds mutex1 across calls, or NoThread
  level1_holders,  \* which level-1 locks are held
  n_level2,        \* number of threads inside lock_2 .. unlock_2
  level2_in_use,
  level3_in_use,
  pc,              \* where each thread stands
  no               \* the argument of each thread's last lock_1

vars == <<mutex1, level1_holders, n_level2, level2_in_use, level3_in_use,
          pc, no>>

PCs == {"idle", "wait1", "retry1", "held1", "wait2", "retry2", "held2",
        "wait3", "retry3", "held3"}

InLock3 == {"wait3", "retry3", "held3"}
OwnsLock2 == {"held2"} \cup InLock3
InLock2 == {"wait2", "retry2"} \cup OwnsLock2
OwnsLock1 == {"held1"} \cup InLock2

\* The threads whose program counter is in S.
At(S) == {t \in Threads : pc[t] \in S}

TypeOK ==
  /\ mutex1 \in Threads \cup {NoThread}
  /\ level1_holders \subseteq Lists
  /\ n_level2 \in Nat
  /\ level2_in_use \in BOOLEAN
  /\ level3_in_use \in BOOLEAN
  /\ pc \in [Threads -> PCs]
  /\ no \in [Threads -> Lists]

Init ==
  /\ mutex1 = NoThread
  /\ level1_holders = {}
  /\ n_level2 = 0
  /\ level2_in_use = FALSE
  /\ level3_in_use = FALSE
  /\ pc = [t \in Threads |-> "idle"]
  /\ no \in {[t \in Threads |-> n] : n \in Lists}

-----------------------------------------------------------------------------
(* Condition variables, as functions on the program counters.              *)

\* pthread_cond_broadcast: every waiter wakes.
Broadcast(f, waiting, woken) ==
  [t \in Threads |-> IF f[t] = waiting THEN woken ELSE f[t]]

\* pthread_cond_signal: one waiter wakes, if there is one.
Signal(f, waiting, woken) ==
  IF \A t \in Threads : f[t] # waiting
  THEN {f}
  ELSE {[f EXCEPT ![t] = woken] : t \in {u \in Threads : f[u] = waiting}}

-----------------------------------------------------------------------------
(* Level 1                                                                 *)

\* Faulty variant: newcomers pass a thread that waits to remap.
Level1BusyIgnoresLevel3(n) == n \in level1_holders

Level1Busy(n) == level3_in_use \/ n \in level1_holders

\* The loop of lock_1: wait, or take the lock.
TestLevel1(t, n) ==
  /\ mutex1 = NoThread
  /\ \/ /\ Level1Busy(n)
        /\ pc' = [pc EXCEPT ![t] = "wait1"]
        /\ UNCHANGED level1_holders
     \/ /\ ~Level1Busy(n)
        /\ pc' = [pc EXCEPT ![t] = "held1"]
        /\ level1_holders' = level1_holders \cup {n}
  /\ UNCHANGED <<mutex1, n_level2, level2_in_use, level3_in_use>>

Lock1(t, n) ==
  /\ pc[t] = "idle"
  /\ no' = [no EXCEPT ![t] = n]
  /\ TestLevel1(t, n)

Retry1(t) ==
  /\ pc[t] = "retry1"
  /\ TestLevel1(t, no[t])
  /\ UNCHANGED no

\* A thread that waits on level 3 is told, and nobody else: the waiters of
\* level 1 could not proceed before it.
Unlock1(t) ==
  /\ pc[t] = "held1"
  /\ mutex1 = NoThread
  /\ level1_holders' = level1_holders \ {no[t]}
  /\ LET left == [pc EXCEPT ![t] = "idle"] IN
     pc' \in IF level3_in_use
             THEN Signal(left, "wait3", "retry3")
             ELSE {Broadcast(left, "wait1", "retry1")}
  /\ UNCHANGED <<mutex1, n_level2, level2_in_use, level3_in_use, no>>

-----------------------------------------------------------------------------
(* Level 2                                                                 *)

\* Faulty variants: the count is not kept; the thread in lock_3 is not told.
Lock2Uncounted(t) ==
  /\ pc[t] = "held1"
  /\ mutex1 = NoThread
  /\ pc' = [pc EXCEPT ![t] = IF level2_in_use THEN "wait2" ELSE "held2"]
  /\ level2_in_use' = TRUE
  /\ UNCHANGED <<mutex1, level1_holders, n_level2, level3_in_use, no>>

Lock2Silent(t) ==
  /\ pc[t] = "held1"
  /\ mutex1 = NoThread
  /\ n_level2' = n_level2 + 1
  /\ pc' = [pc EXCEPT ![t] = IF level2_in_use THEN "wait2" ELSE "held2"]
  /\ level2_in_use' = TRUE
  /\ UNCHANGED <<mutex1, level1_holders, level3_in_use, no>>

Lock2(t) ==
  /\ pc[t] = "held1"
  /\ mutex1 = NoThread
  /\ n_level2' = n_level2 + 1
  /\ LET entered == [pc EXCEPT ![t] = IF level2_in_use THEN "wait2"
                                                       ELSE "held2"] IN
     pc' \in IF level3_in_use THEN Signal(entered, "wait3", "retry3")
                              ELSE {entered}
  /\ level2_in_use' = TRUE
  /\ UNCHANGED <<mutex1, level1_holders, level3_in_use, no>>

\* Faulty variant: an if in place of the while.
Retry2Unchecked(t) ==
  /\ pc[t] = "retry2"
  /\ mutex1 = NoThread
  /\ pc' = [pc EXCEPT ![t] = "held2"]
  /\ level2_in_use' = TRUE
  /\ UNCHANGED <<mutex1, level1_holders, n_level2, level3_in_use, no>>

Retry2(t) ==
  /\ pc[t] = "retry2"
  /\ mutex1 = NoThread
  /\ pc' = [pc EXCEPT ![t] = IF level2_in_use THEN "wait2" ELSE "held2"]
  /\ level2_in_use' = TRUE
  /\ UNCHANGED <<mutex1, level1_holders, n_level2, level3_in_use, no>>

Unlock2(t) ==
  /\ pc[t] = "held2"
  /\ mutex1 = NoThread
  /\ level2_in_use' = FALSE
  /\ n_level2' = n_level2 - 1
  /\ pc' \in Signal([pc EXCEPT ![t] = "held1"], "wait2", "retry2")
  /\ UNCHANGED <<mutex1, level1_holders, level3_in_use, no>>

-----------------------------------------------------------------------------
(* Level 3                                                                 *)

\* Faulty variant: off by one, as if the caller were not counted in n_level2.
Level1ActiveOffByOne == Cardinality(level1_holders) > n_level2 + 1

\* The condition of lock_3: some level-1 holder is not waiting on level 2.
Level1Active == Cardinality(level1_holders) > n_level2

\* The loop of lock_3: wait, or return with mutex1 held.
TestLevel3(t) ==
  /\ mutex1 = NoThread
  /\ level3_in_use' = TRUE
  /\ \/ /\ Level1Active
        /\ pc' = [pc EXCEPT ![t] = "wait3"]
        /\ UNCHANGED mutex1
     \/ /\ ~Level1Active
        /\ pc' = [pc EXCEPT ![t] = "held3"]
        /\ mutex1' = t
  /\ UNCHANGED <<level1_holders, n_level2, level2_in_use, no>>

Lock3(t) == pc[t] = "held2" /\ TestLevel3(t)

Retry3(t) == pc[t] = "retry3" /\ TestLevel3(t)

Unlock3(t) ==
  /\ pc[t] = "held3"
  /\ mutex1' = NoThread
  /\ level3_in_use' = FALSE
  /\ pc' = Broadcast([pc EXCEPT ![t] = "held2"], "wait1", "retry1")
  /\ UNCHANGED <<level1_holders, n_level2, level2_in_use, no>>

-----------------------------------------------------------------------------
\* POSIX lets pthread_cond_wait return without a signal; every wait of the
\* code is in a loop for that reason.
SpuriousWakeup(t) ==
  /\ \/ pc[t] = "wait1" /\ pc' = [pc EXCEPT ![t] = "retry1"]
     \/ pc[t] = "wait2" /\ pc' = [pc EXCEPT ![t] = "retry2"]
     \/ pc[t] = "wait3" /\ pc' = [pc EXCEPT ![t] = "retry3"]
  /\ UNCHANGED <<mutex1, level1_holders, n_level2, level2_in_use,
                 level3_in_use, no>>

\* What a thread that is inside a method, or that holds a lock, does next.
Progress(t) ==
  \/ Retry1(t) \/ Unlock1(t)
  \/ Lock2(t) \/ Retry2(t) \/ Unlock2(t)
  \/ Lock3(t) \/ Retry3(t) \/ Unlock3(t)

Next ==
  \E t \in Threads :
    \/ \E n \in Lists : Lock1(t, n)
    \/ Progress(t)
    \/ SpuriousWakeup(t)

Spec == Init /\ [][Next]_vars

\* A thread is scheduled, and a lock holder goes on to its next call.
FairSpec == Spec /\ \A t \in Threads : WF_vars(Progress(t))

-----------------------------------------------------------------------------
(* Properties                                                              *)

\* The books lock_3 decides on are exact: level1_holders lists each owned
\* level-1 lock, no two threads own the same one, and n_level2 counts the
\* threads between lock_2 and unlock_2.
HoldersExact ==
  /\ \A n \in Lists :
       n \in level1_holders <=> \E t \in At(OwnsLock1) : no[t] = n
  /\ \A t, u \in At(OwnsLock1) : no[t] = no[u] => t = u
  /\ n_level2 = Cardinality(At(InLock2))

\* lock_2 and lock_3 each admit one thread, and lock_3 keeps mutex1.
Exclusive ==
  /\ \A t, u \in At(OwnsLock2) : t = u
  /\ level2_in_use <=> At(OwnsLock2) # {}
  /\ level3_in_use <=> At(InLock3) # {}
  /\ \A t \in Threads : mutex1 = t <=> pc[t] = "held3"

\* Mutual exclusion as the callers need it: the locks admit whom they should,
\* and the numbers that lock_1 and lock_3 test say so.
LocksExact == HoldersExact /\ Exclusive

\* What lock_3 waited for stays true until unlock_3.
RemapAllowed == At({"held3"}) # {} => ~Level1Active

\* While a thread remaps the file (lock_3 .. unlock_3) no other thread is
\* between lock_1 and unlock_1 except inside lock_2, where it uses no pointer
\* into the mapping.
Quiescent ==
  At({"held3"}) # {} => At(OwnsLock1) = At(InLock2)

\* No wake-up is lost: a thread that sleeps in a condition variable has a
\* reason to, or the thread that will take its turn is already awake.
NoLostWakeup ==
  /\ \A t \in At({"wait1"}) : Level1Busy(no[t])
  /\ At({"wait2"}) # {} => level2_in_use \/ At({"retry2"}) # {}
  /\ At({"wait3"}) # {} => Level1Active

\* The thread that wants to remap gets its turn, whatever the others do:
\* new level-1 lockers are held back and the present ones drain.
Level3Granted ==
  \A t \in Threads : pc[t] = "wait3" ~> pc[t] = "held3"

\* The inductive invariant.
IInv == TypeOK /\ HoldersExact /\ Exclusive /\ RemapAllowed /\ NoLostWakeup
=============================================================================

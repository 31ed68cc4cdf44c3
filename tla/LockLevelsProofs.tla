-------------------------- MODULE LockLevelsProofs --------------------------
(***************************************************************************)
(* Proofs about LockLevels, for every finite set of threads and of lists.  *)
(***************************************************************************)
EXTENDS LockLevels, FiniteSetTheorems, TLAPS

\* The sets of program counters, expanded where a proof compares them.
USE DEF PCs, InLock3, OwnsLock2, InLock2, OwnsLock1, At

-----------------------------------------------------------------------------
(* Lemmas about the helpers                                                *)

\* pthread_cond_signal moves at most one thread, from waiting to woken, and
\* moves one if there is one.
LEMMA SignalEffect ==
  ASSUME NEW f \in [Threads -> PCs],
         NEW waiting \in PCs, NEW woken \in PCs,
         NEW g \in Signal(f, waiting, woken)
  PROVE  /\ g \in [Threads -> PCs]
         /\ \A t \in Threads :
              g[t] = f[t] \/ (f[t] = waiting /\ g[t] = woken)
         /\ (\E t \in Threads : f[t] = waiting)
              => \E t \in Threads : f[t] = waiting /\ g[t] = woken
<1>1. CASE \A t \in Threads : f[t] # waiting
  BY <1>1 DEF Signal
<1>2. CASE ~ \A t \in Threads : f[t] # waiting
  <2>1. PICK t \in Threads : f[t] = waiting /\ g = [f EXCEPT ![t] = woken]
    BY <1>2 DEF Signal
  <2>2. QED
    BY <2>1
<1>3. QED
  BY <1>1, <1>2

\* pthread_cond_broadcast moves every waiting thread and no other.
LEMMA BroadcastEffect ==
  ASSUME NEW f \in [Threads -> PCs],
         NEW waiting \in PCs, NEW woken \in PCs
  PROVE  /\ Broadcast(f, waiting, woken) \in [Threads -> PCs]
         /\ \A t \in Threads :
              Broadcast(f, waiting, woken)[t]
                = IF f[t] = waiting THEN woken ELSE f[t]
  BY DEF Broadcast

\* The sets the cardinalities are taken of are finite.
LEMMA Finiteness ==
  ASSUME TypeOK
  PROVE  /\ IsFiniteSet(level1_holders)
         /\ Cardinality(level1_holders) \in Nat
         /\ \A S : /\ IsFiniteSet(At(S))
                   /\ Cardinality(At(S)) \in Nat
<1>1. level1_holders \in SUBSET Lists
  BY DEF TypeOK
<1>2. IsFiniteSet(level1_holders)
  BY <1>1, ListsAssumption, FS_Subset
<1>3. ASSUME NEW S
      PROVE  IsFiniteSet(At(S))
  <2>1. At(S) \in SUBSET Threads
    OBVIOUS
  <2>2. QED
    BY <2>1, ThreadsAssumption, FS_Subset
<1>4. QED
  BY <1>2, <1>3, FS_CardinalityType

\* There are as many level-1 locks held as threads that own one.
LEMMA HoldersCounted ==
  ASSUME TypeOK, HoldersExact
  PROVE  Cardinality(level1_holders) = Cardinality(At(OwnsLock1))
<1> DEFINE f == [t \in At(OwnsLock1) |-> no[t]]
<1>1. f \in Bijection(At(OwnsLock1), level1_holders)
  <2>1. f \in [At(OwnsLock1) -> level1_holders]
    BY DEF TypeOK, HoldersExact
  <2>2. \A t, u \in At(OwnsLock1) : f[t] = f[u] => t = u
    BY DEF HoldersExact
  <2>3. \A n \in level1_holders : \E t \in At(OwnsLock1) : f[t] = n
    BY DEF TypeOK, HoldersExact
  <2> HIDE DEF f
  <2>4. QED
    BY <2>1, <2>2, <2>3 DEF Bijection, Injection, Surjection, IsInjective
<1>2. ExistsBijection(At(OwnsLock1), level1_holders)
  BY <1>1 DEF ExistsBijection
<1>3. IsFiniteSet(At(OwnsLock1)) /\ IsFiniteSet(level1_holders)
  BY Finiteness
<1> HIDE DEF At, OwnsLock1
<1>4. QED
  BY <1>2, <1>3, FS_Bijection

-----------------------------------------------------------------------------
(* The inductive invariant                                                 *)

\* The constructor leaves no lock taken and nobody waiting.
LEMMA InitEstablishes == Init => IInv
<1> SUFFICES ASSUME Init
             PROVE  IInv
  OBVIOUS
<1>1. TypeOK /\ Exclusive /\ RemapAllowed /\ NoLostWakeup
  BY ThreadsAssumption DEF Init, TypeOK, Exclusive, RemapAllowed, NoLostWakeup
<1>2. At(InLock2) = {}
  BY DEF Init
<1>3. HoldersExact
  BY <1>2, FS_EmptySet DEF Init, HoldersExact
<1>4. QED
  BY <1>1, <1>3 DEF IInv

\* Level 1: no lock is taken while a thread is in lock_3, and a release wakes
\* the thread that lock_3 keeps waiting, or else everyone.
LEMMA Level1Preserves ==
  ASSUME IInv, NEW t \in Threads, NEW n \in Lists,
         Lock1(t, n) \/ Retry1(t) \/ Unlock1(t)
  PROVE  IInv'
<1> USE DEF IInv
<1>1. CASE Lock1(t, n) \/ Retry1(t)
  <2> DEFINE k == no'[t]
  <2>1. /\ pc[t] \in {"idle", "retry1"} /\ k \in Lists
        /\ no' = [no EXCEPT ![t] = k] /\ TestLevel1(t, k)
    BY <1>1 DEF Lock1, Retry1, TypeOK
  <2> HIDE DEF k
  <2>2. /\ pc' = [pc EXCEPT ![t] = pc'[t]]
        /\ \/ pc'[t] = "wait1" /\ Level1Busy(k) /\ level1_holders' = level1_holders
           \/ /\ pc'[t] = "held1" /\ ~Level1Busy(k)
              /\ level1_holders' = level1_holders \cup {k}
    BY <2>1 DEF TestLevel1, TypeOK
  <2>3. UNCHANGED <<mutex1, n_level2, level2_in_use, level3_in_use>>
    BY <2>1 DEF TestLevel1
  <2>4. TypeOK'
    BY <2>1, <2>2, <2>3 DEF TypeOK
  <2>5. At(InLock2)' = At(InLock2)
    BY <2>1, <2>2 DEF TypeOK
  <2>6. HoldersExact'
    <3>1. \A m \in Lists :
            m \in level1_holders' <=> \E u \in At(OwnsLock1)' : no'[u] = m
      BY <2>1, <2>2 DEF TypeOK, HoldersExact, Level1Busy
    <3>2. \A u, v \in At(OwnsLock1)' : no'[u] = no'[v] => u = v
      BY <2>1, <2>2 DEF TypeOK, HoldersExact, Level1Busy
    <3>3. n_level2' = Cardinality(At(InLock2)')
      BY <2>3, <2>5 DEF HoldersExact
    <3> QED
      BY <3>1, <3>2, <3>3 DEF HoldersExact
  <2>7. Exclusive'
    BY <2>1, <2>2, <2>3 DEF TypeOK, Exclusive
  <2>8. At({"held3"})' = {}
    BY <2>1, <2>2, ThreadsAssumption DEF TypeOK, Exclusive, TestLevel1
  <2>9. NoLostWakeup'
    <3>1. \A u \in At({"wait1"})' : Level1Busy(no[u])'
      BY <2>1, <2>2, <2>3 DEF TypeOK, NoLostWakeup, Level1Busy
    <3>2. At({"wait2"})' # {} => level2_in_use' \/ At({"retry2"})' # {}
      BY <2>1, <2>2, <2>3 DEF TypeOK, NoLostWakeup
    <3>3. At({"wait3"})' # {} => Level1Active'
      BY <2>1, <2>2, <2>3
         DEF TypeOK, Exclusive, NoLostWakeup, Level1Busy, Level1Active
    <3> QED
      BY <3>1, <3>2, <3>3 DEF NoLostWakeup
  <2> QED
    BY <2>4, <2>6, <2>7, <2>8, <2>9 DEF RemapAllowed
<1>2. CASE Unlock1(t)
  <2>1. /\ pc[t] = "held1" /\ mutex1 = NoThread
        /\ level1_holders' = level1_holders \ {no[t]}
        /\ UNCHANGED <<mutex1, n_level2, level2_in_use, level3_in_use, no>>
    BY <1>2 DEF Unlock1
  <2>2. /\ pc' \in [Threads -> PCs]
        /\ pc'[t] = "idle"
        /\ \A u \in Threads \ {t} :
             \/ pc'[u] = pc[u] /\ (pc[u] = "wait1" => level3_in_use)
             \/ pc[u] = "wait1" /\ pc'[u] = "retry1"
             \/ pc[u] = "wait3" /\ pc'[u] = "retry3"
        /\ level3_in_use /\ At({"wait3"}) # {} =>
             \E u \in At({"wait3"}) : pc'[u] = "retry3"
    <3> DEFINE left == [pc EXCEPT ![t] = "idle"]
    <3>1. left \in [Threads -> PCs] /\ left[t] = "idle"
          /\ \A u \in Threads \ {t} : left[u] = pc[u]
      BY DEF TypeOK
    <3>2. pc' \in IF level3_in_use THEN Signal(left, "wait3", "retry3")
                                   ELSE {Broadcast(left, "wait1", "retry1")}
      BY <1>2 DEF Unlock1
    <3> HIDE DEF left
    <3>3. CASE level3_in_use
      BY <3>1, <3>2, <3>3, <2>1, SignalEffect
    <3>4. CASE ~level3_in_use
      BY <3>1, <3>2, <3>4, <2>1, BroadcastEffect
    <3> QED
      BY <3>3, <3>4
  <2>3. TypeOK'
    BY <2>1, <2>2 DEF TypeOK
  <2>4. At(InLock2)' = At(InLock2)
    BY <2>1, <2>2 DEF TypeOK
  <2>5. HoldersExact'
    <3>1. \A m \in Lists :
            m \in level1_holders' <=> \E u \in At(OwnsLock1)' : no'[u] = m
      <4>1. \A u \in Threads :
              pc'[u] \in OwnsLock1 <=> u # t /\ pc[u] \in OwnsLock1
        BY <2>1, <2>2 DEF TypeOK
      <4> QED
        BY <4>1, <2>1 DEF TypeOK, HoldersExact
    <3>2. \A u, v \in At(OwnsLock1)' : no'[u] = no'[v] => u = v
      BY <2>1, <2>2 DEF TypeOK, HoldersExact
    <3>3. n_level2' = Cardinality(At(InLock2)')
      BY <2>1, <2>4 DEF HoldersExact
    <3> QED
      BY <3>1, <3>2, <3>3 DEF HoldersExact
  <2>6. Exclusive'
    BY <2>1, <2>2 DEF TypeOK, Exclusive
  <2>7. At({"held3"})' = {}
    BY <2>1, <2>2, ThreadsAssumption DEF TypeOK, Exclusive
  <2>8. NoLostWakeup'
    <3>1. \A u \in At({"wait1"})' : Level1Busy(no[u])'
      BY <2>1, <2>2 DEF TypeOK, Level1Busy
    <3>2. At({"wait2"})' # {} => level2_in_use' \/ At({"retry2"})' # {}
      BY <2>1, <2>2 DEF TypeOK, NoLostWakeup
    <3>3. At({"wait3"})' = {}
      BY <2>1, <2>2 DEF TypeOK, Exclusive
    <3> QED
      BY <3>1, <3>2, <3>3 DEF NoLostWakeup
  <2> QED
    BY <2>3, <2>5, <2>6, <2>7, <2>8 DEF RemapAllowed
<1> QED
  BY <1>1, <1>2

\* Level 2: entering or leaving changes the count by one, wakes the thread
\* that lock_3 keeps waiting, or the next one in the queue of lock_2.
LEMMA Level2Preserves ==
  ASSUME IInv, NEW t \in Threads, Lock2(t) \/ Retry2(t) \/ Unlock2(t)
  PROVE  IInv'
<1> USE DEF IInv
<1>f. IsFiniteSet(At(InLock2)) /\ Cardinality(At(InLock2)) \in Nat
  BY Finiteness
<1>a. At({"held3"}) = {}
  BY ThreadsAssumption DEF Lock2, Retry2, Unlock2, TypeOK, Exclusive
<1>1. CASE Lock2(t)
  <2>1. /\ pc[t] = "held1" /\ level2_in_use'
        /\ n_level2' = n_level2 + 1
        /\ UNCHANGED <<mutex1, level1_holders, level3_in_use, no>>
    BY <1>1 DEF Lock2
  <2>2. /\ pc' \in [Threads -> PCs]
        /\ pc'[t] = IF level2_in_use THEN "wait2" ELSE "held2"
        /\ \A u \in Threads \ {t} :
             \/ pc'[u] = pc[u]
             \/ pc[u] = "wait3" /\ pc'[u] = "retry3"
        /\ level3_in_use /\ At({"wait3"}) # {} =>
             \E u \in At({"wait3"}) : pc'[u] = "retry3"
    <3> DEFINE new == IF level2_in_use THEN "wait2" ELSE "held2"
               entered == [pc EXCEPT ![t] = new]
    <3>1. entered \in [Threads -> PCs] /\ entered[t] = new
          /\ \A u \in Threads \ {t} : entered[u] = pc[u]
      BY DEF TypeOK
    <3>2. pc' \in IF level3_in_use THEN Signal(entered, "wait3", "retry3")
                                   ELSE {entered}
      BY <1>1 DEF Lock2
    <3>3. new \in {"wait2", "held2"}
      OBVIOUS
    <3> HIDE DEF entered
    <3>4. CASE level3_in_use
      BY <3>1, <3>2, <3>3, <3>4, <2>1, SignalEffect
    <3>5. CASE ~level3_in_use
      BY <3>1, <3>2, <3>3, <3>5
    <3> QED
      BY <3>4, <3>5
  <2>3. TypeOK'
    BY <2>1, <2>2 DEF TypeOK
  <2>4. HoldersExact'
    <3>1. \A u \in Threads : pc'[u] \in OwnsLock1 <=> pc[u] \in OwnsLock1
      BY <2>1, <2>2 DEF TypeOK
    <3>2. At(InLock2)' = At(InLock2) \cup {t} /\ t \notin At(InLock2)
      BY <2>1, <2>2 DEF TypeOK
    <3>3. Cardinality(At(InLock2)') = Cardinality(At(InLock2)) + 1
      BY <3>2, <1>f, FS_AddElement
    <3> QED
      BY <3>1, <3>3, <2>1 DEF TypeOK, HoldersExact
  <2>5. Exclusive'
    BY <2>1, <2>2 DEF TypeOK, Exclusive
  <2>6. RemapAllowed'
    BY <1>a, <2>2 DEF RemapAllowed
  <2>7. NoLostWakeup'
    <3>1. \A u \in At({"wait1"})' : Level1Busy(no[u])'
      BY <2>1, <2>2 DEF TypeOK, NoLostWakeup, Level1Busy
    <3>2. At({"wait3"})' = {}
      BY <2>1, <2>2 DEF TypeOK, Exclusive
    <3> QED
      BY <3>1, <3>2, <2>1 DEF NoLostWakeup
  <2> QED
    BY <2>3, <2>4, <2>5, <2>6, <2>7
<1>2. CASE Retry2(t)
  <2>1. /\ pc[t] = "retry2" /\ level2_in_use'
        /\ UNCHANGED <<mutex1, level1_holders, n_level2, level3_in_use, no>>
    BY <1>2 DEF Retry2
  <2>2. /\ pc' \in [Threads -> PCs]
        /\ pc'[t] = IF level2_in_use THEN "wait2" ELSE "held2"
        /\ \A u \in Threads \ {t} : pc'[u] = pc[u]
    BY <1>2 DEF Retry2, TypeOK
  <2>3. TypeOK'
    BY <2>1, <2>2 DEF TypeOK
  <2>4. HoldersExact'
    <3>1. \A u \in Threads : pc'[u] \in OwnsLock1 <=> pc[u] \in OwnsLock1
      BY <2>1, <2>2 DEF TypeOK
    <3>2. At(InLock2)' = At(InLock2)
      BY <2>1, <2>2 DEF TypeOK
    <3> QED
      BY <3>1, <3>2, <2>1 DEF TypeOK, HoldersExact
  <2>5. Exclusive'
    BY <2>1, <2>2 DEF TypeOK, Exclusive
  <2>6. RemapAllowed'
    BY <1>a, <2>2 DEF RemapAllowed
  <2>7. NoLostWakeup'
    BY <2>1, <2>2 DEF TypeOK, NoLostWakeup, Level1Busy, Level1Active
  <2> QED
    BY <2>3, <2>4, <2>5, <2>6, <2>7
<1>3. CASE Unlock2(t)
  <2>1. /\ pc[t] = "held2" /\ level2_in_use' = FALSE
        /\ n_level2' = n_level2 - 1
        /\ UNCHANGED <<mutex1, level1_holders, level3_in_use, no>>
    BY <1>3 DEF Unlock2
  <2>2. /\ pc' \in [Threads -> PCs]
        /\ pc'[t] = "held1"
        /\ \A u \in Threads \ {t} :
             \/ pc'[u] = pc[u]
             \/ pc[u] = "wait2" /\ pc'[u] = "retry2"
        /\ At({"wait2"}) # {} => \E u \in At({"wait2"}) : pc'[u] = "retry2"
    <3> DEFINE left == [pc EXCEPT ![t] = "held1"]
    <3>1. left \in [Threads -> PCs] /\ left[t] = "held1"
          /\ \A u \in Threads \ {t} : left[u] = pc[u]
      BY DEF TypeOK
    <3>2. pc' \in Signal(left, "wait2", "retry2")
      BY <1>3 DEF Unlock2
    <3> HIDE DEF left
    <3> QED
      BY <3>1, <3>2, <2>1, SignalEffect
  <2>3. /\ At(InLock2)' = At(InLock2) \ {t}
        /\ t \in At(InLock2)
    BY <2>1, <2>2 DEF TypeOK
  <2>4. /\ Cardinality(At(InLock2)') = Cardinality(At(InLock2)) - 1
        /\ Cardinality(At(InLock2)') \in Nat
    BY <2>3, <1>f, FS_RemoveElement, FS_CardinalityType
  <2>5. TypeOK'
    BY <2>1, <2>2, <2>4 DEF TypeOK, HoldersExact
  <2>6. HoldersExact'
    <3>1. \A u \in Threads : pc'[u] \in OwnsLock1 <=> pc[u] \in OwnsLock1
      BY <2>1, <2>2 DEF TypeOK
    <3> QED
      BY <3>1, <2>1, <2>4 DEF TypeOK, HoldersExact
  <2>7. Exclusive'
    BY <2>1, <2>2 DEF TypeOK, Exclusive
  <2>8. RemapAllowed'
    BY <1>a, <2>2 DEF RemapAllowed
  <2>9. NoLostWakeup'
    <3>1. \A u \in At({"wait1"})' : Level1Busy(no[u])'
      BY <2>1, <2>2 DEF TypeOK, NoLostWakeup, Level1Busy
    <3>2. At({"wait2"})' # {} => At({"retry2"})' # {}
      BY <2>1, <2>2 DEF TypeOK
    <3>3. At({"wait3"})' = {}
      BY <2>1, <2>2 DEF TypeOK, Exclusive
    <3> QED
      BY <3>1, <3>2, <3>3 DEF NoLostWakeup
  <2> QED
    BY <2>5, <2>6, <2>7, <2>8, <2>9
<1> QED
  BY <1>1, <1>2, <1>3

\* Level 3: only the owner of lock_2 moves, so the books of levels 1 and 2
\* stay, and it moves to held3 only on the condition that lock_3 tests.
LEMMA Level3Preserves ==
  ASSUME IInv, NEW t \in Threads, Lock3(t) \/ Retry3(t) \/ Unlock3(t)
  PROVE  IInv'
<1> USE DEF IInv
<1>1. CASE Lock3(t) \/ Retry3(t)
  <2>1. /\ pc[t] \in {"held2", "retry3"} /\ mutex1 = NoThread
        /\ level3_in_use'
        /\ UNCHANGED <<level1_holders, n_level2, level2_in_use, no>>
        /\ \/ pc' = [pc EXCEPT ![t] = "wait3"] /\ mutex1' = mutex1 /\ Level1Active
           \/ pc' = [pc EXCEPT ![t] = "held3"] /\ mutex1' = t /\ ~Level1Active
    BY <1>1 DEF Lock3, Retry3, TestLevel3
  <2>2. /\ pc' \in [Threads -> PCs]
        /\ pc'[t] \in {"wait3", "held3"}
        /\ \A u \in Threads \ {t} : pc'[u] = pc[u]
    BY <2>1 DEF TypeOK
  <2>3. TypeOK'
    BY <2>1, <2>2 DEF TypeOK
  <2>4. HoldersExact'
    <3>1. \A u \in Threads : pc'[u] \in OwnsLock1 <=> pc[u] \in OwnsLock1
      BY <2>1, <2>2 DEF TypeOK
    <3>2. At(InLock2)' = At(InLock2)
      BY <2>1, <2>2 DEF TypeOK
    <3> QED
      BY <3>1, <3>2, <2>1 DEF TypeOK, HoldersExact
  <2>5. Exclusive'
    BY <2>1, <2>2, ThreadsAssumption DEF TypeOK, Exclusive
  <2>6. RemapAllowed'
    BY <2>1, <2>2, ThreadsAssumption
       DEF TypeOK, Exclusive, RemapAllowed, Level1Active
  <2>7. NoLostWakeup'
    <3>1. \A u \in At({"wait1"})' : Level1Busy(no[u])'
      BY <2>1 DEF Level1Busy
    <3>2. At({"wait2"})' # {} => level2_in_use' \/ At({"retry2"})' # {}
      BY <2>1, <2>2 DEF TypeOK, Exclusive
    <3>3. At({"wait3"})' # {} => Level1Active'
      BY <2>1, <2>2 DEF TypeOK, Exclusive, Level1Active
    <3> QED
      BY <3>1, <3>2, <3>3 DEF NoLostWakeup
  <2> QED
    BY <2>3, <2>4, <2>5, <2>6, <2>7
<1>2. CASE Unlock3(t)
  <2>1. /\ pc[t] = "held3" /\ mutex1' = NoThread /\ ~level3_in_use'
        /\ level3_in_use' \in BOOLEAN
        /\ UNCHANGED <<level1_holders, n_level2, level2_in_use, no>>
    BY <1>2 DEF Unlock3
  <2>2. /\ pc' \in [Threads -> PCs]
        /\ pc'[t] = "held2"
        /\ \A u \in Threads \ {t} :
             pc'[u] = IF pc[u] = "wait1" THEN "retry1" ELSE pc[u]
    <3> DEFINE left == [pc EXCEPT ![t] = "held2"]
    <3>1. left \in [Threads -> PCs] /\ left[t] = "held2"
          /\ \A u \in Threads \ {t} : left[u] = pc[u]
      BY DEF TypeOK
    <3>2. pc' = Broadcast(left, "wait1", "retry1")
      BY <1>2 DEF Unlock3
    <3> HIDE DEF left
    <3> QED
      BY <3>1, <3>2, BroadcastEffect
  <2>3. TypeOK'
    BY <2>1, <2>2 DEF TypeOK
  <2>4. HoldersExact'
    <3>1. \A u \in Threads : pc'[u] \in OwnsLock1 <=> pc[u] \in OwnsLock1
      BY <2>1, <2>2 DEF TypeOK
    <3>2. At(InLock2)' = At(InLock2)
      BY <2>1, <2>2 DEF TypeOK
    <3> QED
      BY <3>1, <3>2, <2>1 DEF TypeOK, HoldersExact
  <2>5. Exclusive'
    BY <2>1, <2>2, ThreadsAssumption DEF TypeOK, Exclusive
  <2>6. RemapAllowed'
    BY <2>1, <2>2 DEF TypeOK, Exclusive, RemapAllowed
  <2>7. NoLostWakeup'
    <3>1. At({"wait1"})' = {} /\ At({"wait3"})' = {}
      BY <2>1, <2>2 DEF TypeOK, Exclusive
    <3>2. level2_in_use'
      BY <2>1 DEF TypeOK, Exclusive
    <3> QED
      BY <3>1, <3>2 DEF NoLostWakeup
  <2> QED
    BY <2>3, <2>4, <2>5, <2>6, <2>7
<1> QED
  BY <1>1, <1>2

\* A wait may return for no reason: the thread stays in its class.
LEMMA SpuriousPreserves ==
  ASSUME IInv, NEW t \in Threads, SpuriousWakeup(t)
  PROVE  IInv'
<1> USE DEF IInv
<1>1. /\ UNCHANGED <<mutex1, level1_holders, n_level2, level2_in_use,
                     level3_in_use, no>>
      /\ pc' \in [Threads -> PCs]
      /\ \A u \in Threads \ {t} : pc'[u] = pc[u]
      /\ \/ pc[t] = "wait1" /\ pc'[t] = "retry1"
         \/ pc[t] = "wait2" /\ pc'[t] = "retry2"
         \/ pc[t] = "wait3" /\ pc'[t] = "retry3"
  BY DEF SpuriousWakeup, TypeOK
<1>2. TypeOK'
  BY <1>1 DEF TypeOK
<1>3. HoldersExact'
  <2>1. \A u \in Threads : pc'[u] \in OwnsLock1 <=> pc[u] \in OwnsLock1
    BY <1>1
  <2>2. At(InLock2)' = At(InLock2)
    BY <1>1
  <2> QED
    BY <2>1, <2>2, <1>1 DEF TypeOK, HoldersExact
<1>4. Exclusive'
  BY <1>1 DEF TypeOK, Exclusive
<1>5. RemapAllowed'
  BY <1>1 DEF RemapAllowed, Level1Active
<1>6. NoLostWakeup'
  BY <1>1 DEF TypeOK, NoLostWakeup, Level1Busy, Level1Active
<1> QED
  BY <1>2, <1>3, <1>4, <1>5, <1>6

\* No method of the locks, and no spurious wake-up, breaks the invariant.
LEMMA NextPreserves == IInv /\ [Next]_vars => IInv'
<1> SUFFICES ASSUME IInv, [Next]_vars
             PROVE  IInv'
  OBVIOUS
<1>1. CASE UNCHANGED vars
  BY <1>1 DEF vars, IInv, TypeOK, HoldersExact, Exclusive, RemapAllowed,
              NoLostWakeup, Level1Busy, Level1Active
<1>2. ASSUME NEW t \in Threads, NEW n \in Lists, Lock1(t, n)
      PROVE  IInv'
  BY <1>2, Level1Preserves
<1>3. ASSUME NEW t \in Threads, Progress(t)
      PROVE  IInv'
  <2>1. PICK n \in Lists : TRUE
    BY ListsAssumption
  <2>2. CASE Retry1(t) \/ Unlock1(t)
    BY <2>2, Level1Preserves
  <2>3. CASE Lock2(t) \/ Retry2(t) \/ Unlock2(t)
    BY <2>3, Level2Preserves
  <2>4. CASE Lock3(t) \/ Retry3(t) \/ Unlock3(t)
    BY <2>4, Level3Preserves
  <2> QED
    BY <1>3, <2>2, <2>3, <2>4 DEF Progress
<1>4. ASSUME NEW t \in Threads, SpuriousWakeup(t)
      PROVE  IInv'
  BY <1>4, SpuriousPreserves
<1> QED
  BY <1>1, <1>2, <1>3, <1>4 DEF Next

\* The count that lock_3 tests means that the owners of level 1 are the
\* threads inside lock_2.
LEMMA QuiescentWhileRemapping == IInv => Quiescent
<1> SUFFICES ASSUME IInv, At({"held3"}) # {}
             PROVE  At(OwnsLock1) = At(InLock2)
  BY DEF Quiescent
<1>1. Cardinality(At(OwnsLock1)) <= Cardinality(At(InLock2))
  BY HoldersCounted, Finiteness
     DEF IInv, TypeOK, RemapAllowed, HoldersExact, Level1Active
<1>2. At(InLock2) \in SUBSET At(OwnsLock1)
  OBVIOUS
<1>3. /\ IsFiniteSet(At(OwnsLock1))
      /\ Cardinality(At(OwnsLock1)) \in Nat
      /\ Cardinality(At(InLock2)) \in Nat
  BY Finiteness DEF IInv
<1> HIDE DEF At, OwnsLock1, InLock2
<1>4. Cardinality(At(InLock2)) <= Cardinality(At(OwnsLock1))
  BY <1>2, <1>3, FS_Subset
<1>5. Cardinality(At(InLock2)) = Cardinality(At(OwnsLock1))
  BY <1>1, <1>3, <1>4
<1> QED
  BY <1>2, <1>3, <1>5, FS_Subset

-----------------------------------------------------------------------------
(* Theorems                                                                *)

\* The inductive invariant holds in every reachable state.
THEOREM Invariance == Spec => []IInv
<1>1. Init => IInv
  BY InitEstablishes
<1>2. IInv /\ [Next]_vars => IInv'
  BY NextPreserves
<1> QED
  BY <1>1, <1>2, PTL DEF Spec

\* The variables of struct LockLevels keep their types; n_level2, a counter
\* that unlock_2 decrements, never goes below zero.
THEOREM TypeCorrect == Spec => []TypeOK
<1>1. IInv => TypeOK
  BY DEF IInv
<1> QED
  BY <1>1, Invariance, PTL

\* Each level-1 lock has one owner, lock_2 has one owner, and so has lock_3.
THEOREM MutualExclusion == Spec => []LocksExact
<1>1. IInv => LocksExact
  BY DEF IInv, LocksExact
<1> QED
  BY <1>1, Invariance, PTL

\* Between lock_3 and unlock_3, where update_totsize unmaps the file, every
\* other level-1 owner is blocked in lock_2.
THEOREM RemapIsExclusive == Spec => []Quiescent
<1>1. IInv => Quiescent
  BY QuiescentWhileRemapping
<1> QED
  BY <1>1, Invariance, PTL

\* No thread sleeps in pthread_cond_wait with nobody left to wake it.
THEOREM WakeupsAreNotLost == Spec => []NoLostWakeup
<1>1. IInv => NoLostWakeup
  BY DEF IInv
<1> QED
  BY <1>1, Invariance, PTL
=============================================================================

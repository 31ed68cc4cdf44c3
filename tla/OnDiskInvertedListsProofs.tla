---------------------- MODULE OnDiskInvertedListsProofs ----------------------
(***************************************************************************)
(* Proofs about OnDiskInvertedLists, for every finite set of threads and of *)
(* lists, every code size and every size of the calls.                      *)
(***************************************************************************)
EXTENDS OnDiskInvertedLists, SlotAllocatorProofs

\* The theorems about the locks.
LLP == INSTANCE LockLevelsProofs

-----------------------------------------------------------------------------
(* The locks                                                               *)

\* A step of a call is a method of the locks, or leaves them alone.
LEMMA StepsUseLocks == [Next]_vars => [LL!Next]_LL!vars
<1> SUFFICES ASSUME [Next]_vars
             PROVE  [LL!Next]_LL!vars
  OBVIOUS
<1> USE DEF lockVars, LL!vars
<1>1. CASE UNCHANGED vars
  BY <1>1 DEF vars
<1>2. ASSUME NEW t \in Threads, NEW l \in Lists, NEW c \in Calls, Begin(t, l, c)
      PROVE  LL!Next
  BY <1>2 DEF Begin, LL!Next
<1>3. ASSUME NEW t \in Threads, Step(t)
      PROVE  [LL!Next]_LL!vars
  <2>1. CASE Waiting(t)
    BY <2>1 DEF Waiting, LL!Next, LL!Progress
  <2>2. CASE LockSlots(t) \/ Publish(t) \/ Return(t)
    BY <2>2 DEF LockSlots, Publish, Return, LL!Next, LL!Progress
  <2>3. CASE LockRemap(t) \/ UnlockRemap(t)
    BY <2>3 DEF LockRemap, UnlockRemap, LL!Next, LL!Progress
  <2>4. CASE \/ ResizeInPlace(t) \/ FreeSlot(t) \/ AllocateSlot(t) \/ Unmap(t)
             \/ Remap(t) \/ RemapThrows(t) \/ CopyCommon(t)
    BY <2>4 DEF ResizeInPlace, FreeSlot, AllocateSlot, Unmap, Remap,
                RemapThrows, CopyCommon
  <2>5. CASE \/ GetIds(t) \/ WriteIds(t) \/ WriteCodes(t)
             \/ GetList(t) \/ ReadList(t)
    BY <2>5 DEF GetIds, WriteIds, WriteCodes, GetList, ReadList
  <2> QED
    BY <1>3, <2>1, <2>2, <2>3, <2>4, <2>5 DEF Step
<1>4. ASSUME NEW t \in Threads, Spurious(t)
      PROVE  LL!Next
  BY <1>4 DEF Spurious, LL!Next
<1> QED
  BY <1>1, <1>2, <1>3, <1>4 DEF Next, Finished, vars

\* The calls of the store use the three locks as LockLevels describes: the
\* safety part of LocksImplemented.
THEOREM ImplementsLocks == Spec => LL!Spec
<1>1. Init => LL!Init
  BY DEF Init
<1>2. [Next]_vars => [LL!Next]_LL!vars
  BY StepsUseLocks
<1> QED
  BY <1>1, <1>2, PTL DEF Spec, LL!Spec

\* The sets LockLevels is instantiated with are the ones it assumes.
LEMMA FiniteSets == LLP!IsFiniteSet(Threads) /\ LLP!IsFiniteSet(Lists)
  BY OnDiskAssumption DEF LLP!IsFiniteSet, IsFiniteSet

\* The locks of the store are the locks the proofs of LockLevels are about.
LEMMA SameLocks ==
  /\ LL!Init => LLP!Init
  /\ [LL!Next]_LL!vars => [LLP!Next]_LLP!vars
<1> USE DEF LL!vars, LLP!vars
<1>1. LL!Init => LLP!Init
  BY DEF LL!Init, LLP!Init
<1>2. ASSUME NEW t \in Threads, NEW n \in Lists
      PROVE  LL!Lock1(t, n) => LLP!Lock1(t, n)
  BY DEF LL!Lock1, LL!TestLevel1, LL!Level1Busy,
         LLP!Lock1, LLP!TestLevel1, LLP!Level1Busy
<1>3. ASSUME NEW t \in Threads
      PROVE  LL!SpuriousWakeup(t) => LLP!SpuriousWakeup(t)
  BY DEF LL!SpuriousWakeup, LLP!SpuriousWakeup
<1>4. ASSUME NEW t \in Threads
      PROVE  LL!Progress(t) => LLP!Progress(t)
  <2>1. LL!Retry1(t) => LLP!Retry1(t)
    BY DEF LL!Retry1, LL!TestLevel1, LL!Level1Busy,
           LLP!Retry1, LLP!TestLevel1, LLP!Level1Busy
  <2>2. LL!Unlock1(t) => LLP!Unlock1(t)
    BY DEF LL!Unlock1, LL!Signal, LL!Broadcast,
           LLP!Unlock1, LLP!Signal, LLP!Broadcast
  <2>3. LL!Lock2(t) => LLP!Lock2(t)
    BY DEF LL!Lock2, LL!Signal, LLP!Lock2, LLP!Signal
  <2>4. LL!Retry2(t) => LLP!Retry2(t)
    BY DEF LL!Retry2, LLP!Retry2
  <2>5. LL!Unlock2(t) => LLP!Unlock2(t)
    BY DEF LL!Unlock2, LL!Signal, LLP!Unlock2, LLP!Signal
  <2>6. LL!Unlock3(t) => LLP!Unlock3(t)
    BY DEF LL!Unlock3, LL!Broadcast, LLP!Unlock3, LLP!Broadcast
  <2>7. LL!TestLevel3(t) => LLP!TestLevel3(t)
    BY Zenon DEF LL!TestLevel3, LL!Level1Active, LL!Cardinality,
                 LLP!TestLevel3, LLP!Level1Active, LLP!Cardinality
  <2> QED
    BY <2>1, <2>2, <2>3, <2>4, <2>5, <2>6, <2>7
       DEF LL!Progress, LL!Lock3, LL!Retry3,
           LLP!Progress, LLP!Lock3, LLP!Retry3
<1>5. LL!Next => LLP!Next
  BY <1>2, <1>3, <1>4 DEF LL!Next, LLP!Next
<1> QED
  BY <1>1, <1>5

\* So the locks keep their books, whatever the store does with them.
LEMMA LockInvariance == Spec => []LLP!IInv
<1>1. Init => LLP!IInv
  BY SameLocks, LLP!InitEstablishes, FiniteSets, OnDiskAssumption DEF Init
<1>2. LLP!IInv /\ [Next]_vars => LLP!IInv'
  BY SameLocks, StepsUseLocks, LLP!NextPreserves, FiniteSets, OnDiskAssumption
<1> QED
  BY <1>1, <1>2, PTL DEF Spec

-----------------------------------------------------------------------------
(* The sizes the loops reach                                               *)

\* The first n + 1 values of Power2.
Powers(f, n) == /\ f \in [0..n -> Nat] /\ f[0] = 1
                /\ \A k \in 1..n : f[k] = 2 * f[k - 1]

\* The function Power2 exists: there is one on 0..n for every n, any two agree
\* where both are defined, and together they are one on Nat.
LEMMA Power2Values ==
  /\ Power2[0] = 1
  /\ \A k \in Nat : /\ Power2[k] \in Nat /\ k < Power2[k]
                    /\ Power2[k + 1] = 2 * Power2[k]
<1> DEFINE F == [n \in Nat |-> CHOOSE f : Powers(f, n)]
           P == [k \in Nat |-> F[k][k]]
<1>1. \A n \in Nat : \E f : Powers(f, n)
  <2> DEFINE T == {n \in Nat : ~ \E f : Powers(f, n)}
  <2> SUFFICES ASSUME T # {} PROVE FALSE
    OBVIOUS
  <2>1. PICK n \in T : \A m \in T : n <= m
    <3>1. T \in SUBSET Nat
      OBVIOUS
    <3> HIDE DEF T
    <3> QED
      BY <3>1, LeastNumber
  <2>2. CASE n = 0
    <3>1. Powers([k \in 0..0 |-> 1], 0)
      BY DEF Powers
    <3> QED
      BY <2>1, <2>2, <3>1
  <2>3. CASE n > 0
    <3>1. PICK f : Powers(f, n - 1)
      <4>1. n - 1 \in Nat /\ n - 1 \notin T
        BY <2>1, <2>3
      <4> QED
        BY <4>1
    <3> DEFINE g == [k \in 0..n |-> IF k = n THEN 2 * f[n - 1] ELSE f[k]]
    <3>3. /\ n - 1 \in Nat /\ 0 \in 0..n /\ n # 0 /\ n \in 1..n
          /\ \A k \in 1..n : k \in 0..n /\ k - 1 \in 0..n /\ k - 1 # n
                            /\ k # n => k \in 1..(n - 1)
      BY <2>1, <2>3
    <3>4. /\ f[0] = 1
          /\ \A k \in 1..(n - 1) : f[k] = 2 * f[k - 1]
      BY <3>1 DEF Powers
    <3>5. g[0] = 1
      BY <3>3, <3>4
    <3>6. ASSUME NEW k \in 1..n PROVE g[k] = 2 * g[k - 1]
      BY <3>3, <3>4
    <3>7. g \in [0..n -> Nat]
      <4>1. f \in [0..(n - 1) -> Nat] /\ n - 1 \in 0..(n - 1)
        BY <3>1, <3>3 DEF Powers
      <4>2. \A k \in 0..n : k # n => k \in 0..(n - 1)
        BY <2>1
      <4> QED
        BY <4>1, <4>2
    <3> HIDE DEF g
    <3>2. Powers(g, n)
      BY <3>5, <3>6, <3>7 DEF Powers
    <3> QED
      BY <2>1, <3>2
  <2> QED
    BY <2>1, <2>2, <2>3
<1>2. \A n \in Nat : Powers(F[n], n)
  <2> TAKE n \in Nat
  <2>1. F[n] = CHOOSE f : Powers(f, n)
    OBVIOUS
  <2> HIDE DEF F
  <2> QED
    BY <1>1, <2>1
<1>3. \A k \in Nat : F[k + 1][k] = F[k][k]
  <2> HIDE DEF F
  <2> SUFFICES ASSUME NEW n \in Nat
               PROVE  \A k \in 0..n : F[n + 1][k] = F[n][k]
    OBVIOUS
  <2> DEFINE T == {k \in 0..n : F[n + 1][k] # F[n][k]}
  <2> SUFFICES ASSUME T # {} PROVE FALSE
    OBVIOUS
  <2>1. Powers(F[n], n) /\ Powers(F[n + 1], n + 1)
    BY <1>2
  <2>2. PICK k \in T : \A m \in T : k <= m
    <3>1. T \in SUBSET Nat
      OBVIOUS
    <3> HIDE DEF T
    <3> QED
      BY <3>1, LeastNumber
  <2>3. CASE k = 0
    BY <2>1, <2>2, <2>3 DEF Powers
  <2>4. CASE k > 0
    <3>1. k - 1 \in 0..n /\ k - 1 \notin T /\ k \in 1..n
      BY <2>2, <2>4
    <3>2. F[n + 1][k - 1] = F[n][k - 1]
      BY <3>1
    <3>3. k \in 1..(n + 1) /\ F[n + 1][k] # F[n][k]
      BY <2>2, <3>1
    <3>4. F[n][k] = 2 * F[n][k - 1]
      BY <2>1, <3>1 DEF Powers
    <3>5. F[n + 1][k] = 2 * F[n + 1][k - 1]
      BY <2>1, <3>3 DEF Powers
    <3> QED
      BY <3>2, <3>3, <3>4, <3>5
  <2> QED
    BY <2>2, <2>3, <2>4
<1>4. P = [k \in Nat |-> IF k = 0 THEN 1 ELSE 2 * P[k - 1]]
  <2> HIDE DEF F
  <2> SUFFICES ASSUME NEW k \in Nat
               PROVE  F[k][k] = IF k = 0 THEN 1 ELSE 2 * P[k - 1]
    BY Zenon
  <2>1. Powers(F[k], k)
    BY <1>2
  <2>2. k # 0 => P[k - 1] = F[k - 1][k - 1] /\ F[k][k - 1] = F[k - 1][k - 1]
    <3> SUFFICES ASSUME k # 0
                 PROVE  P[k - 1] = F[k - 1][k - 1]
                        /\ F[k][k - 1] = F[k - 1][k - 1]
      OBVIOUS
    <3>1. k - 1 \in Nat /\ (k - 1) + 1 = k
      OBVIOUS
    <3> QED
      BY <1>3, <3>1
  <2>3. k # 0 => k \in 1..k
    OBVIOUS
  <2> HIDE DEF P
  <2> QED
    BY <2>1, <2>2, <2>3 DEF Powers
<1> HIDE DEF P
<1>5. Power2 = [k \in Nat |-> IF k = 0 THEN 1 ELSE 2 * Power2[k - 1]]
  BY <1>4, Zenon DEF Power2
<1>6. Power2[0] = 1 /\ \A k \in Nat : Power2[k + 1] = 2 * Power2[k]
  BY <1>5
<1>7. \A k \in Nat : Power2[k] \in Nat /\ k < Power2[k]
  <2> DEFINE T == {k \in Nat : ~(Power2[k] \in Nat /\ k < Power2[k])}
  <2> SUFFICES ASSUME T # {} PROVE FALSE
    OBVIOUS
  <2>1. PICK k \in T : \A m \in T : k <= m
    <3>1. T \in SUBSET Nat
      OBVIOUS
    <3> HIDE DEF T
    <3> QED
      BY <3>1, LeastNumber
  <2>2. CASE k = 0
    BY <1>6, <2>1, <2>2
  <2>3. CASE k > 0
    <3>1. k - 1 \in Nat /\ k - 1 \notin T /\ (k - 1) + 1 = k
      BY <2>1, <2>3
    <3>2. Power2[k] = 2 * Power2[k - 1]
      BY <1>6, <3>1
    <3> QED
      BY <2>1, <3>1, <3>2
  <2> QED
    BY <2>1, <2>2, <2>3
<1> QED
  BY <1>6, <1>7

\* The loop that doubles start ends, at a number that is at least n.
LEMMA DoublingsReach ==
  ASSUME NEW start \in Nat \ {0}, NEW n \in Nat
  PROVE  /\ Doublings(start, n) \in Nat
         /\ start * Power2[Doublings(start, n)] \in Nat \ {0}
         /\ start * Power2[Doublings(start, n)] >= n
         /\ \A j \in 0..(Doublings(start, n) - 1) : start * Power2[j] < n
<1> DEFINE T == {k \in 0..n : start * Power2[k] >= n}
<1>1. \A k \in Nat : start * Power2[k] \in Nat /\ start * Power2[k] > k
  <2>1. \A p \in Nat : start * p \in Nat /\ start * p >= p
    OBVIOUS
  <2>2. ASSUME NEW k \in Nat
        PROVE  start * Power2[k] \in Nat /\ start * Power2[k] > k
    <3>1. Power2[k] \in Nat /\ k < Power2[k]
      BY Power2Values
    <3>2. start * Power2[k] \in Nat /\ start * Power2[k] >= Power2[k]
      BY <2>1, <3>1
    <3> QED
      BY <3>1, <3>2
  <2> QED
    BY <2>2
<1>2. n \in T
  BY <1>1
<1>3. PICK k \in T : \A m \in T : k <= m
  <2>1. T \in SUBSET Nat
    OBVIOUS
  <2> HIDE DEF T
  <2> QED
    BY <1>2, <2>1, LeastNumber
<1>4. k \in 0..n /\ start * Power2[k] >= n
      /\ \A j \in 0..(k - 1) : start * Power2[j] < n
  <2> SUFFICES ASSUME NEW j \in 0..(k - 1)
               PROVE  start * Power2[j] < n
    BY <1>3
  <2>1. j \in Nat /\ j \in 0..n /\ j \notin T
    BY <1>3
  <2> QED
    BY <1>1, <2>1
<1> DEFINE d == Doublings(start, n)
<1>5. d \in 0..n /\ start * Power2[d] >= n
      /\ \A j \in 0..(d - 1) : start * Power2[j] < n
  BY <1>4, Zenon DEF Doublings
<1> QED
  BY <1>1, <1>5

-----------------------------------------------------------------------------
(* What the locks give a thread of the store                               *)

\* The shape of the locks, and whom they keep apart: one thread works on a
\* list, one on the free slots, and while a thread remaps the file no other
\* is between lock_1 and unlock_1 but inside lock_2.
LocksApart ==
  /\ pc \in [Threads -> LL!PCs]
  /\ no \in [Threads -> Lists]
  /\ \A t, u \in Threads :
       pc[t] \in LL!OwnsLock1 /\ pc[u] \in LL!OwnsLock1 /\ no[t] = no[u] => t = u
  /\ \A t, u \in Threads :
       pc[t] \in LL!OwnsLock2 /\ pc[u] \in LL!OwnsLock2 => t = u
  /\ \A t, u \in Threads : pc[t] = "held3" => pc[u] # "held1"
  /\ \A t \in Threads : pc[t] = "held3" => mutex1 # NoThread

LEMMA LocksKeepApart ==
  ASSUME LLP!IInv
  PROVE  LL!TypeOK /\ LocksApart
<1> USE DEF LL!PCs, LLP!PCs, LL!OwnsLock1, LL!InLock2, LL!OwnsLock2, LL!InLock3,
            LLP!OwnsLock1, LLP!InLock2, LLP!OwnsLock2, LLP!InLock3, LLP!At
<1>1. LLP!TypeOK /\ LLP!HoldersExact /\ LLP!Exclusive
  BY DEF LLP!IInv
<1>2. LL!TypeOK
  BY <1>1 DEF LL!TypeOK, LLP!TypeOK
<1>3. LLP!Quiescent
  BY LLP!QuiescentWhileRemapping, FiniteSets, OnDiskAssumption
<1>4. pc \in [Threads -> LL!PCs] /\ no \in [Threads -> Lists]
  BY <1>2 DEF LL!TypeOK
<1>5. ASSUME NEW t \in Threads, NEW u \in Threads,
             pc[t] \in LL!OwnsLock1, pc[u] \in LL!OwnsLock1, no[t] = no[u]
      PROVE  t = u
  BY <1>1, <1>5 DEF LLP!HoldersExact
<1>6. ASSUME NEW t \in Threads, NEW u \in Threads,
             pc[t] \in LL!OwnsLock2, pc[u] \in LL!OwnsLock2
      PROVE  t = u
  BY <1>1, <1>6 DEF LLP!Exclusive
<1>7. ASSUME NEW t \in Threads, NEW u \in Threads, pc[t] = "held3"
      PROVE  pc[u] # "held1"
  BY <1>3, <1>7 DEF LLP!Quiescent
<1>8. ASSUME NEW t \in Threads, pc[t] = "held3"
      PROVE  mutex1 # NoThread
  BY <1>1, <1>8, OnDiskAssumption DEF LLP!Exclusive
<1> QED
  BY <1>2, <1>4, <1>5, <1>6, <1>7, <1>8 DEF LocksApart

\* A thread that waits may be woken by what another one does.
Undisturbed(u) == \/ pc'[u] = pc[u]
                  \/ pc[u] = "wait1" /\ pc'[u] = "retry1"
                  \/ pc[u] = "wait2" /\ pc'[u] = "retry2"
                  \/ pc[u] = "wait3" /\ pc'[u] = "retry3"

\* Thread t goes from one place in the locks to one of the places there.
Moves(t, here, there) ==
  /\ pc[t] = here /\ pc'[t] \in there
  /\ \A u \in Threads \ {t} : Undisturbed(u)

\* What each method does to the places of the threads.
LEMMA MethodsMove ==
  ASSUME LL!TypeOK, NEW t \in Threads
  PROVE  /\ \A l \in Lists : LL!Lock1(t, l) =>
              Moves(t, "idle", {"wait1", "held1"}) /\ mutex1 = NoThread
                /\ no' = [no EXCEPT ![t] = l]
         /\ LL!Retry1(t) => /\ Moves(t, "retry1", {"wait1", "held1"})
                            /\ mutex1 = NoThread /\ no' = no
         /\ LL!Retry2(t) => /\ Moves(t, "retry2", {"wait2", "held2"})
                            /\ mutex1 = NoThread /\ no' = no
         /\ LL!Retry3(t) => /\ Moves(t, "retry3", {"wait3", "held3"})
                            /\ mutex1 = NoThread /\ no' = no
         /\ LL!Unlock1(t) => Moves(t, "held1", {"idle"}) /\ no' = no
                               /\ mutex1 = NoThread
         /\ LL!Lock2(t) => Moves(t, "held1", {"wait2", "held2"}) /\ no' = no
                             /\ mutex1 = NoThread
         /\ LL!Unlock2(t) => Moves(t, "held2", {"held1"}) /\ no' = no
                               /\ mutex1 = NoThread
         /\ LL!Lock3(t) => Moves(t, "held2", {"wait3", "held3"}) /\ no' = no
                             /\ mutex1 = NoThread
         /\ LL!Unlock3(t) => Moves(t, "held3", {"held2"}) /\ no' = no
         /\ LL!SpuriousWakeup(t) => no' = no /\ \A u \in Threads : Undisturbed(u)
<1> USE DEF Moves, Undisturbed
<1>0. pc \in [Threads -> LL!PCs]
  BY DEF LL!TypeOK
<1>1. \A l \in Lists : LL!Lock1(t, l) =>
        Moves(t, "idle", {"wait1", "held1"}) /\ mutex1 = NoThread
          /\ no' = [no EXCEPT ![t] = l]
  BY <1>0 DEF LL!Lock1, LL!TestLevel1
<1>2. LL!Retry1(t) => /\ Moves(t, "retry1", {"wait1", "held1"})
                      /\ mutex1 = NoThread /\ no' = no
  BY <1>0 DEF LL!Retry1, LL!TestLevel1
<1>3. LL!Retry2(t) => /\ Moves(t, "retry2", {"wait2", "held2"})
                      /\ mutex1 = NoThread /\ no' = no
  BY <1>0 DEF LL!Retry2
<1>4. LL!Retry3(t) => /\ Moves(t, "retry3", {"wait3", "held3"})
                      /\ mutex1 = NoThread /\ no' = no
  BY <1>0 DEF LL!Retry3, LL!TestLevel3
<1>5. LL!Unlock1(t) => Moves(t, "held1", {"idle"}) /\ no' = no
                         /\ mutex1 = NoThread
  BY <1>0 DEF LL!Unlock1, LL!Signal, LL!Broadcast
<1>6. LL!Lock2(t) => Moves(t, "held1", {"wait2", "held2"}) /\ no' = no
                       /\ mutex1 = NoThread
  BY <1>0 DEF LL!Lock2, LL!Signal
<1>7. LL!Unlock2(t) => Moves(t, "held2", {"held1"}) /\ no' = no
                         /\ mutex1 = NoThread
  BY <1>0 DEF LL!Unlock2, LL!Signal
<1>8. LL!Lock3(t) => Moves(t, "held2", {"wait3", "held3"}) /\ no' = no
                       /\ mutex1 = NoThread
  BY <1>0 DEF LL!Lock3, LL!TestLevel3
<1>9. LL!Unlock3(t) => Moves(t, "held3", {"held2"}) /\ no' = no
  BY <1>0 DEF LL!Unlock3, LL!Broadcast
<1>10. LL!SpuriousWakeup(t) => no' = no /\ \A u \in Threads : Undisturbed(u)
  BY <1>0 DEF LL!SpuriousWakeup
<1> QED
  BY <1>1, <1>2, <1>3, <1>4, <1>5, <1>6, <1>7, <1>8, <1>9, <1>10

-----------------------------------------------------------------------------
(* The inductive invariant                                                 *)

\* Where a thread can stand in the locks at each step of its call.
LockAt(s) ==
  CASE s = "ready" -> {"idle"}
    [] s = "start" -> {"wait1", "retry1", "held1"}
    [] s = "free" -> {"wait2", "retry2", "held2"}
    [] s \in {"allocate", "reallocate", "copy", "publish"} -> {"held2"}
    [] s = "unmap" -> {"wait3", "retry3", "held3"}
    [] s \in {"remap", "remapped", "thrown"} -> {"held3"}
    [] OTHER -> {"held1"}

StepFollowsLock == \A t \in Threads : pc[t] \in LockAt(step[t])

\* A list fits in its block, and a block of some bytes is somewhere.
Fits(d) == d.size <= d.capacity /\ (d.capacity > 0 => d.offset \in Nat)

ListsInOrder ==
  \A l \in Lists : Fits(lists[l]) /\ Len(content[l]) = lists[l].size

Adding == {"get_ids", "write_ids", "write_codes"}
UsingPointer == {"write_ids", "write_codes", "read"}

\* What a call knows on its way.
CallInOrder(t) ==
  /\ call[t].op = "add" => call[t].n \in AddSizes
  /\ step[t] \in Adding =>
       call[t].op = "add" /\ call[t].n <= lists[no[t]].size
  /\ step[t] = "read" => lists[no[t]].size > 0
  /\ step[t] \in {"free"} \cup Moving => call[t].op # "read"
  /\ step[t] \in Moving =>
       /\ call[t].new.size = NewSize(t)
       /\ call[t].new.size <= call[t].new.capacity
       /\ step[t] \notin Placed => call[t].new.capacity > 0
  /\ step[t] \in Placed => Fits(call[t].new)
  /\ step[t] \in {"remapped", "reallocate"} => Candidates(slots, Needed(t)) # {}
  /\ step[t] \in UsingPointer => call[t].base = ptr

CallsInOrder == \A t \in Threads : CallInOrder(t)

\* List l has the byte range r in the file: its own block while no thread
\* moves it, and the new one from allocate_slot to the assignment that
\* publishes it.
Holds(l, r) ==
  \/ ~Moved(l) /\ lists[l].capacity > 0 /\ r = Block(lists[l])
  \/ \E t \in Threads : /\ no[t] = l /\ step[t] \in Placed
                        /\ call[t].new.capacity > 0 /\ r = Block(call[t].new)

SlotsInOrder == slots \in Seq(Bytes) /\ Ordered(slots) /\ Inside(slots, totsize)

\* The ranges of the lists are in the file, clear of the free slots and of
\* each other.
BlocksApart ==
  /\ \A l \in Lists, r \in Bytes :
       Holds(l, r) => Clear(slots, r) /\ End(r) <= totsize
  /\ \A l, m \in Lists, r, q \in Bytes :
       Holds(l, r) /\ Holds(m, q) /\ l # m => ~Overlap(r, q)

\* There is no mapping while a thread remaps, after an error, and before the
\* first entries come, when nothing is in the file.
Unmapped ==
  ~mapped =>
    \/ \E t \in Threads : step[t] \in {"remap", "thrown"}
    \/ /\ slots = <<>>
       /\ \A l \in Lists : lists[l].capacity = 0
       /\ \A t \in Threads : step[t] \in Placed => call[t].new.capacity = 0

\* What the actions of the store keep, given the locks.
StoreInv ==
  /\ TypeOK /\ StepFollowsLock /\ ListsInOrder /\ CallsInOrder
  /\ SlotsInOrder /\ BlocksApart /\ Unmapped

Inv == LocksApart /\ StoreInv

-----------------------------------------------------------------------------
(* What the steps of one thread leave of the others                        *)

\* The calls of the other threads stand where they were, and what a thread
\* holds a lock for is as it left it.
Frame(t) ==
  \A u \in Threads \ {t} :
    /\ Undisturbed(u)
    /\ step'[u] = step[u] /\ call'[u] = call[u] /\ no'[u] = no[u]
    /\ pc[u] \in LL!OwnsLock1 => lists'[no[u]] = lists[no[u]]
    /\ pc[u] \in LL!OwnsLock2 => slots' = slots
    /\ pc[u] = "held1" => ptr' = ptr

LEMMA FrameHolds ==
  ASSUME Inv, NEW t \in Threads,
         \/ \E l \in Lists, c \in Calls : Begin(t, l, c)
         \/ Step(t) \/ Spurious(t)
  PROVE  Frame(t)
<1> DEFINE Others == \A u \in Threads \ {t} :
                       /\ Undisturbed(u)
                       /\ step'[u] = step[u] /\ call'[u] = call[u]
                       /\ no'[u] = no[u]
<1> USE DEF LL!OwnsLock1, LL!InLock2, LL!OwnsLock2, LL!InLock3
<1>0. /\ LocksApart /\ LL!TypeOK
      /\ lists \in [Lists -> ListType] /\ step \in [Threads -> Steps]
      /\ call \in [Threads -> [op : {"add", "resize", "read"}, n : Nat,
                               base : Nat, new : ListType]]
      /\ no \in [Threads -> Lists] /\ pc \in [Threads -> LL!PCs]
      /\ \A u \in Threads : pc[u] \in LockAt(step[u])
  BY DEF Inv, StoreInv, TypeOK, LocksApart, StepFollowsLock
<1>1. CASE \E l \in Lists, c \in Calls : Begin(t, l, c)
  <2>1. PICK l \in Lists, c \in Calls : Begin(t, l, c)
    BY <1>1
  <2>2. Others
    BY <1>0, <2>1, MethodsMove DEF Begin, Goto, Moves
  <2> QED
    BY <2>1, <2>2 DEF Begin, space, Frame
<1>2. CASE Spurious(t)
  BY <1>0, <1>2, MethodsMove DEF Spurious, space, Frame
<1>3. CASE Waiting(t)
  BY <1>0, <1>3, MethodsMove DEF Waiting, space, Moves, Frame
<1>4. CASE ResizeInPlace(t)
  <2>1. Others /\ slots' = slots /\ ptr' = ptr
    BY <1>0, <1>4 DEF ResizeInPlace, Goto, lockVars, space, Undisturbed
  <2>2. \A u \in Threads \ {t} :
          pc[u] \in LL!OwnsLock1 => lists'[no[u]] = lists[no[u]]
    BY <1>0, <1>4 DEF ResizeInPlace, LocksApart
  <2> QED
    BY <2>1, <2>2 DEF Frame
<1>5. CASE LockSlots(t)
  <2>1. Others
    BY <1>0, <1>5, MethodsMove DEF LockSlots, Goto, Moves
  <2> QED
    BY <1>5, <2>1 DEF LockSlots, space, Frame
<1>6. CASE FreeSlot(t) \/ AllocateSlot(t)
  <2>1. Others /\ lists' = lists /\ ptr' = ptr /\ pc[t] = "held2"
    BY <1>0, <1>6 DEF FreeSlot, AllocateSlot, Goto, lockVars, Undisturbed
  <2>2. \A u \in Threads \ {t} : pc[u] \notin LL!OwnsLock2
    BY <1>0, <2>1 DEF LocksApart
  <2> QED
    BY <2>1, <2>2 DEF Frame
<1>7. CASE LockRemap(t) \/ UnlockRemap(t)
  <2>1. Others
    BY <1>0, <1>7, MethodsMove DEF LockRemap, UnlockRemap, Goto, Moves
  <2> QED
    BY <1>7, <2>1 DEF LockRemap, UnlockRemap, space, Frame
<1>8. CASE Unmap(t) \/ Remap(t) \/ RemapThrows(t)
  <2>1. Others /\ lists' = lists /\ pc[t] = "held3"
    BY <1>0, <1>8 DEF Unmap, Remap, RemapThrows, Goto, lockVars, Undisturbed,
                      LockAt
  <2>2. \A u \in Threads \ {t} : pc[u] \notin LL!OwnsLock2 /\ pc[u] # "held1"
    BY <1>0, <2>1 DEF LocksApart
  <2> QED
    BY <2>1, <2>2 DEF Frame
<1>9. CASE Publish(t)
  <2>1. Others /\ pc[t] = "held2"
    BY <1>0, <1>9, MethodsMove DEF Publish, Goto, Moves
  <2>2. \A u \in Threads \ {t} :
          pc[u] \in LL!OwnsLock1 => lists'[no[u]] = lists[no[u]]
    BY <1>0, <1>9, <2>1 DEF Publish, LocksApart
  <2> QED
    BY <1>9, <2>1, <2>2 DEF Publish, space, Frame
<1>10. CASE \/ CopyCommon(t) \/ GetIds(t) \/ WriteIds(t) \/ WriteCodes(t)
            \/ GetList(t) \/ ReadList(t)
  BY <1>0, <1>10 DEF CopyCommon, GetIds, WriteIds, WriteCodes, GetList,
                     ReadList, Goto, lockVars, space, Undisturbed, Frame
<1>11. CASE Return(t)
  <2>1. Others
    BY <1>0, <1>11, MethodsMove DEF Return, Goto, Moves
  <2> QED
    BY <1>11, <2>1 DEF Return, space, Frame
<1> QED
  BY <1>1, <1>2, <1>3, <1>4, <1>5, <1>6, <1>7, <1>8, <1>9, <1>10, <1>11
     DEF Step

-----------------------------------------------------------------------------
(* Each part of the invariant                                              *)

\* A thread is at a step of its call only with the locks of that step.
LEMMA StepFollowsLockPreserved ==
  ASSUME Inv, NEW t \in Threads,
         \/ \E l \in Lists, c \in Calls : Begin(t, l, c)
         \/ Step(t) \/ Spurious(t)
  PROVE  StepFollowsLock'
<1> USE DEF LockAt
<1>0. /\ LL!TypeOK /\ step \in [Threads -> Steps] /\ pc \in [Threads -> LL!PCs]
      /\ \A u \in Threads : pc[u] \in LockAt(step[u])
      /\ call \in [Threads -> [op : {"add", "resize", "read"}, n : Nat,
                               base : Nat, new : ListType]]
  BY DEF Inv, StoreInv, TypeOK, LocksApart, StepFollowsLock
<1>1. \A u \in Threads \ {t} : pc'[u] \in LockAt(step'[u])
  BY <1>0, FrameHolds DEF Frame, Undisturbed
<1>2. pc'[t] \in LockAt(step'[t])
  <2>1. CASE \E l \in Lists, c \in Calls : Begin(t, l, c)
    BY <1>0, <2>1, MethodsMove DEF Begin, Goto, Moves
  <2>2. CASE Spurious(t)
    BY <1>0, <2>2, MethodsMove DEF Spurious, Undisturbed
  <2>3. CASE Waiting(t)
    BY <1>0, <2>3, MethodsMove DEF Waiting, Moves
  <2>4. CASE ResizeInPlace(t)
    BY <1>0, <2>4 DEF ResizeInPlace, Goto, lockVars, AfterResize
  <2>5. CASE LockSlots(t)
    BY <1>0, <2>5, MethodsMove DEF LockSlots, Goto, Moves
  <2>6. CASE FreeSlot(t) \/ AllocateSlot(t)
    BY <1>0, <2>6 DEF FreeSlot, AllocateSlot, Goto, lockVars
  <2>7. CASE LockRemap(t)
    BY <1>0, <2>7, MethodsMove DEF LockRemap, Goto, Moves
  <2>8. CASE UnlockRemap(t)
    BY <1>0, <2>8, MethodsMove DEF UnlockRemap, Goto, Moves
  <2>9. CASE Unmap(t) \/ Remap(t) \/ RemapThrows(t)
    BY <1>0, <2>9 DEF Unmap, Remap, RemapThrows, Goto, lockVars
  <2>10. CASE Publish(t)
    BY <1>0, <2>10, MethodsMove DEF Publish, Goto, Moves, AfterResize
  <2>11. CASE CopyCommon(t) \/ GetIds(t) \/ WriteIds(t) \/ WriteCodes(t)
    BY <1>0, <2>11 DEF CopyCommon, GetIds, WriteIds, WriteCodes, Goto, lockVars
  <2>12. CASE GetList(t) \/ ReadList(t)
    BY <1>0, <2>12 DEF GetList, ReadList, Goto, lockVars
  <2>13. CASE Return(t)
    BY <1>0, <2>13, MethodsMove DEF Return, Goto, Moves
  <2> QED
    BY <2>1, <2>2, <2>3, <2>4, <2>5, <2>6, <2>7, <2>8, <2>9, <2>10, <2>11,
       <2>12, <2>13 DEF Step
<1> QED
  BY <1>1, <1>2 DEF StepFollowsLock

-----------------------------------------------------------------------------
(* Numbers                                                                 *)

\* The bytes of n entries of a list, or of one of the parts of an entry.
LEMMA Products ==
  /\ CodeSize \in Nat \ {0} /\ IdSize \in Nat \ {0} /\ EntrySize \in Nat \ {0}
  /\ \A n \in Nat : /\ n * CodeSize \in Nat /\ n * IdSize \in Nat
                    /\ n * EntrySize \in Nat /\ n <= n * EntrySize
                    /\ n > 0 => n * EntrySize > 0
<1>1. CodeSize \in Nat \ {0} /\ IdSize \in Nat \ {0} /\ EntrySize \in Nat \ {0}
  BY OnDiskAssumption DEF IdSize, EntrySize
<1>2. \A n, m \in Nat : n * m \in Nat
  OBVIOUS
<1>3. \A n \in Nat, m \in Nat \ {0} : n <= n * m
  OBVIOUS
<1> QED
  BY <1>1, <1>2, <1>3

\* A new capacity, and the size the file grows to.
LEMMA NewSizes ==
  /\ \A n \in Nat : PowerOfTwo(n) \in Nat \ {0} /\ n <= PowerOfTwo(n)
  /\ \A total \in Nat, more \in Nat \ {0} :
       /\ GrownSize(total, more) \in Nat
       /\ total < GrownSize(total, more)
       /\ more <= GrownSize(total, more) - total
<1>1. ASSUME NEW n \in Nat
      PROVE  PowerOfTwo(n) \in Nat \ {0} /\ n <= PowerOfTwo(n)
  <2> DEFINE p == Power2[Doublings(1, n)]
  <2>1. Doublings(1, n) \in Nat /\ 1 * p >= n
    BY DoublingsReach
  <2>2. p \in Nat /\ p > 0
    BY <2>1, Power2Values
  <2> QED
    BY <2>1, <2>2 DEF PowerOfTwo
<1>2. ASSUME NEW total \in Nat, NEW more \in Nat \ {0}
      PROVE  /\ GrownSize(total, more) \in Nat
             /\ total < GrownSize(total, more)
             /\ more <= GrownSize(total, more) - total
  <2> DEFINE start == IF total = 0 THEN 32 ELSE 2 * total
             g == start * Power2[Doublings(start, total + more)]
  <2>1. start \in Nat \ {0}
    OBVIOUS
  <2> HIDE DEF start
  <2>2. g \in Nat /\ g >= total + more
    BY <2>1, DoublingsReach
  <2>3. GrownSize(total, more) = g
    BY DEF GrownSize, start
  <2> HIDE DEF g
  <2> QED
    BY <2>2, <2>3
<1> QED
  BY <1>1, <1>2

-----------------------------------------------------------------------------
(* Blocks                                                                  *)

\* What the invariant says of types, for the proofs that need no more.
LEMMA Shapes ==
  ASSUME Inv
  PROVE  /\ LocksApart /\ LL!TypeOK
         /\ lists \in [Lists -> ListType] /\ step \in [Threads -> Steps]
         /\ call \in [Threads -> [op : {"add", "resize", "read"}, n : Nat,
                                  base : Nat, new : ListType]]
         /\ no \in [Threads -> Lists] /\ pc \in [Threads -> LL!PCs]
         /\ totsize \in Nat /\ ptr \in Nat /\ mapped \in BOOLEAN
         /\ file \subseteq Object
         /\ content \in [Lists -> Seq(Nat)] /\ added \in [Lists -> Nat]
         /\ slots \in Seq(Bytes) /\ Ordered(slots) /\ Inside(slots, totsize)
  BY DEF Inv, StoreInv, TypeOK, LocksApart, SlotsInOrder

\* The block of a list with some capacity is a range of bytes, and what
\* free_slot is given of it is the beginning of that range.
LEMMA BlockBytes ==
  ASSUME NEW d \in ListType, d.capacity > 0, d.offset \in Nat
  PROVE  /\ Block(d) \in Bytes
         /\ Block(d).offset = d.offset
         /\ End(Block(d)) = d.offset + d.capacity * EntrySize
         /\ d.capacity * EntrySize \in Nat \ {0}
         /\ FreedBytes(d) \in Nat \ {0}
         /\ d.offset + FreedBytes(d) <= End(Block(d))
         /\ d.offset + FreedBytes(d) \in Nat /\ End(Block(d)) \in Nat
<1>1. d.capacity \in Nat \ {0}
  BY DEF ListType
<1>2. /\ d.capacity * EntrySize \in Nat \ {0}
      /\ d.capacity <= d.capacity * EntrySize
  BY <1>1, Products
<1> DEFINE size == d.capacity * EntrySize
<1>3. Block(d) = Slot(d.offset, size)
  BY DEF Block
<1> HIDE DEF size
<1>4. size \in Nat \ {0} /\ d.capacity <= size
  BY <1>2 DEF size
<1>5. Block(d) \in Bytes /\ Block(d).offset = d.offset
      /\ End(Block(d)) = d.offset + size
  BY <1>3, <1>4 DEF Slot, Bytes, End
<1> QED
  BY <1>1, <1>4, <1>5 DEF FreedBytes, size

\* What a list holds is a range of bytes.
LEMMA HoldsBytes ==
  ASSUME Inv, NEW l \in Lists, NEW r, Holds(l, r)
  PROVE  r \in Bytes
<1>1. CASE ~Moved(l) /\ lists[l].capacity > 0 /\ r = Block(lists[l])
  <2>1. lists[l] \in ListType /\ lists[l].offset \in Nat
    BY <1>1, Shapes DEF Inv, StoreInv, ListsInOrder, Fits
  <2> QED
    BY <1>1, <2>1, BlockBytes
<1>2. CASE \E t \in Threads : /\ no[t] = l /\ step[t] \in Placed
                              /\ call[t].new.capacity > 0
                              /\ r = Block(call[t].new)
  <2>1. PICK t \in Threads : /\ no[t] = l /\ step[t] \in Placed
                             /\ call[t].new.capacity > 0
                             /\ r = Block(call[t].new)
    BY <1>2
  <2>2. call[t].new \in ListType /\ call[t].new.offset \in Nat
    BY <2>1, Shapes DEF Inv, StoreInv, CallsInOrder, CallInOrder, Fits
  <2> QED
    BY <2>1, <2>2, BlockBytes
<1> QED
  BY <1>1, <1>2 DEF Holds

\* A thread that works on a list works alone on it.
LEMMA AloneOnList ==
  ASSUME Inv, NEW t \in Threads, pc[t] \in LL!OwnsLock1,
         NEW u \in Threads \ {t}, no[u] = no[t]
  PROVE  step[u] \in {"ready", "start"}
<1>1. pc[u] \notin LL!OwnsLock1
  BY Shapes DEF LocksApart
<1>2. pc[u] \in LockAt(step[u]) /\ step[u] \in Steps
  BY Shapes DEF Inv, StoreInv, StepFollowsLock
<1> QED
  BY <1>1, <1>2 DEF LockAt, Steps, LL!OwnsLock1, LL!InLock2, LL!OwnsLock2,
                    LL!InLock3

\* A step of thread t that moves no block: lists keep their blocks, and the
\* thread neither publishes nor places one.
StaysPut(t) ==
  /\ \A l \in Lists : /\ lists'[l].offset = lists[l].offset
                      /\ lists'[l].capacity = lists[l].capacity
  /\ step[t] \in Moving => step'[t] \in Moving /\ no'[t] = no[t]
  /\ step'[t] \in Placed /\ call'[t].new.capacity > 0 =>
       /\ step[t] \in Placed /\ no'[t] = no[t]
       /\ call'[t].new = call[t].new

\* Such a step gives no list a new range.
LEMMA NothingNewHeld ==
  ASSUME Inv, NEW t \in Threads, Frame(t), StaysPut(t),
         NEW l \in Lists, NEW r, Holds(l, r)'
  PROVE  Holds(l, r)
<1>1. CASE ~Moved(l)' /\ lists'[l].capacity > 0 /\ r = Block(lists'[l])
  <2>1. ~Moved(l)
    BY <1>1 DEF Moved, Frame, StaysPut
  <2>2. lists[l].capacity > 0 /\ r = Block(lists[l])
    BY <1>1 DEF StaysPut, Block
  <2> QED
    BY <2>1, <2>2 DEF Holds
<1>2. CASE \E u \in Threads : /\ no'[u] = l /\ step'[u] \in Placed
                              /\ call'[u].new.capacity > 0
                              /\ r = Block(call'[u].new)
  <2>1. PICK u \in Threads : /\ no'[u] = l /\ step'[u] \in Placed
                             /\ call'[u].new.capacity > 0
                             /\ r = Block(call'[u].new)
    BY <1>2
  <2>2. no[u] = l /\ step[u] \in Placed /\ call'[u].new = call[u].new
    BY <2>1 DEF Frame, StaysPut
  <2> QED
    BY <2>1, <2>2 DEF Holds
<1> QED
  BY <1>1, <1>2 DEF Holds, Block

\* The actions that move no block and leave the free slots alone...
LEMMA QuietSteps ==
  ASSUME Inv, NEW t \in Threads,
         \/ \E l \in Lists, c \in Calls : Begin(t, l, c)
         \/ Spurious(t) \/ Waiting(t)
         \/ ResizeInPlace(t) \/ LockSlots(t) \/ LockRemap(t) \/ Unmap(t)
         \/ UnlockRemap(t) \/ CopyCommon(t)
         \/ GetIds(t) \/ WriteIds(t) \/ WriteCodes(t)
         \/ GetList(t) \/ ReadList(t) \/ Return(t)
  PROVE  StaysPut(t) /\ slots' = slots /\ totsize' = totsize
<1> USE DEF Moving, Placed, StaysPut
<1>0. /\ LL!TypeOK
      /\ lists \in [Lists -> ListType] /\ step \in [Threads -> Steps]
      /\ call \in [Threads -> [op : {"add", "resize", "read"}, n : Nat,
                               base : Nat, new : ListType]]
      /\ no \in [Threads -> Lists]
  BY Shapes
<1>1. CASE \E l \in Lists, c \in Calls : Begin(t, l, c)
  BY <1>0, <1>1 DEF Begin, Goto, space
<1>2. CASE Spurious(t)
  BY <1>0, <1>2, MethodsMove DEF Spurious, space
<1>3. CASE Waiting(t)
  BY <1>0, <1>3, MethodsMove DEF Waiting, space
<1>4. CASE ResizeInPlace(t)
  <2>1. ASSUME NEW l \in Lists
        PROVE  /\ lists'[l].offset = lists[l].offset
               /\ lists'[l].capacity = lists[l].capacity
    BY <1>0, <1>4 DEF ResizeInPlace, ListType
  <2> QED
    BY <1>0, <1>4, <2>1 DEF ResizeInPlace, Goto, space, AfterResize
<1>5. CASE LockSlots(t)
  BY <1>0, <1>5 DEF LockSlots, Goto, space
<1>6. CASE LockRemap(t) \/ UnlockRemap(t)
  BY <1>0, <1>6, MethodsMove DEF LockRemap, UnlockRemap, Goto, space
<1>7. CASE Unmap(t)
  BY <1>0, <1>7 DEF Unmap, Goto, lockVars
<1>8. CASE CopyCommon(t)
  BY <1>0, <1>8 DEF CopyCommon, Goto, lockVars, space
<1>9. CASE GetIds(t) \/ WriteIds(t)
  BY <1>0, <1>9 DEF GetIds, WriteIds, Goto, lockVars, space
<1>10. CASE WriteCodes(t)
  BY <1>0, <1>10 DEF WriteCodes, Goto, lockVars, space
<1>11. CASE GetList(t) \/ ReadList(t)
  BY <1>0, <1>11 DEF GetList, ReadList, Goto, lockVars, space
<1>12. CASE Return(t)
  BY <1>0, <1>12, MethodsMove DEF Return, Goto, space
<1> QED
  BY <1>1, <1>2, <1>3, <1>4, <1>5, <1>6, <1>7, <1>8, <1>9, <1>10, <1>11, <1>12

\* ... the growth of the file: it may fail after the new size is noted...
Grows(t) == /\ step[t] = "remap"
            /\ GrowTo(GrownSize(totsize, Needed(t)))
            /\ \/ Remap(t) \/ RemapThrows(t)

LEMMA GrowthSteps ==
  ASSUME Inv, NEW t \in Threads, Remap(t) \/ RemapThrows(t)
  PROVE  /\ StaysPut(t)
         /\ (slots' = slots /\ totsize' = totsize) \/ Grows(t)
<1>0. /\ lists \in [Lists -> ListType] /\ step \in [Threads -> Steps]
      /\ call \in [Threads -> [op : {"add", "resize", "read"}, n : Nat,
                               base : Nat, new : ListType]]
  BY Shapes
<1>1. StaysPut(t)
  BY <1>0 DEF Remap, RemapThrows, Goto, lockVars, Moving, Placed, StaysPut
<1>2. (slots' = slots /\ totsize' = totsize) \/ Grows(t)
  BY DEF Remap, RemapThrows, Grows
<1> QED
  BY <1>1, <1>2

\* What a thread that moves its list needs.
LEMMA NeededBytes ==
  ASSUME Inv, NEW t \in Threads, step[t] \in Moving \ Placed
  PROVE  Needed(t) \in Nat \ {0}
<1>1. call[t].new.capacity \in Nat /\ call[t].new.capacity > 0
  BY Shapes DEF Inv, StoreInv, CallsInOrder, CallInOrder, ListType
<1> QED
  BY <1>1, Products DEF Needed

\* What update_totsize does to the free slots.
LEMMA GrowthKeeps ==
  ASSUME Inv, NEW t \in Threads, Grows(t)
  PROVE  /\ SlotsInOrder'
         /\ totsize' \in Nat /\ totsize <= totsize'
         /\ \A r \in Bytes : End(r) <= totsize /\ Clear(slots, r)
                             => Clear(slots', r)
         /\ Candidates(slots', Needed(t)) # {}
<1> DEFINE total == GrownSize(totsize, Needed(t))
<1>1. /\ slots \in Seq(Bytes) /\ Ordered(slots) /\ Inside(slots, totsize)
      /\ totsize \in Nat
  BY Shapes
<1>2. Needed(t) \in Nat \ {0}
  BY NeededBytes DEF Grows, Moving, Placed
<1>3. total \in Nat /\ totsize < total /\ Needed(t) <= total - totsize
  BY <1>1, <1>2, NewSizes
<1>4. slots' = Extend(slots, totsize, total) /\ totsize' = total
  BY DEF Grows, GrowTo
<1> HIDE DEF total
<1>5. /\ slots' \in Seq(Bytes) /\ Ordered(slots') /\ Inside(slots', total)
      /\ \A r \in Bytes : End(r) <= totsize /\ Clear(slots, r)
                          => Clear(slots', r)
      /\ \A n \in Nat : n <= total - totsize => Candidates(slots', n) # {}
  BY <1>1, <1>3, <1>4, ExtendKeeps
<1> QED
  BY <1>1, <1>2, <1>3, <1>4, <1>5 DEF SlotsInOrder

\* ... free_slot...
LEMMA FreeSteps ==
  ASSUME Inv, NEW t \in Threads, FreeSlot(t)
  PROVE  StaysPut(t) /\ totsize' = totsize /\ no' = no
<1>0. /\ lists \in [Lists -> ListType] /\ step \in [Threads -> Steps]
      /\ call \in [Threads -> [op : {"add", "resize", "read"}, n : Nat,
                               base : Nat, new : ListType]]
  BY Shapes
<1>1. NewSize(t) = 0 => call'[t].new = EmptyList
  BY <1>0 DEF FreeSlot
<1>2. NewSize(t) # 0 => step'[t] = "allocate"
  BY <1>0 DEF FreeSlot, Goto
<1>3. step[t] = "free" /\ lists' = lists /\ no' = no /\ totsize' = totsize
  BY DEF FreeSlot, lockVars
<1> QED
  BY <1>1, <1>2, <1>3 DEF StaysPut, Moving, Placed, EmptyList

\* While a thread is about to free the block of its list, the list holds it.
LEMMA FreedIsHeld ==
  ASSUME Inv, NEW t \in Threads, step[t] = "free",
         lists[no[t]].capacity > 0
  PROVE  /\ Holds(no[t], Block(lists[no[t]]))
         /\ lists[no[t]] \in ListType /\ lists[no[t]].offset \in Nat
<1>1. pc[t] \in LL!OwnsLock1
  BY DEF Inv, StoreInv, StepFollowsLock, LockAt, LL!OwnsLock1, LL!InLock2,
         LL!OwnsLock2
<1>2. ~Moved(no[t])
  BY <1>1, AloneOnList DEF Moved, Moving
<1>3. no[t] \in Lists /\ lists[no[t]] \in ListType
  BY Shapes
<1> QED
  BY <1>2, <1>3 DEF Holds, Inv, StoreInv, ListsInOrder, Fits

\* free_slot is given the beginning of a block that no slot touches, so its
\* asserts hold...
LEMMA FreedIsClear ==
  ASSUME Inv, NEW t \in Threads, step[t] = "free",
         NEW d, d = lists[no[t]], d.capacity > 0
  PROVE  /\ d.offset \in Nat /\ FreedBytes(d) \in Nat \ {0}
         /\ Clear(slots, Slot(d.offset, FreedBytes(d)))
         /\ d.offset + FreedBytes(d) <= totsize
         /\ \A r \in Bytes : ~Overlap(Block(d), r)
                             => ~Overlap(Slot(d.offset, FreedBytes(d)), r)
<1>1. Holds(no[t], Block(d)) /\ d \in ListType /\ d.offset \in Nat
  BY FreedIsHeld
<1>2. /\ Block(d) \in Bytes /\ Block(d).offset = d.offset
      /\ FreedBytes(d) \in Nat \ {0}
      /\ d.offset + FreedBytes(d) <= End(Block(d))
      /\ End(Block(d)) \in Nat
  BY <1>1, BlockBytes
<1>3. /\ no[t] \in Lists /\ totsize \in Nat /\ slots \in Seq(Bytes)
  BY Shapes
<1>4. Clear(slots, Block(d)) /\ End(Block(d)) <= totsize
  BY <1>1, <1>2, <1>3 DEF Inv, StoreInv, BlocksApart
<1> DEFINE f == Slot(d.offset, FreedBytes(d))
<1>5. f.offset = d.offset /\ End(f) = d.offset + FreedBytes(d)
  BY DEF Slot, End
<1> HIDE DEF f
<1>6. \A r \in Bytes : ~Overlap(Block(d), r) => ~Overlap(f, r)
  <2> SUFFICES ASSUME NEW r \in Bytes, Overlap(f, r)
               PROVE  Overlap(Block(d), r)
    OBVIOUS
  <2>1. r.offset \in Nat /\ End(r) \in Nat
    BY DEF Bytes, End
  <2> QED
    BY <1>1, <1>2, <1>5, <2>1 DEF Overlap
<1>7. Clear(slots, f)
  <2> SUFFICES ASSUME NEW i \in 1..Len(slots), Overlap(slots[i], f)
               PROVE  Overlap(slots[i], Block(d))
    BY <1>4 DEF Clear
  <2>1. slots[i].offset \in Nat /\ End(slots[i]) \in Nat
    BY <1>3, SlotNumbers
  <2> QED
    BY <1>1, <1>2, <1>5, <2>1 DEF Overlap
<1>8. d.offset + FreedBytes(d) <= totsize
  BY <1>1, <1>2, <1>3, <1>4
<1> QED
  BY <1>1, <1>2, <1>6, <1>7, <1>8 DEF f

\* ... and the slots stay clear of what the lists hold.
LEMMA FreeSlotKeeps ==
  ASSUME Inv, NEW t \in Threads, FreeSlot(t)
  PROVE  /\ SlotsInOrder'
         /\ \A l \in Lists, r \in Bytes :
              Holds(l, r)' => Clear(slots, r) /\ Clear(slots', r)
<1> DEFINE d == lists[no[t]]
<1>0. /\ slots \in Seq(Bytes) /\ Ordered(slots) /\ Inside(slots, totsize)
      /\ totsize \in Nat /\ no[t] \in Lists /\ d \in ListType
  BY Shapes
<1>1. /\ step[t] = "free" /\ totsize' = totsize /\ no'[t] = no[t]
      /\ slots' = Free(slots, d.offset, FreedBytes(d))
  BY DEF FreeSlot, lockVars
<1>2. step'[t] \in Moving /\ (step'[t] \in Placed => call'[t].new.capacity = 0)
  <2>1. /\ call \in [Threads -> [op : {"add", "resize", "read"}, n : Nat,
                                 base : Nat, new : ListType]]
        /\ step \in [Threads -> Steps]
    BY Shapes
  <2> QED
    BY <2>1 DEF FreeSlot, Goto, Moving, Placed, EmptyList
<1>3. Frame(t) /\ StaysPut(t)
  BY FrameHolds, FreeSteps DEF Step
<1>4. ASSUME NEW l \in Lists, NEW r \in Bytes, Holds(l, r)'
      PROVE  Holds(l, r) /\ l # no[t]
  <2>1. Holds(l, r)
    BY <1>3, <1>4, NothingNewHeld
  <2>2. ASSUME l = no[t]
        PROVE  FALSE
    <3>1. Moved(l)'
      BY <1>1, <1>2, <2>2 DEF Moved
    <3>2. PICK u \in Threads : /\ no'[u] = l /\ step'[u] \in Placed
                               /\ call'[u].new.capacity > 0
      BY <1>4, <3>1 DEF Holds
    <3>3. u # t
      BY <1>2, <3>2
    <3>4. no[u] = no[t] /\ step[u] \in Placed
      BY <1>3, <2>2, <3>2, <3>3 DEF Frame
    <3>5. pc[t] \in LL!OwnsLock1
      BY DEF FreeSlot, LL!OwnsLock1, LL!InLock2, LL!OwnsLock2
    <3> QED
      BY <3>3, <3>4, <3>5, AloneOnList DEF Placed
  <2> QED
    BY <2>1, <2>2
<1>5. CASE d.capacity = 0
  <2>1. slots' = slots
    BY <1>1, <1>5 DEF Free, FreedBytes
  <2>2. \A l \in Lists, r \in Bytes : Holds(l, r) => Clear(slots, r)
    BY DEF Inv, StoreInv, BlocksApart
  <2> QED
    BY <1>0, <1>1, <1>4, <2>1, <2>2 DEF SlotsInOrder
<1>6. CASE d.capacity > 0
  <2> DEFINE n == FreedBytes(d)
             f == Slot(d.offset, n)
  <2>1. /\ d.offset \in Nat /\ n \in Nat \ {0} /\ Clear(slots, f)
        /\ d.offset + n <= totsize
        /\ \A r \in Bytes : ~Overlap(Block(d), r) => ~Overlap(f, r)
    BY <1>1, <1>6, FreedIsClear
  <2>2. Holds(no[t], Block(d)) /\ Block(d) \in Bytes
    BY <1>1, <1>6, FreedIsHeld, BlockBytes
  <2> HIDE DEF d
  <2>3. /\ slots' \in Seq(Bytes) /\ Ordered(slots')
        /\ \A r \in Bytes : Clear(slots, r) /\ ~Overlap(f, r)
                            => Clear(slots', r)
        /\ Inside(slots, totsize) /\ d.offset + n <= totsize
             => Inside(slots', totsize)
    <3> HIDE DEF n
    <3> QED
      BY <1>0, <1>1, <2>1, FreeKeeps DEF n
  <2>4. SlotsInOrder'
    BY <1>0, <1>1, <2>1, <2>3 DEF SlotsInOrder
  <2>5. ASSUME NEW l \in Lists, NEW r \in Bytes, Holds(l, r)'
        PROVE  Clear(slots, r) /\ Clear(slots', r)
    <3>1. Holds(l, r) /\ l # no[t]
      BY <1>4, <2>5
    <3>2. Clear(slots, r) /\ ~Overlap(Block(d), r)
      BY <1>0, <2>2, <3>1 DEF Inv, StoreInv, BlocksApart
    <3> QED
      BY <2>1, <2>3, <3>2
  <2> QED
    BY <2>4, <2>5
<1>7. d.capacity = 0 \/ d.capacity > 0
  BY <1>0 DEF ListType
<1> QED
  BY <1>5, <1>6, <1>7

\* ... allocate_slot: the new block is taken from one free slot...
LEMMA AllocateKeeps ==
  ASSUME Inv, NEW t \in Threads, AllocateSlot(t),
         NEW b, b = Block(call'[t].new)
  PROVE  /\ SlotsInOrder'
         /\ b \in Bytes /\ Clear(slots', b) /\ End(b) <= totsize
         /\ call'[t].new.offset \in Nat
         /\ \A r \in Bytes : Clear(slots, r) => Clear(slots', r) /\ ~Overlap(b, r)
<1> DEFINE n == Needed(t)
           i == FirstFit(slots, n)
<1>0. /\ slots \in Seq(Bytes) /\ Ordered(slots) /\ Inside(slots, totsize)
      /\ totsize \in Nat
      /\ call \in [Threads -> [op : {"add", "resize", "read"}, n : Nat,
                               base : Nat, new : ListType]]
  BY Shapes
<1>1. /\ slots' = Take(slots, i, n) /\ Candidates(slots, n) # {}
      /\ call' = [call EXCEPT ![t].new.offset = slots[i].offset]
      /\ totsize' = totsize
  BY DEF AllocateSlot
<1>2. n \in Nat \ {0}
  BY NeededBytes DEF AllocateSlot, Moving, Placed
<1>3. /\ call'[t].new.offset = slots[i].offset
      /\ call'[t].new.capacity = call[t].new.capacity
  BY <1>0, <1>1 DEF ListType
<1>4. b = Slot(slots[i].offset, n)
  BY <1>3 DEF Block, Needed
<1> HIDE DEF n
<1>5. i \in 1..Len(slots) /\ slots[i].capacity >= n
  BY <1>0, <1>1, <1>2, FirstFitFits
<1> HIDE DEF i
<1>6. /\ slots[i].offset \in Nat /\ slots[i].capacity \in Nat
      /\ End(slots[i]) \in Nat
  BY <1>0, <1>5, SlotNumbers
<1>7. /\ slots' \in Seq(Bytes) /\ Ordered(slots')
      /\ Clear(slots', Slot(slots[i].offset, n))
      /\ \A r \in Bytes : Clear(slots, r) => Clear(slots', r)
      /\ \A total \in Nat : Inside(slots, total) => Inside(slots', total)
  <2>1. n <= slots[i].capacity
    BY <1>2, <1>5, <1>6
  <2> QED
    BY <1>0, <1>1, <1>2, <1>5, <2>1, TakeKeeps
<1>8. /\ b \in Bytes /\ b.offset = slots[i].offset
      /\ End(b) = slots[i].offset + n
  BY <1>2, <1>4, <1>6 DEF Slot, Bytes, End
<1>9. End(b) <= totsize
  <2>1. End(slots[i]) <= totsize /\ End(slots[i]) = slots[i].offset + slots[i].capacity
    BY <1>0, <1>5 DEF Inside, End
  <2> QED
    BY <1>0, <1>2, <1>5, <1>6, <1>8, <2>1
<1>10. ASSUME NEW r \in Bytes, Clear(slots, r)
       PROVE  ~Overlap(b, r)
  <2>1. ~Overlap(slots[i], r) /\ r.offset \in Nat /\ End(r) \in Nat
    BY <1>5, <1>10 DEF Clear, Bytes, End
  <2>2. End(slots[i]) = slots[i].offset + slots[i].capacity
    BY DEF End
  <2> QED
    BY <1>2, <1>5, <1>6, <1>8, <2>1, <2>2 DEF Overlap
<1> QED
  BY <1>0, <1>1, <1>3, <1>4, <1>6, <1>7, <1>8, <1>9, <1>10 DEF SlotsInOrder

\* ... so only the list of the thread holds something new...
LEMMA AllocateHolds ==
  ASSUME Inv, NEW t \in Threads, AllocateSlot(t),
         NEW l \in Lists, NEW r, Holds(l, r)'
  PROVE  Holds(l, r) \/ (l = no[t] /\ r = Block(call'[t].new))
<1>0. /\ step \in [Threads -> Steps] /\ Frame(t)
  BY Shapes, FrameHolds DEF Step
<1>1. /\ lists' = lists /\ no' = no /\ step'[t] \in Moving /\ step[t] \in Moving
  BY <1>0 DEF AllocateSlot, lockVars, Goto, Moving
<1>2. Block(lists[l])' = Block(lists[l])
  BY <1>1 DEF Block
<1>3. CASE ~Moved(l)' /\ lists'[l].capacity > 0 /\ r = Block(lists'[l])
  <2>1. ~Moved(l)
    BY <1>0, <1>1, <1>3 DEF Moved, Frame
  <2> QED
    BY <1>1, <1>3, <2>1 DEF Holds
<1>4. CASE \E u \in Threads : /\ no'[u] = l /\ step'[u] \in Placed
                              /\ call'[u].new.capacity > 0
                              /\ r = Block(call'[u].new)
  <2>1. PICK u \in Threads : /\ no'[u] = l /\ step'[u] \in Placed
                             /\ call'[u].new.capacity > 0
                             /\ r = Block(call'[u].new)
    BY <1>4
  <2>2. CASE u = t
    BY <1>1, <2>1, <2>2
  <2>3. CASE u # t
    <3>1. no[u] = l /\ step[u] \in Placed /\ call'[u] = call[u]
      BY <1>0, <2>1, <2>3 DEF Frame
    <3> QED
      BY <2>1, <3>1 DEF Holds
  <2> QED
    BY <2>2, <2>3
<1> QED
  BY <1>3, <1>4 DEF Holds, Block

\* ... and the assignment that publishes the new block: the list holds what
\* the thread placed.
LEMMA PublishHolds ==
  ASSUME Inv, NEW t \in Threads, Publish(t),
         NEW l \in Lists, NEW r, Holds(l, r)'
  PROVE  Holds(l, r)
<1>0. /\ step \in [Threads -> Steps] /\ Frame(t) /\ LL!TypeOK
      /\ lists \in [Lists -> ListType] /\ no \in [Threads -> Lists]
  BY Shapes, FrameHolds DEF Step
<1>1. /\ step[t] = "publish" /\ lists' = [lists EXCEPT ![no[t]] = call[t].new]
      /\ no' = no /\ step'[t] \notin Moving
  BY <1>0, MethodsMove DEF Publish, Goto, AfterResize, Moving
<1>2. CASE ~Moved(l)' /\ lists'[l].capacity > 0 /\ r = Block(lists'[l])
  <2>1. CASE l = no[t]
    <3>1. lists'[l] = call[t].new
      BY <1>0, <1>1, <2>1
    <3> QED
      BY <1>1, <1>2, <2>1, <3>1 DEF Holds, Placed
  <2>2. CASE l # no[t]
    <3>1. lists'[l] = lists[l] /\ ~Moved(l)
      BY <1>0, <1>1, <1>2, <2>2 DEF Moved, Frame
    <3> QED
      BY <1>2, <3>1 DEF Holds
  <2> QED
    BY <2>1, <2>2
<1>3. CASE \E u \in Threads : /\ no'[u] = l /\ step'[u] \in Placed
                              /\ call'[u].new.capacity > 0
                              /\ r = Block(call'[u].new)
  <2>1. PICK u \in Threads : /\ no'[u] = l /\ step'[u] \in Placed
                             /\ call'[u].new.capacity > 0
                             /\ r = Block(call'[u].new)
    BY <1>3
  <2>2. u # t
    BY <1>1, <2>1 DEF Placed, Moving
  <2>3. no[u] = l /\ step[u] \in Placed /\ call'[u] = call[u]
    BY <1>0, <2>1, <2>2 DEF Frame
  <2> QED
    BY <2>1, <2>3 DEF Holds
<1> QED
  BY <1>2, <1>3 DEF Holds, Block

\* No step hands out a byte twice.
LEMMA SpacePreserved ==
  ASSUME Inv, NEW t \in Threads,
         \/ \E l \in Lists, c \in Calls : Begin(t, l, c)
         \/ Step(t) \/ Spurious(t)
  PROVE  SlotsInOrder' /\ BlocksApart' /\ totsize' \in Nat
<1>0. /\ SlotsInOrder /\ BlocksApart /\ totsize \in Nat /\ no[t] \in Lists
      /\ Frame(t)
  BY Shapes, FrameHolds DEF Inv, StoreInv
<1>1. ASSUME StaysPut(t), slots' = slots, totsize' = totsize
      PROVE  SlotsInOrder' /\ BlocksApart' /\ totsize' \in Nat
  <2>1. SlotsInOrder'
    BY <1>0, <1>1 DEF SlotsInOrder
  <2>2. \A l \in Lists : \A r : Holds(l, r)' => Holds(l, r)
    BY <1>0, <1>1, NothingNewHeld
  <2>3. BlocksApart'
    BY <1>0, <1>1, <2>2 DEF BlocksApart
  <2> QED
    BY <1>0, <1>1, <2>1, <2>3
<1>2. CASE Grows(t)
  <2>1. StaysPut(t)
    BY <1>2, GrowthSteps DEF Grows
  <2>2. /\ SlotsInOrder' /\ totsize' \in Nat /\ totsize <= totsize'
        /\ \A r \in Bytes : End(r) <= totsize /\ Clear(slots, r)
                            => Clear(slots', r)
    BY <1>2, GrowthKeeps
  <2>3. \A l \in Lists : \A r : Holds(l, r)' => Holds(l, r)
    BY <1>0, <2>1, NothingNewHeld
  <2>4. ASSUME NEW l \in Lists, NEW r \in Bytes, Holds(l, r)'
        PROVE  Clear(slots', r) /\ End(r) <= totsize'
    <3>1. Clear(slots, r) /\ End(r) <= totsize
      BY <1>0, <2>3, <2>4 DEF BlocksApart
    <3>2. End(r) \in Nat
      BY DEF Bytes, End
    <3> QED
      BY <1>0, <2>2, <3>1, <3>2
  <2>5. BlocksApart'
    BY <1>0, <2>3, <2>4 DEF BlocksApart
  <2> QED
    BY <2>2, <2>5
<1>3. CASE FreeSlot(t)
  <2>1. StaysPut(t) /\ totsize' = totsize
    BY <1>3, FreeSteps
  <2>2. /\ SlotsInOrder'
        /\ \A l \in Lists, r \in Bytes : Holds(l, r)' => Clear(slots', r)
    BY <1>3, FreeSlotKeeps
  <2>3. \A l \in Lists : \A r : Holds(l, r)' => Holds(l, r)
    BY <1>0, <2>1, NothingNewHeld
  <2>4. BlocksApart'
    BY <1>0, <2>1, <2>2, <2>3 DEF BlocksApart
  <2> QED
    BY <1>0, <2>1, <2>2, <2>4
<1>4. CASE AllocateSlot(t)
  <2> DEFINE b == Block(call'[t].new)
  <2>1. totsize' = totsize
    BY <1>4 DEF AllocateSlot
  <2>2. /\ SlotsInOrder'
        /\ b \in Bytes /\ Clear(slots', b) /\ End(b) <= totsize
        /\ \A r \in Bytes : Clear(slots, r) =>
             Clear(slots', r) /\ ~Overlap(b, r)
    BY <1>4, AllocateKeeps
  <2>3. \A l \in Lists : \A r :
          Holds(l, r)' => Holds(l, r) \/ (l = no[t] /\ r = b)
    BY <1>4, AllocateHolds
  <2> HIDE DEF b
  <2>4. \A l \in Lists, r \in Bytes :
          Holds(l, r) => Clear(slots, r) /\ End(r) <= totsize
    BY <1>0 DEF BlocksApart
  <2>5. ASSUME NEW l \in Lists, NEW m \in Lists, NEW r \in Bytes, NEW q \in Bytes,
               Holds(l, r)', Holds(m, q)', l # m
        PROVE  ~Overlap(r, q)
    <3>1. CASE Holds(l, r) /\ Holds(m, q)
      BY <1>0, <2>5, <3>1 DEF BlocksApart
    <3>2. CASE l = no[t] /\ r = b
      BY <2>2, <2>3, <2>4, <2>5, <3>2
    <3>3. CASE m = no[t] /\ q = b
      <4>1. ~Overlap(b, r)
        BY <2>2, <2>3, <2>4, <2>5, <3>3
      <4> QED
        BY <3>3, <4>1 DEF Overlap
    <3> QED
      BY <2>3, <2>5, <3>1, <3>2, <3>3
  <2>6. \A l \in Lists, r \in Bytes :
          Holds(l, r)' => Clear(slots', r) /\ End(r) <= totsize'
    BY <2>1, <2>2, <2>3, <2>4
  <2>7. BlocksApart'
    BY <2>5, <2>6 DEF BlocksApart
  <2> QED
    BY <1>0, <2>1, <2>2, <2>7
<1>5. CASE Publish(t)
  <2>1. slots' = slots /\ totsize' = totsize
    BY <1>5 DEF Publish, space
  <2>2. \A l \in Lists : \A r : Holds(l, r)' => Holds(l, r)
    BY <1>5, PublishHolds
  <2>3. SlotsInOrder' /\ BlocksApart'
    BY <1>0, <2>1, <2>2 DEF SlotsInOrder, BlocksApart
  <2> QED
    BY <1>0, <2>1, <2>3
<1>6. CASE Remap(t) \/ RemapThrows(t)
  BY <1>1, <1>2, <1>6, GrowthSteps
<1> QED
  BY <1>1, <1>3, <1>4, <1>5, <1>6, QuietSteps DEF Step

-----------------------------------------------------------------------------
(* Lists and calls                                                         *)

\* What resize_locked makes of the entries.
LEMMA ResizedEntries ==
  ASSUME NEW c \in Seq(Nat), NEW n \in Nat
  PROVE  Resized(c, n) \in Seq(Nat) /\ Len(Resized(c, n)) = n
<1>1. \A j \in 1..n : (IF j <= Len(c) THEN c[j] ELSE 0) \in Nat
  BY LenProperties, ElementOfSeq
<1> QED
  BY <1>1 DEF Resized

\* The size a call asks for.
LEMMA NewSizeNat ==
  ASSUME Inv, NEW t \in Threads
  PROVE  /\ NewSize(t) \in Nat
         /\ call[t].op = "add" =>
              /\ call[t].n \in Nat \ {0}
              /\ NewSize(t) = lists[no[t]].size + call[t].n
<1>1. /\ lists[no[t]].size \in Nat /\ call[t].n \in Nat
  BY Shapes DEF ListType
<1>2. call[t].op = "add" => call[t].n \in Nat \ {0}
  BY OnDiskAssumption DEF Inv, StoreInv, CallsInOrder, CallInOrder
<1> QED
  BY <1>1, <1>2 DEF NewSize

\* A list fits in its block before and after every call.
LEMMA ListsInOrderPreserved ==
  ASSUME Inv, NEW t \in Threads,
         \/ \E l \in Lists, c \in Calls : Begin(t, l, c)
         \/ Step(t) \/ Spurious(t)
  PROVE  ListsInOrder' /\ lists' \in [Lists -> ListType]
           /\ content' \in [Lists -> Seq(Nat)] /\ added' \in [Lists -> Nat]
<1>0. /\ lists \in [Lists -> ListType] /\ content \in [Lists -> Seq(Nat)]
      /\ added \in [Lists -> Nat] /\ no[t] \in Lists
      /\ ListsInOrder
      /\ call \in [Threads -> [op : {"add", "resize", "read"}, n : Nat,
                               base : Nat, new : ListType]]
  BY Shapes DEF Inv, StoreInv
<1>1. CASE ResizeInPlace(t)
  <2> DEFINE n == NewSize(t)
             l == no[t]
  <2>1. n \in Nat
    BY NewSizeNat
  <2>2. /\ n <= lists[l].capacity
        /\ lists' = [lists EXCEPT ![l].size = n]
        /\ content' = [content EXCEPT ![l] = Resized(@, n)]
        /\ added' = added
    BY <1>1 DEF ResizeInPlace, FitsInPlace
  <2> HIDE DEF n
  <2>3. Resized(content[l], n) \in Seq(Nat) /\ Len(Resized(content[l], n)) = n
    BY <1>0, <2>1, ResizedEntries
  <2>4. lists' \in [Lists -> ListType] /\ content' \in [Lists -> Seq(Nat)]
    BY <1>0, <2>1, <2>2, <2>3 DEF ListType
  <2>5. ASSUME NEW k \in Lists
        PROVE  Fits(lists'[k]) /\ Len(content'[k]) = lists'[k].size
    <3>1. CASE k = l
      BY <1>0, <2>1, <2>2, <2>3, <3>1 DEF ListsInOrder, Fits, ListType
    <3>2. CASE k # l
      BY <1>0, <2>2, <3>2 DEF ListsInOrder
    <3> QED
      BY <3>1, <3>2
  <2> QED
    BY <1>0, <2>2, <2>4, <2>5 DEF ListsInOrder
<1>2. CASE Publish(t)
  <2> DEFINE new == call[t].new
             l == no[t]
  <2>1. new \in ListType /\ Fits(new) /\ new.size \in Nat
    BY <1>0, <1>2
       DEF Inv, StoreInv, CallsInOrder, CallInOrder, Publish, Placed, ListType
  <2>2. /\ lists' = [lists EXCEPT ![l] = new]
        /\ content' = [content EXCEPT ![l] = Resized(@, new.size)]
        /\ added' = added
    BY <1>2 DEF Publish
  <2> HIDE DEF new
  <2>3. /\ Resized(content[l], new.size) \in Seq(Nat)
        /\ Len(Resized(content[l], new.size)) = new.size
    BY <1>0, <2>1, ResizedEntries
  <2>4. lists' \in [Lists -> ListType] /\ content' \in [Lists -> Seq(Nat)]
    BY <1>0, <2>1, <2>2, <2>3
  <2>5. ASSUME NEW k \in Lists
        PROVE  Fits(lists'[k]) /\ Len(content'[k]) = lists'[k].size
    BY <1>0, <2>1, <2>2, <2>3 DEF ListsInOrder
  <2> QED
    BY <1>0, <2>2, <2>4, <2>5 DEF ListsInOrder
<1>3. CASE WriteCodes(t)
  <2> DEFINE l == no[t]
             first == lists[l].size - call[t].n
             c == content[l]
             d == [j \in DOMAIN c |-> IF j > first THEN Serial(t, j - 1)
                                                   ELSE c[j]]
  <2>1. /\ call[t].n \in Nat /\ lists[l].size \in Nat /\ call[t].n <= lists[l].size
        /\ added[l] \in Nat
    BY <1>0, <1>3 DEF Inv, StoreInv, CallsInOrder, CallInOrder, WriteCodes,
                      Adding, ListType
  <2>2. /\ lists' = lists
        /\ content' = [content EXCEPT ![l] = d]
        /\ added' = [added EXCEPT ![l] = @ + call[t].n]
    BY <1>3 DEF WriteCodes
  <2>3. c \in Seq(Nat) /\ Len(c) \in Nat /\ DOMAIN c = 1..Len(c)
        /\ \A j \in 1..Len(c) : c[j] \in Nat
    BY <1>0, LenProperties, ElementOfSeq
  <2>4. ASSUME NEW j \in 1..Len(c), j > first
        PROVE  Serial(t, j - 1) \in Nat
    <3>1. Serial(t, j - 1) = added[l] + 1 + (j - 1) - (lists[l].size - call[t].n)
      BY DEF Serial
    <3>2. j \in Nat /\ j >= 1
      BY <2>3
    <3> HIDE DEF l, c, d
    <3> QED
      BY <2>1, <2>4, <3>1, <3>2
  <2>5. d \in Seq(Nat) /\ Len(d) = Len(c)
    BY <2>1, <2>3, <2>4
  <2> HIDE DEF d
  <2>6. content' \in [Lists -> Seq(Nat)] /\ added' \in [Lists -> Nat]
    BY <1>0, <2>1, <2>2, <2>5
  <2>7. ASSUME NEW k \in Lists
        PROVE  Fits(lists'[k]) /\ Len(content'[k]) = lists'[k].size
    BY <1>0, <2>2, <2>5 DEF ListsInOrder
  <2> QED
    BY <1>0, <2>2, <2>6, <2>7 DEF ListsInOrder
<1>4. CASE \/ \E l \in Lists, c \in Calls : Begin(t, l, c)
           \/ Spurious(t) \/ Waiting(t) \/ LockSlots(t)
           \/ FreeSlot(t) \/ AllocateSlot(t) \/ LockRemap(t)
           \/ Unmap(t) \/ Remap(t) \/ RemapThrows(t) \/ UnlockRemap(t)
           \/ CopyCommon(t) \/ GetIds(t) \/ WriteIds(t)
           \/ GetList(t) \/ ReadList(t) \/ Return(t)
  <2>1. lists' = lists /\ content' = content /\ added' = added
    BY <1>4 DEF Begin, Spurious, Waiting, LockSlots, FreeSlot, AllocateSlot,
                LockRemap, Unmap, Remap, RemapThrows, UnlockRemap, CopyCommon,
                GetIds, WriteIds, GetList, ReadList, Return, ghosts
  <2> QED
    BY <1>0, <2>1 DEF ListsInOrder
<1> QED
  BY <1>1, <1>2, <1>3, <1>4 DEF Step

\* The calls of the other threads stay as they are.
LEMMA OtherCallsInOrder ==
  ASSUME Inv, NEW t \in Threads, Frame(t), NEW u \in Threads \ {t}
  PROVE  CallInOrder(u)'
<1>1. /\ step'[u] = step[u] /\ call'[u] = call[u] /\ no'[u] = no[u]
      /\ pc[u] \in LL!OwnsLock1 => lists'[no[u]] = lists[no[u]]
      /\ pc[u] \in LL!OwnsLock2 => slots' = slots
      /\ pc[u] = "held1" => ptr' = ptr
  BY DEF Frame
<1>2. CallInOrder(u) /\ pc[u] \in LockAt(step[u])
  BY DEF Inv, StoreInv, CallsInOrder, StepFollowsLock
<1>3. /\ step[u] \in Adding \cup {"read"} \cup Moving => pc[u] \in LL!OwnsLock1
      /\ step[u] \in {"remapped", "reallocate"} => pc[u] \in LL!OwnsLock2
      /\ step[u] \in UsingPointer => pc[u] = "held1"
  BY <1>2 DEF LockAt, Adding, Moving, UsingPointer, LL!OwnsLock1, LL!InLock2,
              LL!OwnsLock2, LL!InLock3
<1>4. /\ call'[u].op = "add" => call'[u].n \in AddSizes
      /\ step'[u] \in Adding =>
           call'[u].op = "add" /\ call'[u].n <= lists'[no'[u]].size
      /\ step'[u] = "read" => lists'[no'[u]].size > 0
      /\ step'[u] \in {"free"} \cup Moving => call'[u].op # "read"
      /\ step'[u] \in Placed => Fits(call'[u].new)
  BY <1>1, <1>2, <1>3 DEF CallInOrder
<1>5. step'[u] \in Moving =>
        /\ call'[u].new.size = NewSize(u)'
        /\ call'[u].new.size <= call'[u].new.capacity
        /\ step'[u] \notin Placed => call'[u].new.capacity > 0
  BY <1>1, <1>2, <1>3 DEF CallInOrder, NewSize
<1>6. step'[u] \in {"remapped", "reallocate"} =>
        Candidates(slots', Needed(u)') # {}
  BY <1>1, <1>2, <1>3 DEF CallInOrder, Needed
<1>7. step'[u] \in UsingPointer => call'[u].base = ptr'
  BY <1>1, <1>2, <1>3 DEF CallInOrder
<1> QED
  BY <1>4, <1>5, <1>6, <1>7 DEF CallInOrder

\* The type of the calls.
CallType == [op : {"add", "resize", "read"}, n : Nat, base : Nat, new : ListType]

\* The call of the thread that takes the step.
LEMMA OwnCallInOrder ==
  ASSUME Inv, NEW t \in Threads,
         \/ \E l \in Lists, c \in Calls : Begin(t, l, c)
         \/ Step(t) \/ Spurious(t)
  PROVE  CallInOrder(t)' /\ call' \in [Threads -> CallType]
<1> USE DEF Adding, UsingPointer, Moving, Placed
<1>0. /\ call \in [Threads -> CallType] /\ step \in [Threads -> Steps]
      /\ lists \in [Lists -> ListType] /\ no \in [Threads -> Lists]
      /\ slots \in Seq(Bytes) /\ LL!TypeOK /\ ptr \in Nat
      /\ CallInOrder(t)
  BY Shapes DEF Inv, StoreInv, CallsInOrder, CallType
<1>1. CASE \E l \in Lists, c \in Calls : Begin(t, l, c)
  <2>1. PICK l \in Lists, c \in Calls : Begin(t, l, c)
    BY <1>1
  <2>2. /\ c[1] \in {"add", "resize", "read"} /\ c[2] \in Nat
        /\ c[1] = "add" => c[2] \in AddSizes
    BY OnDiskAssumption DEF Calls
  <2>3. /\ call' = [call EXCEPT ![t].op = c[1], ![t].n = c[2]]
        /\ step'[t] = "start"
    BY <1>0, <2>1 DEF Begin, Goto
  <2>4. call' \in [Threads -> CallType]
    BY <1>0, <2>2, <2>3 DEF CallType
  <2>5. call'[t].op = c[1] /\ call'[t].n = c[2]
    BY <1>0, <2>3 DEF CallType
  <2> QED
    BY <2>2, <2>3, <2>4, <2>5 DEF CallInOrder
<1>2. CASE \/ Waiting(t) \/ Spurious(t) \/ LockSlots(t) \/ LockRemap(t)
           \/ Unmap(t) \/ UnlockRemap(t)
  <2>1. no' = no
    BY <1>0, <1>2, MethodsMove DEF Waiting, Spurious, LockSlots, LockRemap,
                                   Unmap, UnlockRemap, lockVars
  <2>2. call' = call /\ lists' = lists /\ slots' = slots /\ ptr' = ptr
    BY <1>2 DEF Waiting, Spurious, LockSlots, LockRemap, Unmap, UnlockRemap, space
  <2>3. \/ step' = step
        \/ step[t] = "start" /\ step'[t] = "free" /\ call[t].op # "read"
        \/ step[t] = "allocate" /\ step'[t] = "unmap"
        \/ step[t] = "unmap" /\ step'[t] = "remap"
        \/ step[t] = "remapped" /\ step'[t] = "reallocate"
    BY <1>0, <1>2 DEF Waiting, Spurious, LockSlots, LockRemap, Unmap,
                      UnlockRemap, Goto
  <2> QED
    BY <1>0, <2>1, <2>2, <2>3 DEF CallInOrder, NewSize, Needed
<1>3. CASE ResizeInPlace(t)
  <2>1. /\ call' = call /\ no' = no
        /\ lists' = [lists EXCEPT ![no[t]].size = NewSize(t)]
        /\ step'[t] = AfterResize(t)
    BY <1>0, <1>3 DEF ResizeInPlace, Goto, lockVars
  <2>2. lists'[no[t]].size = NewSize(t)
    BY <1>0, <2>1 DEF ListType
  <2>3. call[t].op = "add" => call[t].n <= NewSize(t)
    <3>1. lists[no[t]].size \in Nat /\ call[t].n \in Nat
      BY <1>0 DEF ListType, CallType
    <3> QED
      BY <3>1 DEF NewSize
  <2> QED
    BY <1>0, <2>1, <2>2, <2>3 DEF CallInOrder, AfterResize
<1>4. CASE FreeSlot(t)
  <2> DEFINE n == NewSize(t)
             new == IF n = 0 THEN EmptyList
                    ELSE [size |-> n, capacity |-> PowerOfTwo(n),
                          offset |-> InvalidOffset]
  <2>1. /\ call' = [call EXCEPT ![t].new = new]
        /\ step'[t] = IF n = 0 THEN "copy" ELSE "allocate"
        /\ lists' = lists /\ no' = no /\ step[t] = "free"
    BY <1>0, <1>4 DEF FreeSlot, Goto, lockVars
  <2>2. n \in Nat
    BY NewSizeNat
  <2> HIDE DEF n
  <2>3. PowerOfTwo(n) \in Nat \ {0} /\ n <= PowerOfTwo(n)
    BY <2>2, NewSizes
  <2>4. /\ new \in ListType /\ new.size = n /\ new.size <= new.capacity
        /\ n = 0 => Fits(new)
        /\ n # 0 => new.capacity > 0
    BY <2>2, <2>3 DEF ListType, EmptyList, InvalidOffset, Fits
  <2> HIDE DEF new
  <2>5. call' \in [Threads -> CallType] /\ call'[t].new = new
        /\ call'[t].op = call[t].op /\ call'[t].n = call[t].n
    BY <1>0, <2>1, <2>4 DEF CallType
  <2>6. NewSize(t)' = n
    BY <2>1, <2>5 DEF NewSize, n
  <2> QED
    BY <1>0, <2>1, <2>4, <2>5, <2>6 DEF CallInOrder
<1>5. CASE AllocateSlot(t)
  <2> DEFINE o == slots[FirstFit(slots, Needed(t))].offset
  <2>1. /\ call' = [call EXCEPT ![t].new.offset = o]
        /\ step'[t] = "copy" /\ lists' = lists /\ no' = no
        /\ step[t] \in {"allocate", "reallocate"}
    BY <1>0, <1>5 DEF AllocateSlot, Goto, lockVars
  <2> HIDE DEF o
  <2>2. call'[t].new.offset = o
    BY <1>0, <2>1 DEF CallType, ListType
  <2>3. o \in Nat
    BY <1>5, <2>2, AllocateKeeps
  <2> DEFINE new == [call[t].new EXCEPT !.offset = o]
  <2>6. call[t] \in CallType /\ call[t].new \in ListType
    BY <1>0 DEF CallType
  <2>7. /\ new \in ListType /\ new.size = call[t].new.size
        /\ new.capacity = call[t].new.capacity
    BY <2>3, <2>6 DEF ListType
  <2>8. call' = [call EXCEPT ![t] = [call[t] EXCEPT !.new = new]]
    BY <2>1
  <2> HIDE DEF new
  <2>4. /\ call' \in [Threads -> CallType]
        /\ call'[t].new.size = call[t].new.size
        /\ call'[t].new.capacity = call[t].new.capacity
        /\ call'[t].op = call[t].op /\ call'[t].n = call[t].n
    BY <1>0, <2>6, <2>7, <2>8 DEF CallType
  <2>5. NewSize(t)' = NewSize(t)
    BY <2>1, <2>4 DEF NewSize
  <2> QED
    BY <1>0, <2>1, <2>2, <2>3, <2>4, <2>5 DEF CallInOrder, Fits
<1>6. CASE Remap(t) \/ RemapThrows(t)
  <2>1. /\ call' = call /\ lists' = lists /\ no' = no
        /\ step[t] \in {"unmap", "remap"} /\ step'[t] \in {"remapped", "thrown"}
        /\ step'[t] = "remapped" => Grows(t)
    BY <1>0, <1>6 DEF Remap, RemapThrows, Goto, lockVars, Grows
  <2>2. step'[t] = "remapped" => Candidates(slots', Needed(t)) # {}
    BY <2>1, GrowthKeeps
  <2> QED
    BY <1>0, <2>1, <2>2 DEF CallInOrder, NewSize, Needed
<1>7. CASE CopyCommon(t)
  <2>1. /\ call' = call /\ lists' = lists /\ no' = no
        /\ step[t] = "copy" /\ step'[t] = "publish"
    BY <1>0, <1>7 DEF CopyCommon, Goto, lockVars
  <2> QED
    BY <1>0, <2>1 DEF CallInOrder, NewSize
<1>8. CASE Publish(t)
  <2>1. /\ call' = call /\ no' = no /\ step[t] = "publish"
        /\ lists' = [lists EXCEPT ![no[t]] = call[t].new]
        /\ step'[t] = AfterResize(t)
    BY <1>0, <1>8, MethodsMove DEF Publish, Goto
  <2>2. lists'[no[t]].size = NewSize(t)
    BY <1>0, <2>1 DEF CallInOrder
  <2>3. call[t].op = "add" => call[t].n <= NewSize(t)
    <3>1. lists[no[t]].size \in Nat /\ call[t].n \in Nat
      BY <1>0 DEF ListType, CallType
    <3> QED
      BY <3>1 DEF NewSize
  <2> QED
    BY <1>0, <2>1, <2>2, <2>3 DEF CallInOrder, AfterResize
<1>9. CASE GetIds(t) \/ WriteIds(t) \/ GetList(t)
  <2>1. /\ call' = [call EXCEPT ![t].base = ptr] /\ lists' = lists /\ no' = no
        /\ ptr' = ptr
        /\ \/ step[t] = "get_ids" /\ step'[t] = "write_ids"
           \/ step[t] = "write_ids" /\ step'[t] = "write_codes"
           \/ step'[t] = "read" /\ lists[no[t]].size > 0
           \/ step'[t] = "done"
    BY <1>0, <1>9 DEF GetIds, WriteIds, GetList, Goto, lockVars, space
  <2>2. /\ call' \in [Threads -> CallType] /\ call'[t].base = ptr
        /\ call'[t].op = call[t].op /\ call'[t].n = call[t].n
    BY <1>0, <2>1 DEF CallType
  <2> QED
    BY <1>0, <2>1, <2>2 DEF CallInOrder
<1>10. CASE WriteCodes(t) \/ ReadList(t) \/ Return(t)
  <2>1. call' = call /\ step'[t] \in {"done", "ready"}
    BY <1>0, <1>10 DEF WriteCodes, ReadList, Return, Goto
  <2> QED
    BY <1>0, <2>1 DEF CallInOrder
<1> QED
  BY <1>1, <1>2, <1>3, <1>4, <1>5, <1>6, <1>7, <1>8, <1>9, <1>10 DEF Step

\* Without a mapping, a thread remaps, has thrown, or nothing is there yet.
LEMMA UnmappedPreserved ==
  ASSUME Inv, NEW t \in Threads,
         \/ \E l \in Lists, c \in Calls : Begin(t, l, c)
         \/ Step(t) \/ Spurious(t)
  PROVE  Unmapped' /\ mapped' \in BOOLEAN /\ ptr' \in Nat
<1> DEFINE Remapping == \E u \in Threads : step[u] \in {"remap", "thrown"}
           Fresh == /\ slots = <<>>
                    /\ \A l \in Lists : lists[l].capacity = 0
                    /\ \A u \in Threads :
                         step[u] \in Placed => call[u].new.capacity = 0
<1>0. /\ call \in [Threads -> CallType] /\ step \in [Threads -> Steps]
      /\ lists \in [Lists -> ListType] /\ no \in [Threads -> Lists]
      /\ slots \in Seq(Bytes) /\ LL!TypeOK /\ ptr \in Nat /\ mapped \in BOOLEAN
      /\ Unmapped /\ Frame(t)
  BY Shapes, FrameHolds DEF Inv, StoreInv, CallType
<1>1. CASE Remap(t)
  BY <1>0, <1>1 DEF Remap, Unmapped
<1>2. CASE Unmap(t) \/ RemapThrows(t)
  <2>1. step'[t] \in {"remap", "thrown"}
    BY <1>0, <1>2 DEF Unmap, RemapThrows, Goto
  <2>2. mapped' \in BOOLEAN /\ ptr' = ptr
    BY <1>0, <1>2 DEF Unmap, RemapThrows
  <2> QED
    BY <1>0, <2>1, <2>2 DEF Unmapped
<1>3. ASSUME ~Remap(t), ~Unmap(t), ~RemapThrows(t)
      PROVE  Unmapped' /\ mapped' \in BOOLEAN /\ ptr' \in Nat
  <2>1. mapped' = mapped /\ ptr' = ptr
    BY <1>3 DEF Step, Begin, Spurious, Waiting, ResizeInPlace, LockSlots,
                FreeSlot, AllocateSlot, LockRemap, UnlockRemap, CopyCommon,
                Publish, GetIds, WriteIds, WriteCodes, GetList, ReadList,
                Return, space
  <2>2. Remapping => Remapping'
    <3>1. step[t] \in {"remap", "thrown"} => step' = step
      BY <1>3 DEF Step, Begin, Spurious, Waiting, ResizeInPlace, LockSlots,
                  FreeSlot, AllocateSlot, LockRemap, UnlockRemap, CopyCommon,
                  Publish, GetIds, WriteIds, WriteCodes, GetList, ReadList,
                  Return
    <3> QED
      BY <1>0, <3>1 DEF Frame
  <2>3. ASSUME Fresh
        PROVE  Fresh'
    <3>0. \A u \in Threads \ {t} :
            step'[u] \in Placed => call'[u].new.capacity = 0
      BY <1>0, <2>3 DEF Frame
    <3>1. CASE \/ \E l \in Lists, c \in Calls : Begin(t, l, c)
               \/ Spurious(t) \/ Waiting(t) \/ LockSlots(t)
               \/ LockRemap(t) \/ UnlockRemap(t) \/ CopyCommon(t)
               \/ GetIds(t) \/ WriteIds(t) \/ WriteCodes(t)
               \/ GetList(t) \/ ReadList(t) \/ Return(t)
      <4>1. slots' = slots /\ lists' = lists
        BY <3>1 DEF Begin, Spurious, Waiting, LockSlots, LockRemap, UnlockRemap,
                    CopyCommon, GetIds, WriteIds, WriteCodes, GetList, ReadList,
                    Return, space
      <4>2. StaysPut(t)
        BY <3>1, QuietSteps
      <4>3. step'[t] \in Placed => call'[t].new.capacity = 0
        <5> SUFFICES ASSUME step'[t] \in Placed, call'[t].new.capacity # 0
                     PROVE  FALSE
          OBVIOUS
        <5>1. call' \in [Threads -> CallType]
          BY OwnCallInOrder
        <5>2. call'[t].new.capacity > 0
          BY <5>1 DEF CallType, ListType
        <5> QED
          BY <2>3, <4>2, <5>2 DEF StaysPut
      <4> QED
        BY <2>3, <3>0, <4>1, <4>3
    <3>2. CASE ResizeInPlace(t)
      <4>1. lists[no[t]].capacity = 0 /\ NewSize(t) \in Nat
        BY <1>0, <2>3, NewSizeNat
      <4>2. ~FitsInPlace(lists[no[t]], NewSize(t))
        BY <4>1 DEF FitsInPlace
      <4> QED
        BY <3>2, <4>2 DEF ResizeInPlace
    <3>3. CASE FreeSlot(t)
      <4>1. slots' = slots
        BY <1>0, <2>3, <3>3 DEF FreeSlot, Free, FreedBytes
      <4>2. lists' = lists
        BY <3>3 DEF FreeSlot
      <4>3. step'[t] \in Placed => call'[t].new = EmptyList
        BY <1>0, <3>3 DEF FreeSlot, Goto, Placed, CallType
      <4> QED
        BY <2>3, <3>0, <4>1, <4>2, <4>3 DEF EmptyList
    <3>4. CASE AllocateSlot(t)
      <4>1. Candidates(slots, Needed(t)) = {}
        BY <2>3 DEF Candidates
      <4> QED
        BY <3>4, <4>1 DEF AllocateSlot
    <3>5. CASE Publish(t)
      <4>1. /\ slots' = slots /\ call' = call
            /\ lists' = [lists EXCEPT ![no[t]] = call[t].new]
            /\ step[t] \in Placed /\ step'[t] \notin Placed
        BY <1>0, <3>5 DEF Publish, Goto, AfterResize, space, Placed
      <4> QED
        BY <1>0, <2>3, <3>0, <4>1
    <3> QED
      BY <1>3, <3>1, <3>2, <3>3, <3>4, <3>5 DEF Step
  <2> HIDE DEF Remapping, Fresh
  <2>4. ~mapped => Remapping \/ Fresh
    BY <1>0 DEF Unmapped, Remapping, Fresh
  <2>5. ~mapped' => Remapping' \/ Fresh'
    BY <2>1, <2>2, <2>3, <2>4
  <2>6. Unmapped'
    BY <2>5 DEF Unmapped, Remapping, Fresh
  <2> QED
    BY <1>0, <2>1, <2>6
<1> QED
  BY <1>1, <1>2, <1>3

\* The objects of the file: a copy keeps what they are, and moves them to
\* places in the file.
LEMMA MemcpyObjects ==
  ASSUME NEW f \in SUBSET Object, NEW to \in Nat, NEW from \in Nat, NEW n \in Nat,
         NEW g \in Memcpy(f, to, from, n)
  PROVE  g \in SUBSET Object
<1> DEFINE image == {[x EXCEPT !.offset = @ - from + to] :
                       x \in {y \in f : y.offset >= from /\ End(y) <= from + n}}
<1>1. image \subseteq Object
  <2>1. ASSUME NEW x \in f, x.offset >= from
        PROVE  [x EXCEPT !.offset = @ - from + to] \in Object
    <3>1. x \in Object
      OBVIOUS
    <3>2. x.offset \in Nat /\ x.offset - from + to \in Nat
      BY <2>1, <3>1 DEF Object
    <3> QED
      BY <3>1, <3>2 DEF Object
  <2> QED
    BY <2>1
<1> HIDE DEF image
<1>2. \A r, new : new \subseteq Object => Write(f, r, new) \subseteq Object
  BY DEF Write
<1>3. \/ g = f \/ g = Write(f, Slot(to, n), image) \/ g = Write(f, Slot(to, n), {})
  BY Zenon DEF Memcpy, image
<1> QED
  BY <1>1, <1>2, <1>3

\* What is stored in the file always belongs to a list and has a place.
LEMMA FilePreserved ==
  ASSUME Inv, NEW t \in Threads,
         \/ \E l \in Lists, c \in Calls : Begin(t, l, c)
         \/ Step(t) \/ Spurious(t)
  PROVE  file' \subseteq Object
<1> DEFINE l == no[t]
           list == lists[l]
           n == call[t].n
<1>0. /\ file \subseteq Object /\ l \in Lists /\ list \in ListType
      /\ call \in [Threads -> CallType] /\ added[l] \in Nat /\ CallInOrder(t)
      /\ Fits(list) /\ n \in Nat
  BY Shapes DEF Inv, StoreInv, CallsInOrder, ListsInOrder, CallType
<1>1. \A r, new : new \subseteq Object => Write(file, r, new) \subseteq Object
  BY <1>0 DEF Write
<1>2. ASSUME WriteIds(t) \/ WriteCodes(t)
      PROVE  file' \subseteq Object
  <2>1. list.size \in Nat /\ list.capacity \in Nat /\ n <= list.size
    BY <1>0, <1>2 DEF WriteIds, WriteCodes, CallInOrder, Adding, ListType
  <2>2. ASSUME NEW j \in Positions(t)
        PROVE  /\ IdObject(list, l, j, Serial(t, j)) \in Object
               /\ CodeObject(list, l, j, Serial(t, j)) \in Object
    <3>1. j \in (list.size - n)..(list.size - 1)
      BY DEF Positions
    <3>2. j \in Nat /\ j < list.size /\ j - (list.size - n) \in Nat
      BY <1>0, <2>1, <3>1
    <3>3. Serial(t, j) \in Nat
      BY <1>0, <3>2 DEF Serial
    <3>4. list.offset \in Nat
      BY <1>0, <2>1, <3>2 DEF Fits
    <3> DEFINE a == list.capacity * CodeSize
               b == j * CodeSize
               c == j * IdSize
    <3>5. a \in Nat /\ b \in Nat /\ c \in Nat
      BY <2>1, <3>2, Products
    <3>6. IdAt(list, j) = list.offset + a + c /\ CodeAt(list, j) = list.offset + b
      BY DEF IdAt, CodeAt
    <3> HIDE DEF a, b, c
    <3>7. IdAt(list, j) \in Nat /\ CodeAt(list, j) \in Nat
      BY <3>4, <3>5, <3>6
    <3> QED
      BY <1>0, <3>3, <3>7 DEF IdObject, CodeObject, Object
  <2> DEFINE ids == {IdObject(list, l, j, Serial(t, j)) : j \in Positions(t)}
             codes == {CodeObject(list, l, j, Serial(t, j)) : j \in Positions(t)}
  <2>3. ids \subseteq Object /\ codes \subseteq Object
    BY <2>2
  <2>4. \E r : file' = Write(file, r, ids) \/ file' = Write(file, r, codes)
    BY <1>2, Zenon DEF WriteIds, WriteCodes
  <2> HIDE DEF ids, codes
  <2> QED
    BY <1>1, <2>3, <2>4
<1>3. ASSUME CopyCommon(t)
      PROVE  file' \subseteq Object
  <2> DEFINE new == call[t].new
             m == Min({list.size, new.size})
  <2>1. CASE file' = file
    BY <1>0, <2>1
  <2>2. CASE file' # file
    <3>1. m > 0 /\ \E f \in Memcpy(file, new.offset, list.offset, m * CodeSize) :
                     file' \in Memcpy(f, IdAt(new, 0), IdAt(list, 0), m * IdSize)
      BY <1>3, <2>2 DEF CopyCommon
    <3>2. /\ new \in ListType /\ Fits(new)
      BY <1>0, <1>3 DEF CopyCommon, CallInOrder, Placed, Moving, CallType
    <3>3. m \in Nat /\ m <= list.size /\ m <= new.size
      <4>1. list.size \in Nat /\ new.size \in Nat
        BY <1>0, <3>2 DEF ListType
      <4>2. m = IF list.size <= new.size THEN list.size ELSE new.size
        BY <4>1 DEF Min
      <4> QED
        BY <4>1, <4>2
    <3>4. ASSUME NEW d \in ListType, Fits(d), m <= d.size
          PROVE  d.offset \in Nat /\ IdAt(d, 0) \in Nat
      <4>1. d.capacity \in Nat /\ d.capacity > 0
        BY <3>1, <3>3, <3>4 DEF Fits, ListType
      <4>2. d.offset \in Nat
        BY <3>4, <4>1 DEF Fits
      <4> DEFINE a == d.capacity * CodeSize
      <4>3. a \in Nat /\ IdAt(d, 0) = d.offset + a + 0 * IdSize
        BY <4>1, Products DEF IdAt
      <4>4. 0 * IdSize = 0
        BY DEF IdSize
      <4> HIDE DEF a
      <4> QED
        BY <4>2, <4>3, <4>4
    <3>5. m * CodeSize \in Nat /\ m * IdSize \in Nat
      BY <3>3, Products
    <3>6. /\ new.offset \in Nat /\ IdAt(new, 0) \in Nat
          /\ list.offset \in Nat /\ IdAt(list, 0) \in Nat
      BY <1>0, <3>2, <3>3, <3>4
    <3> HIDE DEF m, new, list
    <3>7. PICK f \in Memcpy(file, new.offset, list.offset, m * CodeSize) :
                 file' \in Memcpy(f, IdAt(new, 0), IdAt(list, 0), m * IdSize)
      BY <3>1
    <3>8. f \in SUBSET Object
      BY <1>0, <3>5, <3>6, <3>7, MemcpyObjects
    <3>9. file' \in SUBSET Object
      BY <3>5, <3>6, <3>7, <3>8, MemcpyObjects
    <3> QED
      BY <3>9
  <2> QED
    BY <2>1, <2>2
<1>4. ASSUME ~WriteIds(t), ~WriteCodes(t), ~CopyCommon(t)
      PROVE  file' = file
  BY <1>4 DEF Step, Begin, Spurious, Waiting, ResizeInPlace, LockSlots,
              FreeSlot, AllocateSlot, LockRemap, Unmap, Remap, RemapThrows,
              UnlockRemap, Publish, GetIds, GetList, ReadList, Return
<1> QED
  BY <1>0, <1>2, <1>3, <1>4

-----------------------------------------------------------------------------
(* The invariant                                                           *)

\* The store as it is constructed is in order.
LEMMA InitEstablishes == Init => StoreInv
<1> SUFFICES ASSUME Init PROVE StoreInv
  OBVIOUS
<1>1. /\ lists = [l \in Lists |-> EmptyList] /\ slots = <<>> /\ totsize = 0
      /\ ptr = 0 /\ mapped = FALSE /\ file = {}
      /\ step = [t \in Threads |-> "ready"]
      /\ call = [t \in Threads |-> [op |-> "read", n |-> 0, base |-> 0,
                                    new |-> EmptyList]]
      /\ content = [l \in Lists |-> <<>>] /\ added = [l \in Lists |-> 0]
      /\ calls = 0
  BY DEF Init
<1>2. EmptyList \in ListType
  BY DEF EmptyList, ListType, InvalidOffset
<1>3. /\ mutex1 = NoThread /\ level1_holders = {} /\ n_level2 = 0
      /\ level2_in_use = FALSE /\ level3_in_use = FALSE
      /\ pc = [t \in Threads |-> "idle"] /\ no \in [Threads -> Lists]
  BY DEF Init, LL!Init
<1>4. LL!TypeOK
  BY <1>3 DEF LL!TypeOK, LL!PCs
<1>5. TypeOK
  <2>1. lists \in [Lists -> ListType]
    BY <1>1, <1>2
  <2>2. step \in [Threads -> Steps]
    BY <1>1 DEF Steps
  <2>3. call \in [Threads -> [op : {"add", "resize", "read"}, n : Nat, base : Nat,
                              new : ListType]]
    BY <1>1, <1>2
  <2>4. <<>> \in Seq(Nat) /\ <<>> \in Seq([offset : Nat, capacity : Nat])
    BY EmptySeq
  <2>5. content \in [Lists -> Seq(Nat)] /\ added \in [Lists -> Nat]
    BY <1>1, <2>4
  <2>6. calls \in 0..MaxCalls
    BY <1>1, OnDiskAssumption
  <2> QED
    BY <1>1, <1>4, <2>1, <2>2, <2>3, <2>4, <2>5, <2>6 DEF TypeOK
<1>6. StepFollowsLock
  BY <1>1, <1>3 DEF StepFollowsLock, LockAt
<1>7. ListsInOrder
  BY <1>1, EmptySeq DEF ListsInOrder, Fits, EmptyList
<1>8. CallsInOrder
  BY <1>1 DEF CallsInOrder, CallInOrder, Adding, Moving, Placed, UsingPointer
<1>9. SlotsInOrder
  BY <1>1, EmptySeq DEF SlotsInOrder, Ordered, Inside
<1>10. BlocksApart
  <2>1. ~ \E l \in Lists : \E r : Holds(l, r)
    BY <1>1 DEF Holds, Placed, EmptyList
  <2> QED
    BY <2>1 DEF BlocksApart
<1>11. Unmapped
  BY <1>1 DEF Unmapped, EmptyList, Placed
<1> QED
  BY <1>5, <1>6, <1>7, <1>8, <1>9, <1>10, <1>11 DEF StoreInv

\* The types of what the lemmas above do not speak of.
LEMMA RestTyped ==
  ASSUME Inv, NEW t \in Threads,
         \/ \E l \in Lists, c \in Calls : Begin(t, l, c)
         \/ Step(t) \/ Spurious(t)
  PROVE  step' \in [Threads -> Steps] /\ calls' \in 0..MaxCalls
<1>0. step \in [Threads -> Steps] /\ calls \in 0..MaxCalls
  BY DEF Inv, StoreInv, TypeOK
<1>1. calls' = calls \/ (calls < MaxCalls /\ calls' = calls + 1)
  BY DEF Step, Begin, Spurious, Waiting, ResizeInPlace, LockSlots,
         FreeSlot, AllocateSlot, LockRemap, Unmap, Remap, RemapThrows,
         UnlockRemap, CopyCommon, Publish, GetIds, WriteIds, WriteCodes,
         GetList, ReadList, Return
<1>2. step' = step \/ \E s \in Steps : step' = [step EXCEPT ![t] = s]
  BY DEF Step, Begin, Spurious, Waiting, ResizeInPlace, LockSlots,
         FreeSlot, AllocateSlot, LockRemap, Unmap, Remap, RemapThrows,
         UnlockRemap, CopyCommon, Publish, GetIds, WriteIds, WriteCodes,
         GetList, ReadList, Return, Goto, AfterResize, Steps
<1> QED
  BY <1>0, <1>1, <1>2, OnDiskAssumption

\* A list of ranges is one of slots.
LEMMA BytesAreSlots == Seq(Bytes) \subseteq Seq([offset : Nat, capacity : Nat])
<1>1. Bytes \subseteq [offset : Nat, capacity : Nat]
  BY DEF Bytes
<1> QED
  BY <1>1, SeqMonotonic

LEMMA NextPreserves == LLP!IInv /\ LLP!IInv' /\ StoreInv /\ [Next]_vars => StoreInv'
<1> SUFFICES ASSUME LLP!IInv, LLP!IInv', StoreInv, [Next]_vars
             PROVE  StoreInv'
  OBVIOUS
<1>1. Inv /\ LL!TypeOK'
  <2>1. LL!TypeOK /\ LocksApart
    BY LocksKeepApart
  <2>2. LL!TypeOK'
    BY FiniteSets, OnDiskAssumption
       DEF LLP!IInv, LLP!TypeOK, LL!TypeOK, LLP!PCs, LL!PCs
  <2> QED
    BY <2>1, <2>2 DEF Inv
<1>2. CASE UNCHANGED vars
  BY <1>2
     DEF StoreInv, vars, lockVars, space, ghosts, TypeOK, StepFollowsLock,
         ListsInOrder, CallsInOrder, CallInOrder, SlotsInOrder, BlocksApart,
         Unmapped, Holds, Moved, Needed, NewSize, LL!TypeOK
<1>3. ASSUME NEW t \in Threads,
             \/ \E l \in Lists, c \in Calls : Begin(t, l, c)
             \/ Step(t) \/ Spurious(t)
      PROVE  StoreInv'
  <2>1. StepFollowsLock'
    BY <1>1, <1>3, StepFollowsLockPreserved
  <2>2. /\ ListsInOrder' /\ lists' \in [Lists -> ListType]
        /\ content' \in [Lists -> Seq(Nat)] /\ added' \in [Lists -> Nat]
    BY <1>1, <1>3, ListsInOrderPreserved
  <2>3. CallsInOrder' /\ call' \in [Threads -> CallType]
    <3>1. Frame(t)
      BY <1>1, <1>3, FrameHolds
    <3>2. \A u \in Threads \ {t} : CallInOrder(u)'
      BY <1>1, <3>1, OtherCallsInOrder
    <3>3. CallInOrder(t)' /\ call' \in [Threads -> CallType]
      BY <1>1, <1>3, OwnCallInOrder
    <3> QED
      BY <3>2, <3>3 DEF CallsInOrder
  <2>4. SlotsInOrder' /\ BlocksApart' /\ totsize' \in Nat
    BY <1>1, <1>3, SpacePreserved
  <2>5. Unmapped' /\ mapped' \in BOOLEAN /\ ptr' \in Nat
    BY <1>1, <1>3, UnmappedPreserved
  <2>6. file' \subseteq Object
    BY <1>1, <1>3, FilePreserved
  <2>7. step' \in [Threads -> Steps] /\ calls' \in 0..MaxCalls
    BY <1>1, <1>3, RestTyped
  <2>8. slots' \in Seq([offset : Nat, capacity : Nat])
    BY <2>4, BytesAreSlots DEF SlotsInOrder
  <2>9. TypeOK'
    BY <1>1, <2>2, <2>3, <2>4, <2>5, <2>6, <2>7, <2>8 DEF TypeOK, CallType
  <2> QED
    BY <2>1, <2>2, <2>3, <2>4, <2>5, <2>9 DEF StoreInv
<1> QED
  BY <1>2, <1>3 DEF Next, Finished

\* The inductive invariant of the store holds along with the one of its locks.
THEOREM Invariance == Spec => []Inv
<1>1. Init => StoreInv
  BY InitEstablishes
<1>2. LLP!IInv /\ LLP!IInv' /\ StoreInv /\ [Next]_vars => StoreInv'
  BY NextPreserves
<1>3. LLP!IInv /\ StoreInv => Inv
  BY LocksKeepApart DEF Inv
<1> QED
  BY <1>1, <1>2, <1>3, LockInvariance, PTL DEF Spec

-----------------------------------------------------------------------------
(* What the store promises                                                 *)

\* While a thread that holds no lock of level 3 has entries to read or write,
\* the file is mapped.
LEMMA MappedWhileUsed ==
  ASSUME Inv, NEW t \in Threads, lists[no[t]].size > 0,
         step[t] \in UsingPointer \cup {"copy"}
  PROVE  mapped
<1>0. /\ no[t] \in Lists /\ lists[no[t]] \in ListType /\ Fits(lists[no[t]])
      /\ Unmapped /\ StepFollowsLock /\ LocksApart
  BY Shapes DEF Inv, StoreInv, ListsInOrder
<1>1. lists[no[t]].capacity # 0
  BY <1>0 DEF Fits, ListType
<1>2. ASSUME NEW u \in Threads, step[u] \in {"remap", "thrown"}
      PROVE  FALSE
  <2>1. pc[u] = "held3" /\ t # u
    BY <1>0, <1>2 DEF StepFollowsLock, LockAt, UsingPointer
  <2>2. pc[t] = "held1" \/ pc[t] = "held2"
    BY <1>0 DEF StepFollowsLock, LockAt, UsingPointer
  <2> QED
    BY <1>0, <2>1, <2>2 DEF LocksApart, LL!OwnsLock2, LL!InLock3
<1> QED
  BY <1>0, <1>1, <1>2 DEF Unmapped

\* A pointer from get_ids or get_codes is used while the mapping it points
\* into is there: update_totsize unmaps the file only under lock_3, when no
\* other thread is between taking a pointer and giving up its level-1 lock.
THEOREM PointersStayValid == Spec => []NoStalePointer
<1>1. Inv => NoStalePointer
  <2> SUFFICES ASSUME Inv, NEW t \in Threads
               PROVE  /\ step[t] \in {"write_ids", "write_codes", "read"} =>
                           mapped /\ call[t].base = ptr
                      /\ step[t] = "copy" /\ lists[no[t]].size > 0 => mapped
    BY DEF NoStalePointer
  <2>1. /\ CallInOrder(t) /\ lists[no[t]].size \in Nat
        /\ call[t].n \in Nat
    BY Shapes DEF Inv, StoreInv, CallsInOrder, ListType
  <2>2. step[t] \in UsingPointer => call[t].base = ptr
    BY <2>1 DEF CallInOrder
  <2>3. step[t] \in UsingPointer => lists[no[t]].size > 0
    <3>1. step[t] \in Adding => call[t].n \in Nat \ {0}
      BY <2>1, OnDiskAssumption DEF CallInOrder
    <3> QED
      BY <2>1, <3>1 DEF CallInOrder, UsingPointer, Adding
  <2> QED
    BY <2>2, <2>3, MappedWhileUsed DEF UsingPointer
<1> QED
  BY <1>1, Invariance, PTL

\* The assert of allocate_slot after the file has grown, and those of
\* free_slot, hold.
LEMMA AssertsHold == Inv => GrowthSuffices /\ FreeSlotAsserts
<1> SUFFICES ASSUME Inv, NEW t \in Threads
             PROVE  /\ step[t] = "reallocate" => Candidates(slots, Needed(t)) # {}
                    /\ step[t] = "free" =>
                         FreeAsserts(slots, lists[no[t]].offset,
                                     FreedBytes(lists[no[t]]))
  BY DEF GrowthSuffices, FreeSlotAsserts
<1>1. step[t] = "reallocate" => Candidates(slots, Needed(t)) # {}
  BY DEF Inv, StoreInv, CallsInOrder, CallInOrder
<1>2. ASSUME step[t] = "free"
      PROVE  FreeAsserts(slots, lists[no[t]].offset, FreedBytes(lists[no[t]]))
  <2> DEFINE d == lists[no[t]]
  <2>0. slots \in Seq(Bytes) /\ Ordered(slots) /\ d.capacity \in Nat
    BY Shapes DEF ListType
  <2>1. CASE d.capacity > 0
    <3>1. /\ d.offset \in Nat /\ FreedBytes(d) \in Nat \ {0}
          /\ Clear(slots, Slot(d.offset, FreedBytes(d)))
      BY <1>2, <2>1, FreedIsClear
    <3> HIDE DEF d
    <3>2. FreeAsserts(slots, d.offset, FreedBytes(d))
      BY <2>0, <3>1, AfterProperties
    <3> QED
      BY <3>2 DEF d
  <2>2. CASE d.capacity = 0
    BY <2>2 DEF FreeAsserts, FreedBytes
  <2> QED
    BY <2>0, <2>1, <2>2
<1> QED
  BY <1>1, <1>2

\* Whatever the sequence of moves, the free slots stay sorted, coalesced and
\* large enough after update_totsize, free_slot is given ranges that are in no
\* free slot, and the variables keep their types.
THEOREM BooksStayInOrder == Spec => []BooksInOrder
<1>1. Inv => SlotsCoalesced
  <2> SUFFICES ASSUME Inv PROVE SlotsCoalesced
    OBVIOUS
  <2>1. slots \in Seq(Bytes) /\ Ordered(slots)
    BY Shapes
  <2>2. /\ Len(slots) \in Nat /\ DOMAIN slots = 1..Len(slots)
        /\ \A i \in 1..Len(slots) : slots[i].capacity > 0
    BY <2>1, SlotNumbers
  <2> QED
    BY <2>1, <2>2 DEF SlotsCoalesced, Ordered
<1>2. Inv => TypeOK
  BY DEF Inv, StoreInv
<1>3. Inv => BooksInOrder
  BY <1>1, <1>2, AssertsHold DEF BooksInOrder
<1> QED
  BY <1>3, Invariance, PTL

\* The list an owner of bytes that is not a free slot has them for.
ListOf(a) == IF a[1] = "list" THEN a[2] ELSE no[a[2]]

\* An owner is a free slot or has its bytes for a list, and no two have bytes
\* for the same list.
LEMMA Owners ==
  ASSUME Inv
  PROVE  /\ \A a \in Ranges :
              \/ \E i \in 1..Len(slots) : a = <<"slot", i, slots[i]>>
              \/ /\ a[1] # "slot" /\ ListOf(a) \in Lists /\ a[3] \in Bytes
                 /\ Holds(ListOf(a), a[3])
         /\ \A a, b \in Ranges :
              a[1] # "slot" /\ b[1] # "slot" /\ ListOf(a) = ListOf(b) => a = b
<1>0. /\ no \in [Threads -> Lists] /\ slots \in Seq(Bytes)
      /\ DOMAIN slots = 1..Len(slots) /\ LocksApart /\ StepFollowsLock
  BY Shapes, SlotNumbers DEF Inv, StoreInv
<1>1. ASSUME NEW a \in Ranges
      PROVE  \/ \E i \in 1..Len(slots) : a = <<"slot", i, slots[i]>>
             \/ \E l \in Lists : /\ a = <<"list", l, Block(lists[l])>>
                                 /\ ~Moved(l) /\ lists[l].capacity > 0
             \/ \E t \in Threads : /\ a = <<"new", t, Block(call[t].new)>>
                                   /\ step[t] \in Placed
                                   /\ call[t].new.capacity > 0
  BY <1>0 DEF Ranges
<1>2. ASSUME NEW l \in Lists, NEW a, a = <<"list", l, Block(lists[l])>>,
             ~Moved(l), lists[l].capacity > 0
      PROVE  a[1] = "list" /\ ListOf(a) = l /\ a[3] \in Bytes /\ Holds(l, a[3])
  <2>1. a[1] = "list" /\ a[2] = l /\ a[3] = Block(lists[l])
    BY <1>2
  <2>2. Holds(l, a[3])
    BY <1>2, <2>1 DEF Holds
  <2> QED
    BY <2>1, <2>2, HoldsBytes DEF ListOf
<1>3. ASSUME NEW t \in Threads, NEW a, a = <<"new", t, Block(call[t].new)>>,
             step[t] \in Placed, call[t].new.capacity > 0
      PROVE  /\ a[1] = "new" /\ ListOf(a) = no[t] /\ a[3] \in Bytes
             /\ Holds(no[t], a[3]) /\ Moved(no[t]) /\ pc[t] = "held2"
  <2>1. a[1] = "new" /\ a[2] = t /\ a[3] = Block(call[t].new)
    BY <1>3
  <2>2. Holds(no[t], a[3])
    BY <1>3, <2>1 DEF Holds
  <2>3. Moved(no[t]) /\ pc[t] = "held2"
    BY <1>0, <1>3 DEF Moved, Moving, Placed, StepFollowsLock, LockAt
  <2> QED
    BY <1>0, <2>1, <2>2, <2>3, HoldsBytes DEF ListOf
<1>4. ASSUME NEW a \in Ranges
      PROVE  \/ \E i \in 1..Len(slots) : a = <<"slot", i, slots[i]>>
             \/ /\ a[1] # "slot" /\ ListOf(a) \in Lists /\ a[3] \in Bytes
                /\ Holds(ListOf(a), a[3])
  BY <1>0, <1>1, <1>2, <1>3
<1>5. ASSUME NEW a \in Ranges, NEW b \in Ranges,
             a[1] # "slot", b[1] # "slot", ListOf(a) = ListOf(b)
      PROVE  a = b
  <2>1. \/ \E l \in Lists : /\ a = <<"list", l, Block(lists[l])>>
                            /\ ~Moved(l) /\ lists[l].capacity > 0
        \/ \E t \in Threads : /\ a = <<"new", t, Block(call[t].new)>>
                              /\ step[t] \in Placed
                              /\ call[t].new.capacity > 0
    BY <1>1, <1>5
  <2>2. \/ \E l \in Lists : /\ b = <<"list", l, Block(lists[l])>>
                            /\ ~Moved(l) /\ lists[l].capacity > 0
        \/ \E t \in Threads : /\ b = <<"new", t, Block(call[t].new)>>
                              /\ step[t] \in Placed
                              /\ call[t].new.capacity > 0
    BY <1>1, <1>5
  <2>3. \A t, u \in Threads : pc[t] = "held2" /\ pc[u] = "held2" => t = u
    BY <1>0 DEF LocksApart, LL!OwnsLock2
  <2> QED
    BY <1>2, <1>3, <1>5, <2>1, <2>2, <2>3
<1> QED
  BY <1>4, <1>5

\* free_slot, allocate_slot and update_totsize never hand out a byte twice,
\* nor one that is not in the file, for any list sizes and code size.
THEOREM EveryByteHasOneOwner == Spec => []NoDoubleOwner
<1>1. Inv => NoDoubleOwner
  <2> SUFFICES ASSUME Inv PROVE NoDoubleOwner
    OBVIOUS
  <2>0. /\ slots \in Seq(Bytes) /\ Ordered(slots) /\ Inside(slots, totsize)
        /\ BlocksApart
    BY Shapes DEF Inv, StoreInv
  <2>1. ASSUME NEW a \in Ranges, NEW b \in Ranges, a # b
        PROVE  ~Overlap(a[3], b[3])
    <3>1. CASE a[1] # "slot" /\ b[1] # "slot"
      <4>1. /\ ListOf(a) \in Lists /\ a[3] \in Bytes /\ Holds(ListOf(a), a[3])
            /\ ListOf(b) \in Lists /\ b[3] \in Bytes /\ Holds(ListOf(b), b[3])
            /\ ListOf(a) # ListOf(b)
        BY <2>1, <3>1, Owners
      <4> QED
        BY <2>0, <4>1 DEF BlocksApart
    <3>2. ASSUME NEW c \in Ranges, NEW d \in Ranges, c[1] = "slot", d[1] # "slot"
          PROVE  ~Overlap(c[3], d[3])
      <4>1. PICK i \in 1..Len(slots) : c[3] = slots[i]
        BY <3>2, Owners
      <4>2. ListOf(d) \in Lists /\ d[3] \in Bytes /\ Holds(ListOf(d), d[3])
        BY <3>2, Owners
      <4> QED
        BY <2>0, <4>1, <4>2 DEF BlocksApart, Clear
    <3>3. CASE a[1] = "slot" /\ b[1] = "slot"
      <4>1. PICK i \in 1..Len(slots) : a = <<"slot", i, slots[i]>>
        BY <3>3, Owners
      <4>2. PICK j \in 1..Len(slots) : b = <<"slot", j, slots[j]>>
        BY <3>3, Owners
      <4>3. i # j /\ a[3] = slots[i] /\ b[3] = slots[j]
        BY <2>1, <4>1, <4>2
      <4> QED
        BY <2>0, <4>3, SlotsApart
    <3>4. Overlap(a[3], b[3]) => Overlap(b[3], a[3])
      BY DEF Overlap
    <3> QED
      BY <3>1, <3>2, <3>3, <3>4
  <2>2. ASSUME NEW a \in Ranges
        PROVE  a[3].offset >= 0 /\ End(a[3]) <= totsize
    <3>1. a[3] \in Bytes /\ End(a[3]) <= totsize
      <4>1. CASE a[1] # "slot"
        BY <2>0, <4>1, Owners DEF BlocksApart
      <4>2. CASE a[1] = "slot"
        <5>1. PICK i \in 1..Len(slots) : a[3] = slots[i]
          BY <4>2, Owners
        <5> QED
          BY <2>0, <5>1, SlotNumbers DEF Inside
      <4> QED
        BY <4>1, <4>2
    <3> QED
      BY <3>1 DEF Bytes
  <2> QED
    BY <2>1, <2>2 DEF NoDoubleOwner
<1> QED
  BY <1>1, Invariance, PTL

\* An error thrown by update_totsize leaves lock_3 taken; from then on no step
\* of any thread changes a list, the free slots, the file or its mapping.
THEOREM ThrowFreezesStore == Spec => FrozenAfterThrow
<1>1. Inv /\ [Next]_vars => [Thrown => UNCHANGED <<lists, slots, totsize, file, mapped>>]_vars
  <2> SUFFICES ASSUME Inv, Next, Thrown
               PROVE  UNCHANGED <<lists, slots, totsize, file, mapped>>
    OBVIOUS
  <2>1. PICK u \in Threads : step[u] = "thrown"
    BY DEF Thrown
  <2>2. /\ pc[u] = "held3" /\ mutex1 # NoThread /\ LL!TypeOK
        /\ StepFollowsLock /\ LocksApart
    BY <2>1, Shapes DEF Inv, StoreInv, StepFollowsLock, LockAt, LocksApart
  <2>3. ASSUME NEW t \in Threads
        PROVE  pc[t] # "held1" /\ (t # u => pc[t] # "held2" /\ pc[t] # "held3")
    BY <2>2 DEF LocksApart, LL!OwnsLock2, LL!InLock3
  <2>4. ASSUME NEW t \in Threads, step[t] \notin {"ready", "start", "free", "unmap"}
        PROVE  t = u
    BY <2>2, <2>3, <2>4 DEF StepFollowsLock, LockAt
  <2>5. ASSUME NEW t \in Threads, ~Spurious(t), ~Waiting(t),
               \/ \E l \in Lists, c \in Calls : Begin(t, l, c)
               \/ Step(t)
        PROVE  FALSE
    <3>1. ~ \E l \in Lists, c \in Calls : Begin(t, l, c)
      BY <2>2, MethodsMove DEF Begin
    <3>2. ~LockSlots(t) /\ ~LockRemap(t) /\ ~UnlockRemap(t) /\ ~Publish(t) /\ ~Return(t)
      BY <2>1, <2>2, <2>3, <2>4, MethodsMove
         DEF LockSlots, LockRemap, UnlockRemap, Publish, Return, Moves
    <3>3. step[t] = "start" => pc[t] # "held1"
      BY <2>3
    <3>4. step[t] = "free" => pc[t] # "held2"
      BY <2>1, <2>3
    <3>5. step[t] = "unmap" => pc[t] # "held3"
      BY <2>1, <2>3
    <3>6. t = u => step[t] = "thrown"
      BY <2>1
    <3> QED
      BY <2>4, <2>5, <3>1, <3>2, <3>3, <3>4, <3>5, <3>6
         DEF Step, ResizeInPlace, FreeSlot, AllocateSlot, Unmap, Remap,
             RemapThrows, CopyCommon, GetIds, WriteIds, WriteCodes, GetList,
             ReadList
  <2>6. ASSUME NEW t \in Threads, Spurious(t) \/ Waiting(t)
        PROVE  UNCHANGED <<lists, slots, totsize, file, mapped>>
    BY <2>6 DEF Spurious, Waiting, space
  <2> QED
    BY <2>5, <2>6 DEF Next, Finished, vars, space
<1> QED
  BY <1>1, Invariance, PTL DEF Spec, FrozenAfterThrow

-----------------------------------------------------------------------------
(* Concurrent calls of add_entries                                         *)

\* List l holds what was added to it, in order, and, once a call of
\* add_entries has made room for its entries, that room as well.
AddedInOrder(l) ==
  /\ \A j \in 1..added[l] : content[l][j] = j
  /\ \A t \in Threads : no[t] = l /\ step[t] \in Adding =>
       lists[l].size = added[l] + call[t].n
  /\ (\E t \in Threads : no[t] = l /\ step[t] \in Adding)
       \/ lists[l].size = added[l]

\* Without calls of resize, this is what add_entries keeps of every list.
OnlyAdds == \A t \in Threads : call[t].op # "resize"
AddsInOrder == OnlyAdds /\ \A l \in Lists : AddedInOrder(l)

\* The steps that make room in a list.
LEMMA RoomMade ==
  ASSUME Inv, NEW t \in Threads, AddedInOrder(no[t]),
         call[t].op # "resize", ResizeInPlace(t) \/ Publish(t)
  PROVE  /\ AddedInOrder(no[t])' /\ added' = added /\ call' = call /\ no' = no
         /\ \A l \in Lists \ {no[t]} :
              lists'[l] = lists[l] /\ content'[l] = content[l]
         /\ step[t] \notin Adding
<1> DEFINE l == no[t]
           n == NewSize(t)
<1>0. /\ l \in Lists /\ lists \in [Lists -> ListType] /\ LL!TypeOK
      /\ content \in [Lists -> Seq(Nat)] /\ added[l] \in Nat
      /\ step \in [Threads -> Steps] /\ Len(content[l]) = lists[l].size
      /\ CallInOrder(t) /\ lists[l].size \in Nat
  BY Shapes DEF Inv, StoreInv, ListsInOrder, CallsInOrder, ListType
<1>1. /\ call' = call /\ no' = no /\ added' = added
      /\ step' = [step EXCEPT ![t] = AfterResize(t)]
  BY <1>0, MethodsMove DEF ResizeInPlace, Publish, Goto, lockVars
<1>2. /\ call[t].op = "add" /\ step[t] \notin Adding
      /\ pc[t] \in LL!OwnsLock1
      /\ step[t] = "publish" => call[t].new.size = n
  <2>1. call[t].op # "read" /\ step[t] \in {"start", "publish"}
    BY <1>0 DEF ResizeInPlace, Publish, CallInOrder, Moving
  <2>2. call[t].op = "add"
    BY <2>1, Shapes
  <2>3. pc[t] \in {"held1", "held2"}
    BY DEF ResizeInPlace, Publish, LL!Unlock2
  <2> QED
    BY <1>0, <2>1, <2>2, <2>3
       DEF CallInOrder, Moving, Adding, LL!OwnsLock1, LL!InLock2, LL!OwnsLock2
<1>3. /\ n \in Nat /\ n = lists[l].size + call[t].n /\ call[t].n \in Nat
  BY <1>2, NewSizeNat
<1>4. /\ lists'[l].size = n /\ content'[l] = Resized(content[l], n)
      /\ \A m \in Lists \ {l} :
           lists'[m] = lists[m] /\ content'[m] = content[m]
  <2>1. CASE ResizeInPlace(t)
    <3>1. /\ lists' = [lists EXCEPT ![l].size = n]
          /\ content' = [content EXCEPT ![l] = Resized(@, n)]
      BY <2>1 DEF ResizeInPlace
    <3>2. lists[l] \in ListType
      BY <1>0
    <3> QED
      BY <1>0, <3>1, <3>2 DEF ListType
  <2>2. CASE Publish(t)
    <3>1. /\ lists' = [lists EXCEPT ![l] = call[t].new] /\ call[t].new.size = n
          /\ content' = [content EXCEPT ![l] = Resized(@, n)]
      BY <1>2, <2>2 DEF Publish
    <3> QED
      BY <1>0, <3>1
  <2> QED
    BY <2>1, <2>2
<1>5. \A u \in Threads \ {t} : no[u] = l => step[u] \notin Adding
  BY <1>2, AloneOnList DEF Adding
<1>6. lists[l].size = added[l]
  BY <1>2, <1>5 DEF AddedInOrder
<1>7. step'[t] \in Adding
  BY <1>0, <1>1, <1>2 DEF AfterResize, Adding
<1>8. \A j \in 1..added[l] : content'[l][j] = j
  <2>1. ASSUME NEW j \in 1..added[l]
        PROVE  content'[l][j] = j
    <3>1. content[l][j] = j /\ j \in 1..n /\ j <= Len(content[l])
      BY <1>0, <1>3, <1>6 DEF AddedInOrder
    <3>2. Resized(content[l], n)[j] = content[l][j]
      BY <3>1 DEF Resized
    <3> QED
      BY <1>4, <3>1, <3>2
  <2> QED
    BY <2>1
<1>9. AddedInOrder(l)'
  <2>1. \A u \in Threads : no'[u] = l /\ step'[u] \in Adding => u = t
    BY <1>0, <1>1, <1>5
  <2> HIDE DEF l, n
  <2>2. no'[t] = l /\ no' = no
    BY <1>1 DEF l
  <2>3. lists'[l].size = added'[l] + call'[t].n
    BY <1>1, <1>3, <1>4, <1>6
  <2> QED
    BY <1>1, <1>7, <1>8, <2>1, <2>2, <2>3 DEF AddedInOrder, l
<1> QED
  BY <1>1, <1>2, <1>4, <1>9

\* The step that writes the codes of an addition, and with that ends it.
LEMMA EntriesWritten ==
  ASSUME Inv, NEW t \in Threads, AddedInOrder(no[t]), WriteCodes(t)
  PROVE  /\ AddedInOrder(no[t])' /\ no' = no /\ call' = call /\ lists' = lists
         /\ \A l \in Lists \ {no[t]} :
              added'[l] = added[l] /\ content'[l] = content[l]
<1> DEFINE l == no[t]
           n == call[t].n
<1>0. /\ l \in Lists /\ lists \in [Lists -> ListType]
      /\ content \in [Lists -> Seq(Nat)] /\ added \in [Lists -> Nat]
      /\ step \in [Threads -> Steps] /\ Len(content[l]) = lists[l].size
      /\ lists[l].size \in Nat /\ n \in Nat /\ added[l] \in Nat
  BY Shapes DEF Inv, StoreInv, ListsInOrder, ListType
<1>1. /\ call' = call /\ no' = no /\ lists' = lists
      /\ step' = [step EXCEPT ![t] = "done"] /\ step[t] = "write_codes"
      /\ added' = [added EXCEPT ![l] = added[l] + n]
      /\ content' = [content EXCEPT ![l] =
                       [j \in DOMAIN content[l] |->
                          IF j > lists[l].size - n THEN Serial(t, j - 1)
                          ELSE content[l][j]]]
  BY DEF WriteCodes, Goto, lockVars
<1>2. lists[l].size = added[l] + n
  BY <1>1 DEF AddedInOrder, Adding
<1>3. pc[t] \in LL!OwnsLock1
  BY <1>1 DEF Inv, StoreInv, StepFollowsLock, LockAt, LL!OwnsLock1
<1>4. \A u \in Threads \ {t} : no[u] = l => step[u] \notin Adding
  BY <1>3, AloneOnList DEF Adding
<1>5. ASSUME NEW j \in 1..(added[l] + n)
      PROVE  content'[l][j] = j
  <2>1. /\ DOMAIN content[l] = 1..Len(content[l]) /\ j \in DOMAIN content[l]
        /\ j \in Nat
    BY <1>0, <1>2, LenProperties
  <2>2. content'[l][j] = IF j > lists[l].size - n THEN Serial(t, j - 1)
                         ELSE content[l][j]
    BY <1>0, <1>1, <2>1
  <2>3. j > lists[l].size - n => Serial(t, j - 1) = j
    <3>1. Serial(t, j - 1) = added[l] + 1 + (j - 1) - (lists[l].size - n)
      BY DEF Serial
    <3>2. added[l] \in Nat /\ n \in Nat
      BY <1>0
    <3> QED
      BY <1>2, <2>1, <3>1, <3>2
  <2>4. j <= added[l] => content[l][j] = j
    <3>1. \A k \in 1..added[l] : content[l][k] = k
      BY DEF AddedInOrder
    <3>2. added[l] \in Nat
      BY <1>0
    <3> QED
      BY <2>1, <3>1, <3>2
  <2> QED
    BY <1>0, <1>2, <2>1, <2>2, <2>3, <2>4
<1>6. added'[l] = added[l] + n /\ lists'[l].size = added'[l]
  BY <1>0, <1>1, <1>2
<1>7. \A u \in Threads : ~(no'[u] = l /\ step'[u] \in Adding)
  BY <1>0, <1>1, <1>4 DEF Adding
<1>8. AddedInOrder(l)'
  <2>1. no'[t] = l
    BY <1>1
  <2> HIDE DEF l, n
  <2> QED
    BY <1>1, <1>5, <1>6, <1>7, <2>1 DEF AddedInOrder, l
<1>9. \A m \in Lists \ {l} : added'[m] = added[m] /\ content'[m] = content[m]
  BY <1>0, <1>1
<1> QED
  BY <1>1, <1>8, <1>9

\* A step that changes no list and neither begins nor ends an addition.
NoEntriesMove(t) ==
  /\ lists' = lists /\ content' = content /\ added' = added
  /\ step[t] \in Adding \/ step'[t] \in Adding =>
       /\ step[t] \in Adding /\ step'[t] \in Adding
       /\ no'[t] = no[t] /\ call'[t].n = call[t].n

LEMMA OtherSteps ==
  ASSUME Inv, NEW t \in Threads,
         \/ \E l \in Lists, c \in Calls : Begin(t, l, c)
         \/ Step(t) \/ Spurious(t),
         ~ResizeInPlace(t), ~Publish(t), ~WriteCodes(t)
  PROVE  NoEntriesMove(t)
<1>0. /\ step \in [Threads -> Steps] /\ LL!TypeOK
      /\ call \in [Threads -> [op : {"add", "resize", "read"}, n : Nat,
                               base : Nat, new : ListType]]
  BY Shapes
<1>1. lists' = lists /\ content' = content /\ added' = added
  BY DEF Step, Begin, Spurious, Waiting, LockSlots, FreeSlot, AllocateSlot,
         LockRemap, Unmap, Remap, RemapThrows, UnlockRemap, CopyCommon, GetIds,
         WriteIds, GetList, ReadList, Return, ghosts
<1>2. CASE (\E l \in Lists, c \in Calls : Begin(t, l, c))
             \/ LockSlots(t) \/ FreeSlot(t) \/ AllocateSlot(t)
             \/ LockRemap(t) \/ Unmap(t) \/ Remap(t) \/ RemapThrows(t)
             \/ UnlockRemap(t) \/ CopyCommon(t)
             \/ GetList(t) \/ ReadList(t) \/ Return(t)
  <2>1. step[t] \notin Adding
    BY <1>0, <1>2, StepFollowsLockPreserved
       DEF Inv, StoreInv, StepFollowsLock, LockAt, Begin, LockSlots, FreeSlot,
           AllocateSlot, LockRemap, Unmap, Remap, RemapThrows, UnlockRemap,
           CopyCommon, GetList, ReadList, Return, Adding
  <2>2. step'[t] \notin Adding
    BY <1>0, <1>2
       DEF Begin, LockSlots, FreeSlot, AllocateSlot, LockRemap, Unmap, Remap,
           RemapThrows, UnlockRemap, CopyCommon, GetList, ReadList, Return,
           Goto, Adding
  <2> QED
    BY <1>1, <2>1, <2>2 DEF NoEntriesMove
<1>3. CASE Spurious(t) \/ Waiting(t)
  <2>1. step' = step /\ call' = call /\ no' = no
    BY <1>0, <1>3, MethodsMove DEF Spurious, Waiting
  <2> QED
    BY <1>1, <2>1 DEF NoEntriesMove
<1>4. CASE GetIds(t) \/ WriteIds(t)
  <2>1. /\ step[t] \in Adding /\ step'[t] \in Adding /\ no' = no
        /\ call'[t].n = call[t].n
    BY <1>0, <1>4 DEF GetIds, WriteIds, Goto, Adding, lockVars
  <2> QED
    BY <1>1, <2>1 DEF NoEntriesMove
<1> QED
  BY <1>2, <1>3, <1>4 DEF Step

LEMMA AddsInOrderPreserved ==
  ASSUME Inv, AddsInOrder, ResizeSizes = {}, NEW t \in Threads,
         \/ \E l \in Lists, c \in Calls : Begin(t, l, c)
         \/ Step(t) \/ Spurious(t)
  PROVE  AddsInOrder'
<1>0. /\ call \in [Threads -> CallType] /\ no \in [Threads -> Lists]
      /\ Frame(t)
  BY Shapes, FrameHolds DEF CallType
<1>1. OnlyAdds'
  <2>1. call'[t].op \in {call[t].op, "add", "read"}
    <3>1. \A c \in Calls : c[1] \in {"add", "read"}
      BY DEF Calls
    <3> QED
      BY <1>0, <3>1
         DEF Step, Begin, Spurious, Waiting, ResizeInPlace, LockSlots, FreeSlot,
             AllocateSlot, LockRemap, Unmap, Remap, RemapThrows, UnlockRemap,
             CopyCommon, Publish, GetIds, WriteIds, WriteCodes, GetList,
             ReadList, Return, CallType
  <2> QED
    BY <1>0, <2>1 DEF AddsInOrder, OnlyAdds, Frame
<1>2. ASSUME NEW l \in Lists, l # no[t] \/ NoEntriesMove(t),
             lists'[l] = lists[l], content'[l] = content[l], added'[l] = added[l],
             \A u \in Threads \ {t} :
               step'[u] = step[u] /\ call'[u] = call[u] /\ no'[u] = no[u],
             NoEntriesMove(t) \/ no' = no
      PROVE  AddedInOrder(l)'
  <2>1. AddedInOrder(l)
    BY DEF AddsInOrder
  <2>2. \A u \in Threads :
          /\ (no'[u] = l /\ step'[u] \in Adding)
                <=> (no[u] = l /\ step[u] \in Adding)
          /\ no'[u] = l /\ step'[u] \in Adding => call'[u].n = call[u].n
    BY <1>2 DEF NoEntriesMove
  <2>3. \A j \in 1..added'[l] : content'[l][j] = j
    BY <1>2, <2>1 DEF AddedInOrder
  <2>4. \A u \in Threads : no'[u] = l /\ step'[u] \in Adding =>
          lists'[l].size = added'[l] + call'[u].n
    BY <1>2, <2>1, <2>2 DEF AddedInOrder
  <2>5. (\E u \in Threads : no'[u] = l /\ step'[u] \in Adding)
          \/ lists'[l].size = added'[l]
    BY <1>2, <2>1, <2>2 DEF AddedInOrder
  <2> QED
    BY <2>3, <2>4, <2>5 DEF AddedInOrder
<1>3. \A u \in Threads \ {t} :
        step'[u] = step[u] /\ call'[u] = call[u] /\ no'[u] = no[u]
  BY <1>0 DEF Frame
<1>4. no[t] \in Lists /\ AddedInOrder(no[t]) /\ call[t].op # "resize"
  BY <1>0 DEF AddsInOrder, OnlyAdds
<1>5. CASE ResizeInPlace(t) \/ Publish(t)
  <2>1. /\ AddedInOrder(no[t])' /\ added' = added /\ call' = call /\ no' = no
        /\ \A l \in Lists \ {no[t]} :
              lists'[l] = lists[l] /\ content'[l] = content[l]
    BY <1>4, <1>5, RoomMade
  <2>2. \A l \in Lists : l # no[t] => AddedInOrder(l)'
    BY <1>2, <1>3, <2>1
  <2>3. \A l \in Lists : l = no[t] => AddedInOrder(l)'
    BY <2>1 DEF AddedInOrder
  <2> QED
    BY <1>1, <2>2, <2>3 DEF AddsInOrder
<1>6. CASE WriteCodes(t)
  <2>1. /\ AddedInOrder(no[t])' /\ no' = no /\ call' = call /\ lists' = lists
        /\ \A l \in Lists \ {no[t]} :
              added'[l] = added[l] /\ content'[l] = content[l]
    BY <1>4, <1>6, EntriesWritten
  <2>2. \A l \in Lists : l # no[t] => AddedInOrder(l)'
    BY <1>2, <1>3, <2>1
  <2>3. \A l \in Lists : l = no[t] => AddedInOrder(l)'
    BY <2>1 DEF AddedInOrder
  <2> QED
    BY <1>1, <2>2, <2>3 DEF AddsInOrder
<1>7. CASE ~ResizeInPlace(t) /\ ~Publish(t) /\ ~WriteCodes(t)
  <2>1. NoEntriesMove(t)
    BY <1>7, OtherSteps
  <2>2. \A l \in Lists : AddedInOrder(l)'
    BY <1>2, <1>3, <2>1 DEF NoEntriesMove
  <2> QED
    BY <1>1, <2>2 DEF AddsInOrder
<1> QED
  BY <1>5, <1>6, <1>7

\* Without calls of resize, the lists hold what add_entries added, in order.
LEMMA AddsInvariance ==
  ASSUME ResizeSizes = {}
  PROVE  Spec => []AddsInOrder
<1>1. Init => AddsInOrder
  <2> SUFFICES ASSUME Init PROVE AddsInOrder
    OBVIOUS
  <2>1. /\ lists = [l \in Lists |-> EmptyList]
        /\ step = [t \in Threads |-> "ready"]
        /\ call = [t \in Threads |-> [op |-> "read", n |-> 0, base |-> 0,
                                      new |-> EmptyList]]
        /\ added = [l \in Lists |-> 0]
    BY DEF Init
  <2> QED
    BY <2>1 DEF AddsInOrder, OnlyAdds, AddedInOrder, Adding, EmptyList
<1>2. Inv /\ AddsInOrder /\ [Next]_vars => AddsInOrder'
  <2> SUFFICES ASSUME Inv, AddsInOrder, [Next]_vars
               PROVE  AddsInOrder'
    OBVIOUS
  <2>1. CASE UNCHANGED vars
    BY <2>1 DEF vars, lockVars, ghosts, AddsInOrder, OnlyAdds, AddedInOrder
  <2>2. ASSUME NEW t \in Threads,
               \/ \E l \in Lists, c \in Calls : Begin(t, l, c)
               \/ Step(t) \/ Spurious(t)
        PROVE  AddsInOrder'
    BY <2>2, AddsInOrderPreserved
  <2> QED
    BY <2>1, <2>2 DEF Next, Finished
<1> QED
  BY <1>1, <1>2, Invariance, PTL DEF Spec

\* When all calls of add_entries have returned, each list holds what was added
\* to it, in order, once; calls of resize, which drop entries, are left out.
THEOREM NothingAddedIsLost ==
  ASSUME ResizeSizes = {}
  PROVE  Spec => []AddsComplete
<1>1. Inv /\ AddsInOrder => AddsComplete
  <2> SUFFICES ASSUME Inv, AddsInOrder, \A t \in Threads : step[t] = "ready",
                      NEW l \in Lists
               PROVE  /\ lists[l].size = added[l]
                      /\ content[l] = [j \in 1..added[l] |-> j]
    BY DEF AddsComplete
  <2>1. /\ lists[l].size = added[l]
        /\ \A j \in 1..added[l] : content[l][j] = j
    BY DEF AddsInOrder, AddedInOrder, Adding
  <2>2. content[l] \in Seq(Nat) /\ Len(content[l]) = added[l]
    BY <2>1, Shapes DEF Inv, StoreInv, ListsInOrder
  <2>3. content[l] \in [1..added[l] -> Nat]
    BY <2>2, LenProperties
  <2> QED
    BY <2>1, <2>3
<1> QED
  BY <1>1, Invariance, AddsInvariance, PTL

-----------------------------------------------------------------------------
(* Entries through moves                                                   *)

\* A call that shrinks a list so far that it moves, but not to nothing, is
\* about to free its block.
ShrinkingMove ==
  \E t \in Threads :
    step[t] = "free" /\ 0 < NewSize(t) /\ NewSize(t) < lists[no[t]].size

\* More than half of a block is in use: the capacity is the least power of two
\* that suffices.
HalfFull(d) == d.capacity > 0 => d.size > d.capacity \div 2

\* What free_slot is not given of the block of a list.
Rest(d) ==
  Slot(d.offset + FreedBytes(d), d.capacity * EntrySize - FreedBytes(d))

\* A list that moves, but not to nothing, moves to a larger block, ...
MoveGrows(t) ==
  /\ step[t] = "free" => ~FitsInPlace(lists[no[t]], NewSize(t))
  /\ step[t] \in Moving =>
       /\ HalfFull(call[t].new)
       /\ call[t].new.capacity > 0 =>
            /\ lists[no[t]].size <= call[t].new.size
            /\ lists[no[t]].capacity < call[t].new.capacity

MovesGrow ==
  /\ \A l \in Lists : HalfFull(lists[l])
  /\ \A t \in Threads : MoveGrows(t)

\* ... which is clear of the part of the old one that was not freed.
RestClear(t) ==
  lists[no[t]].capacity > 0 /\ step[t] \in Moving =>
    /\ step[t] \notin Placed => Clear(slots, Rest(lists[no[t]]))
    /\ step[t] \in Placed /\ call[t].new.capacity > 0 =>
         ~Overlap(Block(call[t].new), Rest(lists[no[t]]))

\* The blocks of the lists are apart, those of lists that move included.
ListsApart ==
  /\ \A l \in Lists : lists[l].capacity > 0 => End(Block(lists[l])) <= totsize
  /\ \A l, m \in Lists :
       l # m /\ lists[l].capacity > 0 /\ lists[m].capacity > 0 =>
         ~Overlap(Block(lists[l]), Block(lists[m]))

\* The first n entries c of list l are in the file f, at the block of d.
EntriesIn(f, d, l, c, n) ==
  \A j \in 0..(n - 1) :
    c[j + 1] # 0 => /\ CodeObject(d, l, j, c[j + 1]) \in f
                    /\ IdObject(d, l, j, c[j + 1]) \in f

Publishing(l) == \E t \in Threads : no[t] = l /\ step[t] = "publish"

\* What was written to a list can be read from it, ...
EntriesOf(l) ==
  ~Publishing(l) => EntriesIn(file, lists[l], l, content[l], lists[l].size)

\* ... from its new block once it is copied, ...
CopiedBy(t) ==
  step[t] = "publish" /\ call[t].new.capacity > 0 =>
    EntriesIn(file, call[t].new, no[t], content[no[t]], lists[no[t]].size)

\* ... while the room made for the entries of a call is blank ...
RoomBlank(t) ==
  step[t] \in Adding => \A j \in Positions(t) : content[no[t]][j + 1] = 0

\* ... and then holds their ids.
IdsWritten(t) ==
  step[t] = "write_codes" =>
    \A j \in Positions(t) :
      IdObject(lists[no[t]], no[t], j, Serial(t, j)) \in file

EntriesKept ==
  /\ \A l \in Lists : EntriesOf(l)
  /\ \A t \in Threads : CopiedBy(t) /\ RoomBlank(t) /\ IdsWritten(t)

KeptInv ==
  MovesGrow /\ ListsApart /\ (\A t \in Threads : RestClear(t)) /\ EntriesKept

-----------------------------------------------------------------------------
\* The least power of two that is at least n is less than 2 * n.
LEMMA HalfOfCapacity == \A n \in Nat \ {0} : PowerOfTwo(n) \div 2 < n
<1> SUFFICES ASSUME NEW n \in Nat \ {0}
             PROVE  PowerOfTwo(n) \div 2 < n
  OBVIOUS
<1> DEFINE k == Doublings(1, n)
<1>1. k \in Nat /\ \A j \in 0..(k - 1) : 1 * Power2[j] < n
  BY DoublingsReach
<1>2. PowerOfTwo(n) = Power2[k]
  BY DEF PowerOfTwo
<1> HIDE DEF k
<1>3. CASE k = 0
  <2>1. PowerOfTwo(n) = 1
    BY <1>2, <1>3, Power2Values
  <2>2. 1 \div 2 = 0
    OBVIOUS
  <2> QED
    BY <2>1, <2>2
<1>4. CASE k > 0
  <2>1. k - 1 \in Nat /\ k - 1 \in 0..(k - 1) /\ (k - 1) + 1 = k
    BY <1>1, <1>4
  <2>2. Power2[k] = 2 * Power2[k - 1] /\ Power2[k - 1] \in Nat
    BY <2>1, Power2Values
  <2>3. \A p \in Nat : (2 * p) \div 2 = p /\ 1 * p = p
    OBVIOUS
  <2> QED
    BY <1>1, <1>2, <2>1, <2>2, <2>3
<1> QED
  BY <1>1, <1>3, <1>4

\* The old block of a list, its new one, and the room for either, move only
\* with the thread that works on the list.
LEMMA OthersMoveGrows ==
  ASSUME Inv, MovesGrow, NEW t \in Threads, Frame(t), NEW u \in Threads \ {t}
  PROVE  MoveGrows(u)'
<1>1. MoveGrows(u)
  BY DEF MovesGrow
<1>2. step'[u] = step[u] /\ call'[u] = call[u] /\ no'[u] = no[u]
  BY DEF Frame
<1>3. step[u] \in {"free"} \cup Moving => lists'[no[u]] = lists[no[u]]
  BY DEF Frame, Inv, StoreInv, StepFollowsLock, LockAt, Moving, LL!OwnsLock1,
         LL!InLock2, LL!OwnsLock2, LL!InLock3
<1> QED
  BY <1>1, <1>2, <1>3 DEF MoveGrows, NewSize

\* A list that moves gets a larger block.
LEMMA FreeSlotGrows ==
  ASSUME Inv, MovesGrow, ~ShrinkingMove, NEW t \in Threads, FreeSlot(t)
  PROVE  MoveGrows(t)'
<1> DEFINE old == lists[no[t]]
           n == NewSize(t)
<1>0. /\ no[t] \in Lists /\ old \in ListType /\ n \in Nat
      /\ old.size \in Nat /\ old.capacity \in Nat
      /\ call \in [Threads -> [op : {"add", "resize", "read"}, n : Nat,
                               base : Nat, new : ListType]]
      /\ step \in [Threads -> Steps]
  BY Shapes, NewSizeNat DEF ListType
<1>1. /\ step[t] = "free" /\ lists' = lists /\ no' = no /\ step'[t] # "free"
      /\ call'[t].new = IF n = 0 THEN EmptyList
                        ELSE [size |-> n, capacity |-> PowerOfTwo(n),
                              offset |-> InvalidOffset]
  BY <1>0 DEF FreeSlot, lockVars, Goto
<1>2. HalfFull(old) /\ ~FitsInPlace(old, n) /\ (n = 0 \/ old.size <= n)
  BY <1>0, <1>1 DEF MovesGrow, MoveGrows, ShrinkingMove
<1>3. old.capacity \div 2 \in Nat
  BY <1>0
<1> HIDE DEF n
<1>4. CASE n = 0
  BY <1>1, <1>4 DEF MoveGrows, HalfFull, EmptyList
<1>5. CASE n # 0
  <2>1. PowerOfTwo(n) \div 2 < n /\ n <= PowerOfTwo(n) /\ PowerOfTwo(n) \in Nat
    BY <1>0, <1>5, HalfOfCapacity, NewSizes
  <2>2. old.capacity < n
    BY <1>0, <1>2, <1>3, <1>5 DEF HalfFull, FitsInPlace
  <2> QED
    BY <1>0, <1>1, <1>2, <1>5, <2>1, <2>2 DEF MoveGrows, HalfFull
<1> QED
  BY <1>4, <1>5

\* While no list shrinks by a move, each one that moves grows.
LEMMA MovesGrowPreserved ==
  ASSUME Inv, MovesGrow, ~ShrinkingMove, NEW t \in Threads,
         \/ \E l \in Lists, c \in Calls : Begin(t, l, c)
         \/ Step(t) \/ Spurious(t)
  PROVE  MovesGrow'
<1>0. /\ lists \in [Lists -> ListType] /\ step \in [Threads -> Steps]
      /\ call \in [Threads -> [op : {"add", "resize", "read"}, n : Nat,
                               base : Nat, new : ListType]]
      /\ no[t] \in Lists /\ LL!TypeOK /\ MoveGrows(t)
      /\ \A l \in Lists : HalfFull(lists[l])
  BY Shapes DEF MovesGrow
<1>1. \A u \in Threads \ {t} : MoveGrows(u)'
  BY FrameHolds, OthersMoveGrows
<1>2. CASE ResizeInPlace(t)
  <2>1. step'[t] \notin {"free"} \cup Moving
    BY <1>0, <1>2 DEF ResizeInPlace, Goto, AfterResize, Moving
  <2>2. /\ lists' = [lists EXCEPT ![no[t]].size = NewSize(t)]
        /\ FitsInPlace(lists[no[t]], NewSize(t))
    BY <1>2 DEF ResizeInPlace
  <2>3. \A l \in Lists : HalfFull(lists'[l])
    BY <1>0, <2>2 DEF HalfFull, FitsInPlace, ListType
  <2> QED
    BY <1>1, <2>1, <2>3 DEF MovesGrow, MoveGrows
<1>3. CASE Publish(t)
  <2>1. step'[t] \notin {"free"} \cup Moving
    BY <1>0, <1>3 DEF Publish, Goto, AfterResize, Moving
  <2>2. /\ lists' = [lists EXCEPT ![no[t]] = call[t].new]
        /\ HalfFull(call[t].new)
    BY <1>0, <1>3 DEF Publish, MoveGrows, Moving
  <2>3. \A l \in Lists : HalfFull(lists'[l])
    BY <1>0, <2>2
  <2> QED
    BY <1>1, <2>1, <2>3 DEF MovesGrow, MoveGrows
<1>4. CASE FreeSlot(t)
  <2>1. lists' = lists
    BY <1>4 DEF FreeSlot
  <2> QED
    BY <1>0, <1>1, <1>4, <2>1, FreeSlotGrows DEF MovesGrow
<1>5. CASE LockSlots(t)
  <2>1. /\ lists' = lists /\ no' = no /\ call' = call /\ step'[t] = "free"
        /\ ~FitsInPlace(lists[no[t]], NewSize(t))
    BY <1>0, <1>5, MethodsMove DEF LockSlots, Goto
  <2> QED
    BY <1>0, <1>1, <2>1 DEF MovesGrow, MoveGrows, Moving, NewSize
<1>6. CASE AllocateSlot(t)
  <2>1. /\ lists' = lists /\ no' = no /\ step'[t] # "free" /\ step[t] \in Moving
        /\ call'[t].new.size = call[t].new.size
        /\ call'[t].new.capacity = call[t].new.capacity
    BY <1>0, <1>6 DEF AllocateSlot, Goto, lockVars, Moving, ListType
  <2> QED
    BY <1>0, <1>1, <2>1 DEF MovesGrow, MoveGrows, HalfFull
<1>7. CASE \/ LockRemap(t) \/ Unmap(t) \/ Remap(t) \/ RemapThrows(t)
           \/ UnlockRemap(t) \/ CopyCommon(t)
  <2>1. /\ lists' = lists /\ no' = no /\ call' = call /\ step'[t] # "free"
        /\ step[t] \in Moving
    BY <1>0, <1>7, MethodsMove, StepFollowsLockPreserved
       DEF LockRemap, Unmap, Remap, RemapThrows, UnlockRemap, CopyCommon, Goto,
           lockVars, Moving, Inv, StoreInv, StepFollowsLock, LockAt
  <2> QED
    BY <1>0, <1>1, <2>1 DEF MovesGrow, MoveGrows
<1>8. CASE Waiting(t) \/ Spurious(t)
  <2>1. lists' = lists /\ no' = no /\ call' = call /\ step' = step
    BY <1>0, <1>8, MethodsMove DEF Waiting, Spurious
  <2> QED
    BY <1>0, <1>1, <2>1 DEF MovesGrow, MoveGrows, NewSize
<1>9. CASE \/ \E l \in Lists, c \in Calls : Begin(t, l, c)
           \/ GetIds(t) \/ WriteIds(t) \/ WriteCodes(t)
           \/ GetList(t) \/ ReadList(t) \/ Return(t)
  <2>1. lists' = lists /\ step'[t] \notin {"free"} \cup Moving
    BY <1>0, <1>9 DEF Begin, GetIds, WriteIds, WriteCodes, GetList, ReadList,
                      Return, Goto, Moving
  <2> QED
    BY <1>0, <1>1, <2>1 DEF MovesGrow, MoveGrows
<1> QED
  BY <1>2, <1>3, <1>4, <1>5, <1>6, <1>7, <1>8, <1>9 DEF Step
-----------------------------------------------------------------------------
\* The bytes of some entries, of their ids and of their codes.
LEMMA EntryBytes ==
  \A n \in Nat : /\ n * EntrySize = n * IdSize + n * CodeSize
                 /\ n * IdSize \in Nat /\ n * CodeSize \in Nat
                 /\ n <= n * IdSize /\ n <= n * CodeSize
<1>1. CodeSize \in Nat \ {0} /\ EntrySize = IdSize + CodeSize /\ IdSize \in Nat
  BY Products DEF EntrySize
<1>2. \A n, a, b \in Nat : n * (a + b) = n * a + n * b
  OBVIOUS
<1>3. \A n \in Nat : n <= n * IdSize
  BY DEF IdSize
<1>4. \A n \in Nat, m \in Nat \ {0} : n <= n * m
  OBVIOUS
<1> QED
  BY <1>1, <1>2, <1>3, <1>4, Products

\* The part of a block that free_slot is not given begins where the other part
\* ends, and holds most of the block.
LEMMA RestBytes ==
  ASSUME NEW d \in ListType, d.capacity > 0, d.offset \in Nat
  PROVE  /\ Rest(d) \in Bytes
         /\ Rest(d).offset = d.offset + d.capacity
         /\ End(Rest(d)) = End(Block(d))
         /\ ~Overlap(Slot(d.offset, FreedBytes(d)), Rest(d))
         /\ \A r \in Bytes : ~Overlap(r, Block(d)) => ~Overlap(r, Rest(d))
<1>1. d.capacity \in Nat \ {0}
  BY DEF ListType
<1> DEFINE size == d.capacity * EntrySize
<1>2. size \in Nat /\ d.capacity < size
  BY <1>1, EntryBytes
<1>3. /\ Rest(d) = Slot(d.offset + d.capacity, size - d.capacity)
      /\ Block(d).offset = d.offset /\ End(Block(d)) = d.offset + size
  BY BlockBytes DEF Rest, FreedBytes
<1> HIDE DEF size
<1>4. /\ Rest(d) \in Bytes /\ Rest(d).offset = d.offset + d.capacity
      /\ End(Rest(d)) = d.offset + size
  BY <1>1, <1>2, <1>3 DEF Slot, Bytes, End
<1>5. ~Overlap(Slot(d.offset, FreedBytes(d)), Rest(d))
  BY <1>1, <1>4 DEF Slot, Overlap, End, FreedBytes
<1>6. ASSUME NEW r \in Bytes, Overlap(r, Rest(d))
      PROVE  Overlap(r, Block(d))
  <2>1. r.offset \in Nat /\ End(r) \in Nat
    BY DEF Bytes, End
  <2> QED
    BY <1>1, <1>2, <1>3, <1>4, <1>6, <2>1 DEF Overlap
<1> QED
  BY <1>3, <1>4, <1>5, <1>6

\* A list with a block is a range of bytes of the file.
LEMMA ListBytes ==
  ASSUME Inv, NEW l \in Lists, lists[l].capacity > 0
  PROVE  /\ lists[l] \in ListType /\ lists[l].offset \in Nat
         /\ Block(lists[l]) \in Bytes /\ Rest(lists[l]) \in Bytes
<1>1. lists[l] \in ListType /\ lists[l].offset \in Nat
  BY Shapes DEF Inv, StoreInv, ListsInOrder, Fits
<1> QED
  BY <1>1, BlockBytes, RestBytes

\* Only one thread moves a list at a time.
LEMMA OneMoves ==
  ASSUME Inv, NEW t \in Threads, step[t] \in Moving,
         NEW u \in Threads, step[u] \in Moving
  PROVE  t = u /\ pc[t] \in LL!OwnsLock1 /\ pc[t] \in LL!OwnsLock2
<1>1. pc[t] \in LL!OwnsLock2 /\ pc[u] \in LL!OwnsLock2
  BY DEF Inv, StoreInv, StepFollowsLock, LockAt, Moving, LL!OwnsLock2, LL!InLock3
<1>2. pc[t] \in LL!OwnsLock1
  BY DEF Inv, StoreInv, StepFollowsLock, LockAt, Moving, LL!OwnsLock1,
         LL!InLock2, LL!OwnsLock2, LL!InLock3
<1> QED
  BY <1>1, <1>2, Shapes DEF LocksApart

\* A block from allocate_slot is apart from those of the other lists.
LEMMA NewBlockApart ==
  ASSUME Inv, NEW t \in Threads, step[t] \in Placed, call[t].new.capacity > 0,
         NEW m \in Lists \ {no[t]}, lists[m].capacity > 0
  PROVE  /\ call[t].new \in ListType /\ call[t].new.offset \in Nat
         /\ Block(call[t].new) \in Bytes
         /\ End(Block(call[t].new)) <= totsize
         /\ ~Overlap(Block(call[t].new), Block(lists[m]))
         /\ ~Overlap(Block(lists[m]), Block(call[t].new))
<1>1. no[t] \in Lists /\ call[t].new \in ListType /\ call[t].new.offset \in Nat
  BY Shapes DEF Inv, StoreInv, CallsInOrder, CallInOrder, Fits
<1>2. ~Moved(m)
  BY OneMoves DEF Moved, Placed, Moving
<1>3. Holds(m, Block(lists[m])) /\ Holds(no[t], Block(call[t].new))
  BY <1>2 DEF Holds
<1>4. Block(lists[m]) \in Bytes /\ Block(call[t].new) \in Bytes
  BY <1>1, <1>3, HoldsBytes
<1> QED
  BY <1>1, <1>3, <1>4 DEF Inv, StoreInv, BlocksApart

\* The file never gets smaller.
LEMMA FileGrows ==
  ASSUME Inv, NEW t \in Threads,
         \/ \E l \in Lists, c \in Calls : Begin(t, l, c)
         \/ Step(t) \/ Spurious(t)
  PROVE  totsize <= totsize' /\ totsize' \in Nat
<1>0. totsize \in Nat
  BY Shapes
<1>1. CASE FreeSlot(t) \/ AllocateSlot(t) \/ Publish(t)
  BY <1>0, <1>1 DEF FreeSlot, AllocateSlot, Publish, space
<1>2. CASE Remap(t) \/ RemapThrows(t)
  BY <1>0, <1>2, GrowthSteps, GrowthKeeps
<1>3. CASE ~(FreeSlot(t) \/ AllocateSlot(t) \/ Publish(t)
             \/ Remap(t) \/ RemapThrows(t))
  BY <1>0, <1>3, QuietSteps DEF Step
<1> QED
  BY <1>1, <1>2, <1>3

\* The blocks of lists stay apart.
LEMMA ListsApartPreserved ==
  ASSUME Inv, ListsApart, NEW t \in Threads,
         \/ \E l \in Lists, c \in Calls : Begin(t, l, c)
         \/ Step(t) \/ Spurious(t)
  PROVE  ListsApart'
<1>0. /\ totsize <= totsize' /\ totsize' \in Nat /\ totsize \in Nat
      /\ lists \in [Lists -> ListType] /\ no[t] \in Lists
  BY FileGrows, Shapes
<1>1. \A l \in Lists : lists[l].capacity > 0 =>
        Block(lists[l]) \in Bytes /\ End(Block(lists[l])) \in Nat
  BY ListBytes, BlockBytes
<1>2. ASSUME \A l \in Lists : /\ lists'[l].offset = lists[l].offset
                              /\ lists'[l].capacity = lists[l].capacity
      PROVE  ListsApart'
  <2>1. \A l \in Lists : Block(lists[l])' = Block(lists[l])
    BY <1>2 DEF Block
  <2>2. \A l \in Lists : lists'[l].capacity > 0 => End(Block(lists[l])') <= totsize'
    BY <1>0, <1>1, <1>2, <2>1 DEF ListsApart
  <2> QED
    BY <1>2, <2>1, <2>2 DEF ListsApart, Block
<1>3. CASE Publish(t)
  <2> DEFINE new == call[t].new
             b(l) == Block(lists'[l])
  <2>1. /\ lists' = [lists EXCEPT ![no[t]] = new] /\ step[t] \in Placed
        /\ totsize' = totsize
    BY <1>3 DEF Publish, Placed, space
  <2>2. lists'[no[t]] = new /\ \A l \in Lists \ {no[t]} : lists'[l] = lists[l]
    BY <1>0, <2>1
  <2>3. ASSUME NEW m \in Lists \ {no[t]}, new.capacity > 0, lists[m].capacity > 0
        PROVE  ~Overlap(Block(new), Block(lists[m]))
               /\ ~Overlap(Block(lists[m]), Block(new))
    BY <2>1, <2>3, NewBlockApart
  <2>4. ASSUME new.capacity > 0
        PROVE  End(Block(new)) <= totsize
    <3>1. Holds(no[t], Block(new))
      BY <2>1, <2>4 DEF Holds
    <3> QED
      BY <1>0, <3>1, HoldsBytes DEF Inv, StoreInv, BlocksApart
  <2> HIDE DEF new
  <2>5. ASSUME NEW l \in Lists, lists'[l].capacity > 0
        PROVE  End(b(l)) <= totsize'
    BY <2>1, <2>2, <2>4, <2>5 DEF ListsApart
  <2>6. ASSUME NEW l \in Lists, NEW m \in Lists, l # m,
               lists'[l].capacity > 0, lists'[m].capacity > 0
        PROVE  ~Overlap(b(l), b(m))
    <3>1. CASE l # no[t] /\ m # no[t]
      BY <2>2, <2>6, <3>1 DEF ListsApart
    <3>2. CASE l = no[t] \/ m = no[t]
      BY <2>2, <2>3, <2>6, <3>2
    <3> QED
      BY <3>1, <3>2
  <2> QED
    BY <2>5, <2>6 DEF ListsApart, Block
<1>4. CASE FreeSlot(t) \/ AllocateSlot(t)
  BY <1>2, <1>4 DEF FreeSlot, AllocateSlot
<1>5. CASE Remap(t) \/ RemapThrows(t)
  BY <1>2, <1>5 DEF Remap, RemapThrows
<1>6. CASE ~(FreeSlot(t) \/ AllocateSlot(t) \/ Publish(t)
             \/ Remap(t) \/ RemapThrows(t))
  BY <1>2, <1>6, QuietSteps DEF Step, StaysPut
<1> QED
  BY <1>3, <1>4, <1>5, <1>6

\* What free_slot was not given of an old block stays clear of the free slots,
\* and so of the new block.
LEMMA RestClearPreserved ==
  ASSUME Inv, ListsApart, \A u \in Threads : RestClear(u), NEW t \in Threads,
         \/ \E l \in Lists, c \in Calls : Begin(t, l, c)
         \/ Step(t) \/ Spurious(t)
  PROVE  \A u \in Threads : RestClear(u)'
<1> DEFINE old == lists[no[t]]
<1>0. /\ lists \in [Lists -> ListType] /\ step \in [Threads -> Steps]
      /\ call \in [Threads -> [op : {"add", "resize", "read"}, n : Nat,
                               base : Nat, new : ListType]]
      /\ no[t] \in Lists /\ LL!TypeOK /\ totsize \in Nat
      /\ slots \in Seq(Bytes) /\ Ordered(slots) /\ RestClear(t)
  BY Shapes
<1>1. ASSUME NEW u \in Threads \ {t}
      PROVE  RestClear(u)'
  <2>1. /\ step'[u] = step[u] /\ call'[u] = call[u] /\ no'[u] = no[u]
        /\ step[u] \in Moving => lists'[no[u]] = lists[no[u]] /\ slots' = slots
    BY FrameHolds, OneMoves DEF Frame
  <2> QED
    BY <2>1 DEF RestClear, Rest, Block, FreedBytes
<1>2. CASE FreeSlot(t)
  <2>1. /\ step[t] = "free" /\ lists' = lists /\ no' = no
        /\ step'[t] \in Placed => call'[t].new = EmptyList
        /\ slots' = Free(slots, old.offset, FreedBytes(old))
    BY <1>0, <1>2 DEF FreeSlot, lockVars, Goto, Placed
  <2>2. ASSUME old.capacity > 0
        PROVE  Clear(slots', Rest(old))
    <3>1. /\ Holds(no[t], Block(old)) /\ old \in ListType /\ old.offset \in Nat
      BY <2>1, <2>2, FreedIsHeld
    <3>2. /\ old.offset \in Nat /\ FreedBytes(old) \in Nat \ {0}
          /\ Clear(slots, Slot(old.offset, FreedBytes(old)))
      BY <2>1, <2>2, FreedIsClear
    <3>3. /\ Rest(old) \in Bytes /\ Block(old) \in Bytes
          /\ ~Overlap(Slot(old.offset, FreedBytes(old)), Rest(old))
          /\ \A r \in Bytes : ~Overlap(r, Block(old)) => ~Overlap(r, Rest(old))
      BY <2>2, <3>1, BlockBytes, RestBytes
    <3>4. Clear(slots, Block(old))
      BY <1>0, <3>1, <3>3 DEF Inv, StoreInv, BlocksApart
    <3>5. Clear(slots, Rest(old))
      BY <1>0, <3>3, <3>4, SlotNumbers DEF Clear
    <3> HIDE DEF old
    <3> QED
      BY <1>0, <2>1, <3>2, <3>3, <3>5, FreeKeeps
  <2>3. RestClear(t)'
    BY <2>1, <2>2 DEF RestClear, Rest, FreedBytes, EmptyList
  <2> QED
    BY <1>1, <2>3
<1>3. CASE AllocateSlot(t)
  <2>1. /\ step[t] \in Moving \ Placed /\ lists' = lists /\ no' = no
        /\ step'[t] = "copy"
    BY <1>0, <1>3 DEF AllocateSlot, lockVars, Goto, Moving, Placed
  <2>2. ASSUME old.capacity > 0
        PROVE  ~Overlap(Block(call'[t].new), Rest(old))
    <3>1. Clear(slots, Rest(old)) /\ Rest(old) \in Bytes
      BY <1>0, <2>1, <2>2, ListBytes DEF RestClear
    <3> QED
      BY <1>3, <3>1, AllocateKeeps
  <2>3. RestClear(t)'
    BY <2>1, <2>2 DEF RestClear, Rest, FreedBytes, Block, Placed
  <2> QED
    BY <1>1, <2>3
<1>4. CASE Grows(t)
  <2>1. /\ step[t] \in Moving \ Placed /\ lists' = lists /\ no' = no
        /\ step'[t] \in Moving \ Placed
    BY <1>0, <1>4 DEF Grows, Remap, RemapThrows, lockVars, Goto, Moving, Placed
  <2>2. ASSUME old.capacity > 0
        PROVE  Clear(slots', Rest(old))
    <3>1. Clear(slots, Rest(old)) /\ Rest(old) \in Bytes
      BY <1>0, <2>1, <2>2, ListBytes DEF RestClear
    <3>2. End(Rest(old)) <= totsize
      BY <1>0, <2>2, ListBytes, RestBytes DEF ListsApart
    <3> QED
      BY <1>4, <3>1, <3>2, GrowthKeeps
  <2>3. RestClear(t)'
    BY <2>1, <2>2 DEF RestClear, Rest, FreedBytes
  <2> QED
    BY <1>1, <2>3
<1>5. ASSUME slots' = slots, lists' = lists, no' = no,
             call'[t].new = call[t].new,
             step'[t] \in Moving => step[t] \in Moving,
             step'[t] \in Placed <=> step[t] \in Placed
      PROVE  RestClear(t)'
  BY <1>0, <1>5 DEF RestClear, Rest, FreedBytes, Block
<1>6. CASE \/ LockRemap(t) \/ Unmap(t) \/ UnlockRemap(t) \/ CopyCommon(t)
           \/ (Remap(t) \/ RemapThrows(t)) /\ slots' = slots
  <2>1. /\ slots' = slots /\ lists' = lists /\ no' = no /\ call' = call
        /\ step[t] \in Moving
        /\ step'[t] \in Placed <=> step[t] \in Placed
    BY <1>0, <1>6, MethodsMove, StepFollowsLockPreserved
       DEF LockRemap, Unmap, UnlockRemap, CopyCommon, Remap, RemapThrows, Goto,
           lockVars, space, Moving, Placed, Inv, StoreInv, StepFollowsLock,
           LockAt
  <2> QED
    BY <1>1, <1>5, <2>1
<1>7. CASE Waiting(t) \/ Spurious(t)
  <2>1. slots' = slots /\ lists' = lists /\ no' = no /\ call' = call /\ step' = step
    BY <1>0, <1>7, MethodsMove DEF Waiting, Spurious, space
  <2> QED
    BY <1>1, <1>5, <2>1
<1>8. CASE \/ \E l \in Lists, c \in Calls : Begin(t, l, c)
           \/ ResizeInPlace(t) \/ LockSlots(t) \/ Publish(t)
           \/ GetIds(t) \/ WriteIds(t) \/ WriteCodes(t)
           \/ GetList(t) \/ ReadList(t) \/ Return(t)
  <2>1. step'[t] \notin Moving
    BY <1>0, <1>8 DEF Begin, ResizeInPlace, LockSlots, Publish, GetIds,
                      WriteIds, WriteCodes, GetList, ReadList, Return, Goto,
                      AfterResize, Moving
  <2> QED
    BY <1>1, <2>1 DEF RestClear
<1> QED
  BY <1>2, <1>3, <1>4, <1>6, <1>7, <1>8, GrowthSteps DEF Step
-----------------------------------------------------------------------------
\* Where the entries of a list are: the codes from the beginning of the block,
\* the ids from the end of the codes to the end of the block.
LEMMA Places ==
  ASSUME NEW d \in ListType, d.capacity > 0, d.offset \in Nat
  PROVE  /\ d.capacity \in Nat /\ End(Block(d)) \in Nat
         /\ CodeAt(d, 0) = d.offset /\ CodeAt(d, d.capacity) = IdAt(d, 0)
         /\ IdAt(d, d.capacity) = End(Block(d))
         /\ \A j \in Nat : CodeAt(d, j) \in Nat /\ IdAt(d, j) \in Nat
         /\ \A j \in Nat : /\ CodeAt(d, j) = d.offset + j * CodeSize
                           /\ IdAt(d, j) = IdAt(d, 0) + j * IdSize
         /\ \A j, n \in Nat : /\ CodeAt(d, j + n) = CodeAt(d, j) + n * CodeSize
                              /\ IdAt(d, j + n) = IdAt(d, j) + n * IdSize
         /\ \A j, k \in Nat : j <= k => /\ CodeAt(d, j) <= CodeAt(d, k)
                                        /\ IdAt(d, j) <= IdAt(d, k)
<1> DEFINE mid == d.capacity * CodeSize
<1>1. d.capacity \in Nat
  BY DEF ListType
<1>2. /\ mid \in Nat /\ d.capacity * IdSize \in Nat
      /\ d.capacity * EntrySize = d.capacity * IdSize + mid
  BY <1>1, EntryBytes
<1>3. 0 * CodeSize = 0 /\ 0 * IdSize = 0
  BY Products
<1>4. \A j \in Nat : /\ CodeAt(d, j) = d.offset + j * CodeSize
                     /\ IdAt(d, j) = d.offset + mid + j * IdSize
  BY DEF CodeAt, IdAt
<1>5. End(Block(d)) = d.offset + d.capacity * EntrySize
  BY BlockBytes
<1> HIDE DEF mid
<1>6. \A j \in Nat : j * CodeSize \in Nat /\ j * IdSize \in Nat
  BY Products
<1>7. /\ CodeAt(d, 0) = d.offset /\ CodeAt(d, d.capacity) = IdAt(d, 0)
      /\ IdAt(d, d.capacity) = End(Block(d)) /\ End(Block(d)) \in Nat
  BY <1>1, <1>2, <1>3, <1>4, <1>5 DEF mid
<1>8. \A j \in Nat : CodeAt(d, j) \in Nat /\ IdAt(d, j) \in Nat
  BY <1>2, <1>4, <1>6
<1>9. ASSUME NEW j \in Nat, NEW n \in Nat
      PROVE  /\ CodeAt(d, j + n) = CodeAt(d, j) + n * CodeSize
             /\ IdAt(d, j + n) = IdAt(d, j) + n * IdSize
  <2>1. \A w \in Nat : (j + n) * w = j * w + n * w
    OBVIOUS
  <2>2. /\ (j + n) * CodeSize = j * CodeSize + n * CodeSize
        /\ (j + n) * IdSize = j * IdSize + n * IdSize
    BY <2>1, Products
  <2> QED
    BY <1>2, <1>4, <1>6, <2>2
<1>10. ASSUME NEW j \in Nat, NEW k \in Nat, j <= k
       PROVE  CodeAt(d, j) <= CodeAt(d, k) /\ IdAt(d, j) <= IdAt(d, k)
  <2>1. k - j \in Nat /\ j + (k - j) = k
    BY <1>10
  <2>2. /\ CodeAt(d, k) = CodeAt(d, j) + (k - j) * CodeSize
        /\ IdAt(d, k) = IdAt(d, j) + (k - j) * IdSize
    BY <1>9, <2>1
  <2> QED
    BY <1>6, <1>8, <2>1, <2>2
<1>11. \A j \in Nat : /\ CodeAt(d, j) = d.offset + j * CodeSize
                    /\ IdAt(d, j) = IdAt(d, 0) + j * IdSize
  BY <1>2, <1>3, <1>4, <1>6
<1> QED
  BY <1>1, <1>7, <1>8, <1>9, <1>10, <1>11

\* The bytes of n codes or ids from position k on.
CodeBytes(d, k, n) == Slot(CodeAt(d, k), n * CodeSize)
IdBytes(d, k, n) == Slot(IdAt(d, k), n * IdSize)

LEMMA PartPlaces ==
  ASSUME NEW d \in ListType, d.capacity > 0, d.offset \in Nat,
         NEW k \in Nat, NEW n \in Nat, k + n <= d.capacity
  PROVE  /\ CodeBytes(d, k, n).offset = CodeAt(d, k)
         /\ End(CodeBytes(d, k, n)) = CodeAt(d, k + n)
         /\ IdBytes(d, k, n).offset = IdAt(d, k)
         /\ End(IdBytes(d, k, n)) = IdAt(d, k + n)
         /\ CodeAt(d, k) \in Nat /\ CodeAt(d, k + n) \in Nat
         /\ IdAt(d, k) \in Nat /\ IdAt(d, k + n) \in Nat
         /\ IdAt(d, 0) \in Nat /\ End(Block(d)) \in Nat
         /\ d.offset <= CodeAt(d, k) /\ CodeAt(d, k) <= CodeAt(d, k + n)
         /\ CodeAt(d, k + n) <= IdAt(d, 0) /\ IdAt(d, 0) <= IdAt(d, k)
         /\ IdAt(d, k) <= IdAt(d, k + n) /\ IdAt(d, k + n) <= End(Block(d))
<1>1. /\ d.capacity \in Nat /\ k + n \in Nat /\ k <= k + n
      /\ k + n <= d.capacity /\ 0 <= k
  BY DEF ListType
<1>2. /\ CodeBytes(d, k, n).offset = CodeAt(d, k)
      /\ End(CodeBytes(d, k, n)) = CodeAt(d, k + n)
      /\ IdBytes(d, k, n).offset = IdAt(d, k)
      /\ End(IdBytes(d, k, n)) = IdAt(d, k + n)
  BY Places DEF CodeBytes, IdBytes, Slot, End
<1>3. /\ d.offset <= CodeAt(d, k) /\ CodeAt(d, k) <= CodeAt(d, k + n)
      /\ CodeAt(d, k + n) <= IdAt(d, 0) /\ IdAt(d, 0) <= IdAt(d, k)
      /\ IdAt(d, k) <= IdAt(d, k + n) /\ IdAt(d, k + n) <= End(Block(d))
  <2>1. /\ CodeAt(d, 0) = d.offset /\ CodeAt(d, d.capacity) = IdAt(d, 0)
        /\ IdAt(d, d.capacity) = End(Block(d))
    BY Places
  <2>2. \A i, j \in Nat : i <= j => /\ CodeAt(d, i) <= CodeAt(d, j)
                                    /\ IdAt(d, i) <= IdAt(d, j)
    BY Places
  <2> QED
    BY <1>1, <2>1, <2>2
<1> QED
  BY <1>1, <1>2, <1>3, Places

\* The objects of an entry are the bytes of one code and one id.
LEMMA ObjectPlaces ==
  ASSUME NEW d \in ListType, d.capacity > 0, d.offset \in Nat,
         NEW l, NEW s, NEW j \in Nat, j < d.capacity
  PROVE  /\ CodeObject(d, l, j, s).offset = CodeAt(d, j)
         /\ End(CodeObject(d, l, j, s)) = CodeAt(d, j + 1)
         /\ IdObject(d, l, j, s).offset = IdAt(d, j)
         /\ End(IdObject(d, l, j, s)) = IdAt(d, j + 1)
         /\ CodeAt(d, j) \in Nat /\ CodeAt(d, j + 1) \in Nat
         /\ IdAt(d, j) \in Nat /\ IdAt(d, j + 1) \in Nat
         /\ IdAt(d, 0) \in Nat /\ End(Block(d)) \in Nat
         /\ d.offset <= CodeAt(d, j) /\ CodeAt(d, j + 1) <= IdAt(d, 0)
         /\ IdAt(d, 0) <= IdAt(d, j) /\ IdAt(d, j + 1) <= End(Block(d))
         /\ CodeAt(d, j) <= CodeAt(d, j + 1) /\ IdAt(d, j) <= IdAt(d, j + 1)
<1>1. j + 1 <= d.capacity
  BY DEF ListType
<1>2. 1 * CodeSize = CodeSize /\ 1 * IdSize = IdSize
  BY Products
<1>3. /\ CodeAt(d, j + 1) = CodeAt(d, j) + CodeSize
      /\ IdAt(d, j + 1) = IdAt(d, j) + IdSize
  BY <1>2, Places
<1> QED
  BY <1>1, <1>3, PartPlaces DEF CodeObject, IdObject, End

\* A range of bytes inside another.
Within(x, b) == b.offset <= x.offset /\ End(x) <= End(b)

LEMMA ObjectsWithin ==
  ASSUME NEW d \in ListType, d.capacity > 0, d.offset \in Nat,
         NEW l, NEW s, NEW j \in Nat, j < d.capacity
  PROVE  /\ Within(CodeObject(d, l, j, s), Block(d))
         /\ Within(IdObject(d, l, j, s), Block(d))
         /\ Within(IdObject(d, l, j, s), Rest(d))
         /\ CodeObject(d, l, j, s).offset \in Nat
         /\ End(CodeObject(d, l, j, s)) \in Nat
         /\ IdObject(d, l, j, s).offset \in Nat
         /\ End(IdObject(d, l, j, s)) \in Nat
<1>1. Block(d).offset = d.offset
  BY BlockBytes
<1>2. Rest(d).offset = d.offset + d.capacity /\ End(Rest(d)) = End(Block(d))
  BY RestBytes
<1>3. d.offset + d.capacity <= IdAt(d, 0)
  <2>1. d.capacity \in Nat /\ CodeAt(d, d.capacity) = d.offset + d.capacity * CodeSize
    BY DEF ListType, CodeAt
  <2>2. d.capacity <= d.capacity * CodeSize /\ d.capacity * CodeSize \in Nat
    BY <2>1, EntryBytes
  <2> QED
    BY <2>1, <2>2, Places
<1>4. d.capacity \in Nat
  BY DEF ListType
<1> QED
  BY <1>1, <1>2, <1>3, <1>4, ObjectPlaces DEF Within

\* What lies in ranges that are apart is apart.
LEMMA WithinApart ==
  ASSUME NEW x, NEW r, NEW b \in Bytes, NEW c \in Bytes, ~Overlap(b, c),
         x.offset \in Nat, End(x) \in Nat, r.offset \in Nat, End(r) \in Nat,
         Within(x, b), Within(r, c)
  PROVE  ~Overlap(x, r) /\ ~Overlap(r, x)
<1>1. /\ b.offset \in Nat /\ End(b) \in Nat /\ c.offset \in Nat /\ End(c) \in Nat
  BY DEF Bytes, End
<1> QED
  BY <1>1 DEF Within, Overlap

-----------------------------------------------------------------------------
\* A copy leaves what it does not touch...
LEMMA MemcpyLeaves ==
  ASSUME NEW f, NEW to, NEW from, NEW n, NEW g \in Memcpy(f, to, from, n),
         NEW x \in f, ~Overlap(x, Slot(to, n))
  PROVE  x \in g
<1> DEFINE image == {[y EXCEPT !.offset = @ - from + to] :
                       y \in {z \in f : z.offset >= from /\ End(z) <= from + n}}
<1>1. \/ g = f \/ g = Write(f, Slot(to, n), image) \/ g = Write(f, Slot(to, n), {})
  BY Zenon DEF Memcpy, image
<1> HIDE DEF image
<1> QED
  BY <1>1 DEF Write

\* ... and takes along what it copies.
LEMMA MemcpyMoves ==
  ASSUME NEW f, NEW to \in Nat, NEW from \in Nat, NEW n \in Nat, n > 0,
         ~Overlap(Slot(from, n), Slot(to, n)),
         NEW g \in Memcpy(f, to, from, n),
         NEW x \in f, x.offset >= from, End(x) <= from + n
  PROVE  [x EXCEPT !.offset = x.offset - from + to] \in g
<1> DEFINE image == {[y EXCEPT !.offset = @ - from + to] :
                       y \in {z \in f : z.offset >= from /\ End(z) <= from + n}}
<1>1. g = Write(f, Slot(to, n), image)
  <2>1. n # 0
    OBVIOUS
  <2> QED
    BY <2>1, Zenon DEF Memcpy, image
<1>2. [x EXCEPT !.offset = x.offset - from + to] \in image
  OBVIOUS
<1> HIDE DEF image
<1> QED
  BY <1>1, <1>2 DEF Write
-----------------------------------------------------------------------------
\* A larger block that is clear of the rest of the old one is so placed that
\* no copy overlaps what it copies from, and no copy destroys what the other
\* one still needs.
LEMMA CopyPlaces ==
  ASSUME NEW old \in ListType, old.capacity > 0, old.offset \in Nat,
         NEW new \in ListType, new.offset \in Nat, old.capacity < new.capacity,
         ~Overlap(Block(new), Rest(old)),
         NEW n \in Nat, n <= old.capacity
  PROVE  /\ old.offset # new.offset
         /\ ~Overlap(CodeBytes(old, 0, n), CodeBytes(new, 0, n))
         /\ ~Overlap(IdBytes(old, 0, n), IdBytes(new, 0, n))
         /\ \A l, s : \A j \in 0..(n - 1) :
              /\ ~Overlap(IdObject(old, l, j, s), CodeBytes(new, 0, n))
              /\ ~Overlap(CodeObject(new, l, j, s), IdBytes(new, 0, n))
<1> USE DEF ListType
<1>1. /\ old.capacity \in Nat /\ new.capacity \in Nat /\ new.capacity > 0
      /\ n <= new.capacity /\ 0 + n = n
  OBVIOUS
<1>2. /\ Rest(old) \in Bytes /\ Rest(old).offset = old.offset + old.capacity
      /\ End(Rest(old)) = End(Block(old))
  BY RestBytes
<1>3. /\ Block(new) \in Bytes /\ Block(new).offset = new.offset
      /\ End(Block(new)) = new.offset + new.capacity * EntrySize
      /\ End(Block(old)) = old.offset + old.capacity * EntrySize
      /\ End(Block(old)) \in Nat /\ End(Block(new)) \in Nat
  BY <1>1, BlockBytes
<1>4. \/ End(Block(old)) <= new.offset
      \/ End(Block(new)) <= old.offset + old.capacity
  BY <1>1, <1>2, <1>3 DEF Overlap
<1>5. /\ new.capacity <= new.capacity * EntrySize
      /\ old.capacity <= old.capacity * EntrySize
      /\ new.capacity * EntrySize \in Nat /\ old.capacity * EntrySize \in Nat
  BY <1>1, Products
<1>6. old.offset # new.offset
  BY <1>1, <1>3, <1>4, <1>5
<1>7. ASSUME NEW d \in {old, new}
      PROVE  /\ CodeBytes(d, 0, n).offset = d.offset
             /\ End(CodeBytes(d, 0, n)) = CodeAt(d, n)
             /\ IdBytes(d, 0, n).offset = IdAt(d, 0)
             /\ End(IdBytes(d, 0, n)) = IdAt(d, n)
             /\ CodeAt(d, n) \in Nat /\ IdAt(d, 0) \in Nat /\ IdAt(d, n) \in Nat
             /\ d.offset <= CodeAt(d, n) /\ CodeAt(d, n) <= IdAt(d, 0)
             /\ IdAt(d, 0) <= IdAt(d, n) /\ IdAt(d, n) <= End(Block(d))
             /\ d.offset \in Nat
  <2>1. d \in ListType /\ d.capacity > 0 /\ d.offset \in Nat /\ 0 + n <= d.capacity
    BY <1>1
  <2>2. CodeAt(d, 0) = d.offset
    BY <2>1, Places
  <2> QED
    BY <1>1, <2>1, <2>2, PartPlaces
<1>8. IdAt(new, 0) + old.capacity <= End(Block(new))
  <2>1. IdAt(new, 0 + old.capacity) = IdAt(new, 0) + old.capacity * IdSize
    BY <1>1, Places
  <2>2. old.capacity <= old.capacity * IdSize /\ old.capacity * IdSize \in Nat
    BY <1>1, EntryBytes
  <2>3. 0 + old.capacity <= new.capacity /\ 0 + old.capacity \in Nat
    BY <1>1
  <2>4. IdAt(new, 0 + old.capacity) <= IdAt(new, new.capacity)
    BY <1>1, <2>3, Places
  <2>5. IdAt(new, new.capacity) = End(Block(new))
    BY <1>1, Places
  <2> QED
    BY <1>1, <1>3, <1>7, <2>1, <2>2, <2>4, <2>5
<1>9. ~Overlap(CodeBytes(old, 0, n), CodeBytes(new, 0, n))
  BY <1>1, <1>3, <1>4, <1>7, <1>8 DEF Overlap
<1>10. Within(IdBytes(new, 0, n), Block(new)) /\ Within(CodeBytes(new, 0, n), Block(new))
  BY <1>3, <1>7 DEF Within
<1>11. old.offset + old.capacity <= IdAt(old, 0)
  <2>1. CodeAt(old, old.capacity) = old.offset + old.capacity * CodeSize
    BY DEF CodeAt
  <2>2. old.capacity <= old.capacity * CodeSize /\ old.capacity * CodeSize \in Nat
    BY <1>1, EntryBytes
  <2> QED
    BY <1>1, <2>1, <2>2, Places
<1>12. Within(IdBytes(old, 0, n), Rest(old))
  BY <1>2, <1>7, <1>11 DEF Within
<1>13. ~Overlap(IdBytes(old, 0, n), IdBytes(new, 0, n))
  BY <1>2, <1>3, <1>7, <1>10, <1>12, WithinApart
<1>14. ASSUME NEW l, NEW s, NEW j \in 0..(n - 1)
       PROVE  /\ ~Overlap(IdObject(old, l, j, s), CodeBytes(new, 0, n))
              /\ ~Overlap(CodeObject(new, l, j, s), IdBytes(new, 0, n))
  <2>1. j \in Nat /\ j < old.capacity /\ j < new.capacity
    BY <1>1
  <2>2. ~Overlap(IdObject(old, l, j, s), CodeBytes(new, 0, n))
    <3>1. /\ Within(IdObject(old, l, j, s), Rest(old))
          /\ IdObject(old, l, j, s).offset \in Nat
          /\ End(IdObject(old, l, j, s)) \in Nat
      BY <2>1, ObjectsWithin
    <3> QED
      BY <1>2, <1>3, <1>7, <1>10, <3>1, WithinApart
  <2>3. End(CodeObject(new, l, j, s)) <= IdAt(new, 0)
        /\ End(CodeObject(new, l, j, s)) \in Nat
    BY <1>1, <2>1, ObjectPlaces
  <2>4. ~Overlap(CodeObject(new, l, j, s), IdBytes(new, 0, n))
    BY <1>7, <2>3 DEF Overlap
  <2> QED
    BY <2>2, <2>4
<1> QED
  BY <1>6, <1>9, <1>13, <1>14

\* So the two copies move the entries of the list.
LEMMA CopiesMoveEntries ==
  ASSUME NEW old \in ListType, old.capacity > 0, old.offset \in Nat,
         NEW new \in ListType, new.offset \in Nat, old.capacity < new.capacity,
         ~Overlap(Block(new), Rest(old)),
         NEW n \in Nat, 0 < n, n <= old.capacity, NEW l, NEW c, NEW f,
         EntriesIn(f, old, l, c, n),
         NEW f1 \in Memcpy(f, new.offset, old.offset, n * CodeSize),
         NEW g \in Memcpy(f1, IdAt(new, 0), IdAt(old, 0), n * IdSize)
  PROVE  EntriesIn(g, new, l, c, n)
<1> SUFFICES ASSUME NEW j \in 0..(n - 1), c[j + 1] # 0
             PROVE  /\ CodeObject(new, l, j, c[j + 1]) \in g
                    /\ IdObject(new, l, j, c[j + 1]) \in g
  BY DEF EntriesIn
<1> DEFINE s == c[j + 1]
           code(d) == CodeObject(d, l, j, s)
           id(d) == IdObject(d, l, j, s)
<1>1. /\ j \in Nat /\ j < old.capacity /\ j < new.capacity /\ new.capacity > 0
      /\ j + 1 \in Nat /\ j + 1 <= n /\ 0 + j = j /\ 0 + n = n
  BY DEF ListType
<1>2. code(old) \in f /\ id(old) \in f
  BY DEF EntriesIn
<1>3. /\ Slot(new.offset, n * CodeSize) = CodeBytes(new, 0, n)
      /\ Slot(old.offset, n * CodeSize) = CodeBytes(old, 0, n)
      /\ Slot(IdAt(new, 0), n * IdSize) = IdBytes(new, 0, n)
      /\ Slot(IdAt(old, 0), n * IdSize) = IdBytes(old, 0, n)
  BY <1>1, Places DEF CodeBytes, IdBytes
<1>4. /\ ~Overlap(CodeBytes(old, 0, n), CodeBytes(new, 0, n))
      /\ ~Overlap(IdBytes(old, 0, n), IdBytes(new, 0, n))
      /\ ~Overlap(id(old), CodeBytes(new, 0, n))
      /\ ~Overlap(code(new), IdBytes(new, 0, n))
  BY CopyPlaces
<1>5. /\ n * CodeSize \in Nat /\ n * CodeSize > 0
      /\ n * IdSize \in Nat /\ n * IdSize > 0
  BY EntryBytes
<1>6. ASSUME NEW d \in {old, new}
      PROVE  /\ CodeAt(d, j) = d.offset + j * CodeSize
             /\ IdAt(d, j) = IdAt(d, 0) + j * IdSize
             /\ code(d).offset = CodeAt(d, j) /\ End(code(d)) = CodeAt(d, j + 1)
             /\ id(d).offset = IdAt(d, j) /\ End(id(d)) = IdAt(d, j + 1)
             /\ CodeAt(d, j + 1) <= d.offset + n * CodeSize
             /\ IdAt(d, j + 1) <= IdAt(d, 0) + n * IdSize
             /\ d.offset \in Nat /\ IdAt(d, 0) \in Nat
  <2>1. d \in ListType /\ d.capacity > 0 /\ d.offset \in Nat /\ j < d.capacity
    BY <1>1
  <2>2. CodeAt(d, 0) = d.offset /\ IdAt(d, 0) \in Nat
    BY <2>1, Places
  <2>3. /\ CodeAt(d, j) = d.offset + j * CodeSize
        /\ IdAt(d, j) = IdAt(d, 0) + j * IdSize
        /\ CodeAt(d, n) = d.offset + n * CodeSize
        /\ IdAt(d, n) = IdAt(d, 0) + n * IdSize
    BY <1>1, <2>1, Places
  <2>4. CodeAt(d, j + 1) <= CodeAt(d, n) /\ IdAt(d, j + 1) <= IdAt(d, n)
    BY <1>1, <2>1, Places
  <2> QED
    BY <1>1, <2>1, <2>2, <2>3, <2>4, ObjectPlaces
<1>7. j * CodeSize \in Nat /\ j * IdSize \in Nat
  BY <1>1, EntryBytes
<1>8. code(new) \in f1
  <2>1. code(old).offset >= old.offset /\ End(code(old)) <= old.offset + n * CodeSize
    BY <1>6, <1>7
  <2> DEFINE moved == [code(old) EXCEPT
                         !.offset = code(old).offset - old.offset + new.offset]
  <2>2. moved \in f1
    <3> HIDE DEF code
    <3> QED
      BY <1>2, <1>3, <1>4, <1>5, <2>1, MemcpyMoves
  <2>3. code(old).offset - old.offset + new.offset = CodeAt(new, j)
    BY <1>6, <1>7
  <2>4. moved = code(new)
    BY <2>3 DEF CodeObject
  <2> QED
    BY <2>2, <2>4
<1>9. code(new) \in g
  <2> HIDE DEF code
  <2> QED
    BY <1>3, <1>4, <1>8, MemcpyLeaves
<1>10. id(old) \in f1
  <2> HIDE DEF id
  <2> QED
    BY <1>2, <1>3, <1>4, MemcpyLeaves
<1>11. id(new) \in g
  <2>1. /\ id(old).offset >= IdAt(old, 0)
        /\ End(id(old)) <= IdAt(old, 0) + n * IdSize
    BY <1>6, <1>7
  <2> DEFINE moved == [id(old) EXCEPT
                         !.offset = id(old).offset - IdAt(old, 0) + IdAt(new, 0)]
  <2>2. moved \in g
    <3>1. IdAt(old, 0) \in Nat /\ IdAt(new, 0) \in Nat
      BY <1>6
    <3> HIDE DEF id
    <3> QED
      BY <1>3, <1>4, <1>5, <1>10, <2>1, <3>1, MemcpyMoves
  <2>3. id(old).offset - IdAt(old, 0) + IdAt(new, 0) = IdAt(new, j)
    BY <1>6, <1>7
  <2>4. moved = id(new)
    BY <2>3 DEF IdObject
  <2> QED
    BY <2>2, <2>4
<1> QED
  BY <1>9, <1>11
-----------------------------------------------------------------------------
\* What a thread in update_entries knows of its list: the entries of its call
\* are the last of the list.
LEMMA AtTheEnd ==
  ASSUME Inv, NEW t \in Threads, step[t] \in Adding,
         NEW d, d = lists[no[t]], NEW n, n = call[t].n
  PROVE  /\ no[t] \in Lists /\ d \in ListType /\ d.capacity > 0
         /\ d.offset \in Nat /\ d.size \in Nat /\ d.capacity \in Nat
         /\ n \in Nat \ {0} /\ d.size - n \in Nat
         /\ (d.size - n) + n = d.size /\ d.size <= d.capacity
         /\ Positions(t) = (d.size - n)..(d.size - 1)
         /\ pc[t] \in LL!OwnsLock1
         /\ content[no[t]] \in Seq(Nat) /\ Len(content[no[t]]) = d.size
<1>1. /\ no[t] \in Lists /\ d \in ListType /\ Fits(d)
      /\ content[no[t]] \in Seq(Nat) /\ Len(content[no[t]]) = d.size
      /\ pc[t] \in LockAt(step[t]) /\ CallInOrder(t)
  BY Shapes DEF Inv, StoreInv, ListsInOrder, StepFollowsLock, CallsInOrder
<1>2. d.size \in Nat /\ d.capacity \in Nat
  BY <1>1 DEF ListType
<1>3. n \in Nat \ {0} /\ n <= d.size
  BY <1>1, OnDiskAssumption DEF CallInOrder
<1>4. pc[t] \in LL!OwnsLock1
  BY <1>1 DEF LockAt, Adding, LL!OwnsLock1
<1>5. Positions(t) = (d.size - n)..(d.size - 1)
  BY DEF Positions
<1>6. d.size <= d.capacity /\ (d.capacity > 0 => d.offset \in Nat)
  BY <1>1 DEF Fits
<1>7. d.size - n \in Nat /\ (d.size - n) + n = d.size /\ d.capacity > 0
  BY <1>2, <1>3, <1>6
<1> QED
  BY <1>1, <1>2, <1>3, <1>4, <1>5, <1>6, <1>7

\* The number of common entries.
LEMMA LesserOfTwo ==
  ASSUME NEW a \in Nat, NEW b \in Nat
  PROVE  /\ Min({a, b}) \in Nat /\ Min({a, b}) <= a /\ Min({a, b}) <= b
         /\ a <= b => Min({a, b}) = a
<1>1. CASE a <= b
  <2>1. Min({a, b}) = a
    BY <1>1 DEF Min
  <2> QED
    BY <1>1, <2>1
<1>2. CASE b < a
  <2>1. Min({a, b}) = b
    BY <1>2 DEF Min
  <2> QED
    BY <1>2, <2>1
<1> QED
  BY <1>1, <1>2

\* What a thread that copies knows: the common entries are those of the old
\* block, unless the list becomes empty.
LEMMA AtTheCopy ==
  ASSUME Inv, MovesGrow, NEW t \in Threads, step[t] = "copy",
         NEW old, old = lists[no[t]], NEW new, new = call[t].new,
         NEW n, n = Min({old.size, new.size})
  PROVE  /\ no[t] \in Lists /\ old \in ListType /\ new \in ListType
         /\ n \in Nat /\ n <= old.size /\ n <= new.size
         /\ old.size \in Nat /\ old.size <= old.capacity
         /\ new.size <= new.capacity /\ new.capacity \in Nat
         /\ old.capacity > 0 => old.offset \in Nat
         /\ new.capacity > 0 => /\ n = old.size /\ old.capacity < new.capacity
                                /\ new.offset \in Nat
<1>1. /\ no[t] \in Lists /\ old \in ListType /\ new \in ListType
      /\ Fits(old) /\ Fits(new) /\ MoveGrows(t)
  BY Shapes DEF Inv, StoreInv, ListsInOrder, CallsInOrder, CallInOrder, Placed,
                MovesGrow
<1>2. /\ old.size \in Nat /\ new.size \in Nat
      /\ old.capacity \in Nat /\ new.capacity \in Nat
  BY <1>1 DEF ListType
<1>3. /\ n \in Nat /\ n <= old.size /\ n <= new.size
      /\ old.size <= new.size => n = old.size
  BY <1>2, LesserOfTwo
<1>4. /\ old.size <= old.capacity /\ (old.capacity > 0 => old.offset \in Nat)
      /\ new.size <= new.capacity /\ (new.capacity > 0 => new.offset \in Nat)
  BY <1>1 DEF Fits
<1>5. new.capacity > 0 => old.size <= new.size /\ old.capacity < new.capacity
  BY <1>1 DEF MoveGrows, Moving
<1> QED
  BY <1>1, <1>2, <1>3, <1>4, <1>5

\* A thread writes into the block of its list, or copies into the new one: what
\* lies in a range apart from that one stays.
LEMMA Untouched ==
  ASSUME Inv, MovesGrow, NEW t \in Threads,
         \/ \E l \in Lists, c \in Calls : Begin(t, l, c)
         \/ Step(t) \/ Spurious(t),
         NEW x \in file, x.offset \in Nat, End(x) \in Nat,
         NEW b \in Bytes, Within(x, b),
         WriteIds(t) \/ WriteCodes(t) => ~Overlap(b, Block(lists[no[t]])),
         CopyCommon(t) /\ call[t].new.capacity > 0 =>
           ~Overlap(b, Block(call[t].new))
  PROVE  x \in file'
<1>1. CASE WriteIds(t) \/ WriteCodes(t)
  <2> DEFINE d == lists[no[t]]
             n == call[t].n
             first == d.size - n
  <2>1. step[t] \in Adding
    BY <1>1 DEF WriteIds, WriteCodes, Adding
  <2>2. /\ d \in ListType /\ d.capacity > 0 /\ d.offset \in Nat /\ n \in Nat
        /\ first \in Nat /\ first + n <= d.capacity
    BY <2>1, AtTheEnd
  <2>3. \E new : \/ file' = Write(file, IdBytes(d, first, n), new)
                 \/ file' = Write(file, CodeBytes(d, first, n), new)
    BY <1>1 DEF WriteIds, WriteCodes, IdBytes, CodeBytes
  <2> HIDE DEF d, n, first
  <2>4. Block(d) \in Bytes /\ Block(d).offset = d.offset
    BY <2>2, BlockBytes
  <2>5. ASSUME NEW r \in {IdBytes(d, first, n), CodeBytes(d, first, n)}
        PROVE  ~Overlap(x, r)
    <3>1. r.offset \in Nat /\ End(r) \in Nat /\ Within(r, Block(d))
      BY <2>2, <2>4, PartPlaces DEF Within
    <3> QED
      BY <1>1, <2>4, <3>1, WithinApart DEF d
  <2> QED
    BY <2>3, <2>5 DEF Write
<1>2. CASE CopyCommon(t)
  <2> DEFINE old == lists[no[t]]
             new == call[t].new
             n == Min({old.size, new.size})
  <2>1. /\ new \in ListType /\ n \in Nat /\ n <= new.size
        /\ new.size <= new.capacity /\ new.capacity \in Nat
        /\ new.capacity > 0 => new.offset \in Nat
    BY <1>2, AtTheCopy DEF CopyCommon
  <2>2. \/ file' = file
        \/ n > 0 /\ \E f \in Memcpy(file, new.offset, old.offset, n * CodeSize) :
             file' \in Memcpy(f, IdAt(new, 0), IdAt(old, 0), n * IdSize)
    BY <1>2 DEF CopyCommon
  <2> HIDE DEF old, n
  <2>3. ASSUME n > 0,
               NEW f \in Memcpy(file, new.offset, old.offset, n * CodeSize),
               file' \in Memcpy(f, IdAt(new, 0), IdAt(old, 0), n * IdSize)
        PROVE  x \in file'
    <3>1. /\ new.capacity > 0 /\ new.offset \in Nat /\ 0 + n <= new.capacity
          /\ ~Overlap(b, Block(new))
      BY <1>2, <2>1, <2>3 DEF ListType
    <3> HIDE DEF new
    <3>2. Block(new) \in Bytes /\ Block(new).offset = new.offset
      BY <2>1, <3>1, BlockBytes
    <3>3. ASSUME NEW r \in {IdBytes(new, 0, n), CodeBytes(new, 0, n)}
          PROVE  ~Overlap(x, r)
      <4>1. r.offset \in Nat /\ End(r) \in Nat /\ Within(r, Block(new))
        BY <2>1, <3>1, <3>2, PartPlaces DEF Within
      <4> QED
        BY <3>1, <3>2, <4>1, WithinApart
    <3>4. /\ Slot(new.offset, n * CodeSize) = CodeBytes(new, 0, n)
          /\ Slot(IdAt(new, 0), n * IdSize) = IdBytes(new, 0, n)
      BY <2>1, <3>1, Places DEF CodeBytes, IdBytes
    <3>5. x \in f
      BY <2>3, <3>3, <3>4, MemcpyLeaves
    <3> QED
      BY <2>3, <3>3, <3>4, <3>5, MemcpyLeaves
  <2> QED
    BY <2>2, <2>3
<1>3. CASE ~WriteIds(t) /\ ~WriteCodes(t) /\ ~CopyCommon(t)
  <2>1. file' = file
    BY <1>3 DEF Step, Begin, Spurious, Waiting, ResizeInPlace, LockSlots,
                FreeSlot, AllocateSlot, LockRemap, Unmap, Remap, RemapThrows,
                UnlockRemap, Publish, GetIds, GetList, ReadList, Return
  <2> QED
    BY <2>1
<1> QED
  BY <1>1, <1>2, <1>3

\* Entries stay in a block that no step of the thread writes to.
LEMMA EntriesUntouched ==
  ASSUME Inv, MovesGrow, NEW t \in Threads,
         \/ \E l \in Lists, c \in Calls : Begin(t, l, c)
         \/ Step(t) \/ Spurious(t),
         NEW d \in ListType, d.capacity > 0, d.offset \in Nat,
         WriteIds(t) \/ WriteCodes(t) => ~Overlap(Block(d), Block(lists[no[t]])),
         CopyCommon(t) /\ call[t].new.capacity > 0 =>
           ~Overlap(Block(d), Block(call[t].new)),
         NEW l, NEW s, NEW j \in Nat, j < d.capacity
  PROVE  /\ CodeObject(d, l, j, s) \in file => CodeObject(d, l, j, s) \in file'
         /\ IdObject(d, l, j, s) \in file => IdObject(d, l, j, s) \in file'
<1> DEFINE x == CodeObject(d, l, j, s)
           y == IdObject(d, l, j, s)
<1>1. /\ Within(x, Block(d)) /\ x.offset \in Nat /\ End(x) \in Nat
      /\ Within(y, Block(d)) /\ y.offset \in Nat /\ End(y) \in Nat
  BY ObjectsWithin
<1>2. Block(d) \in Bytes
  BY BlockBytes
<1> HIDE DEF x, y
<1>3. x \in file => x \in file'
  BY <1>1, <1>2, Untouched
<1>4. y \in file => y \in file'
  BY <1>1, <1>2, Untouched
<1> QED
  BY <1>3, <1>4 DEF x, y

\* So do all entries of a list there.
LEMMA EntriesStay ==
  ASSUME Inv, MovesGrow, NEW t \in Threads,
         \/ \E l \in Lists, c \in Calls : Begin(t, l, c)
         \/ Step(t) \/ Spurious(t),
         NEW d \in ListType, d.capacity > 0 => d.offset \in Nat,
         (WriteIds(t) \/ WriteCodes(t)) /\ d.capacity > 0 =>
           ~Overlap(Block(d), Block(lists[no[t]])),
         CopyCommon(t) /\ call[t].new.capacity > 0 /\ d.capacity > 0 =>
           ~Overlap(Block(d), Block(call[t].new)),
         NEW l, NEW c, NEW n \in Nat, n <= d.capacity, EntriesIn(file, d, l, c, n)
  PROVE  EntriesIn(file', d, l, c, n)
<1> SUFFICES ASSUME NEW j \in 0..(n - 1), c[j + 1] # 0
             PROVE  /\ CodeObject(d, l, j, c[j + 1]) \in file'
                    /\ IdObject(d, l, j, c[j + 1]) \in file'
  BY DEF EntriesIn
<1>1. /\ CodeObject(d, l, j, c[j + 1]) \in file
      /\ IdObject(d, l, j, c[j + 1]) \in file
  BY DEF EntriesIn
<1>2. j \in Nat /\ j < d.capacity /\ d.capacity > 0
  BY DEF ListType
<1> QED
  BY <1>1, <1>2, EntriesUntouched

-----------------------------------------------------------------------------
(* The steps that write entries, or make room for them                     *)

Writer(t) == \/ ResizeInPlace(t) \/ CopyCommon(t) \/ Publish(t)
             \/ WriteIds(t) \/ WriteCodes(t)

\* They change one list, on which the thread works alone.
LEMMA WriterAlone ==
  ASSUME Inv, NEW t \in Threads, Writer(t)
  PROVE  /\ no' = no /\ pc[t] \in LL!OwnsLock1
         /\ \A l \in Lists \ {no[t]} :
              /\ lists'[l] = lists[l] /\ content'[l] = content[l]
              /\ added'[l] = added[l]
         /\ \A u \in Threads \ {t} :
              /\ step'[u] = step[u] /\ call'[u] = call[u]
              /\ step[u] \notin {"ready", "start"} => no[u] # no[t]
<1>0. /\ lists \in [Lists -> ListType] /\ content \in [Lists -> Seq(Nat)]
      /\ added \in [Lists -> Nat] /\ LL!TypeOK /\ pc[t] \in LockAt(step[t])
  BY Shapes DEF Inv, StoreInv, StepFollowsLock
<1>1. no' = no /\ pc[t] \in LL!OwnsLock1
  BY <1>0, MethodsMove
     DEF Writer, ResizeInPlace, CopyCommon, Publish, WriteIds, WriteCodes,
         lockVars, LockAt, LL!OwnsLock1, LL!InLock2, LL!OwnsLock2
<1>2. \A l \in Lists \ {no[t]} :
        /\ lists'[l] = lists[l] /\ content'[l] = content[l]
        /\ added'[l] = added[l]
  BY <1>0 DEF Writer, ResizeInPlace, CopyCommon, Publish, WriteIds, WriteCodes,
              ghosts
<1>3. \A u \in Threads \ {t} : step'[u] = step[u] /\ call'[u] = call[u]
  BY FrameHolds DEF Frame, Writer, Step
<1>4. \A u \in Threads \ {t} :
        step[u] \notin {"ready", "start"} => no[u] # no[t]
  BY <1>1, AloneOnList
<1> QED
  BY <1>1, <1>2, <1>3, <1>4

\* The entries of the other lists stay where they are.
LEMMA OthersEntries ==
  ASSUME Inv, KeptInv, NEW t \in Threads, Writer(t)
  PROVE  /\ \A l \in Lists \ {no[t]} : EntriesOf(l)'
         /\ \A u \in Threads \ {t} : CopiedBy(u)' /\ RoomBlank(u)' /\ IdsWritten(u)'
<1>0. /\ Step(t) /\ MovesGrow /\ ListsApart /\ EntriesKept
      /\ no \in [Threads -> Lists] /\ lists \in [Lists -> ListType]
      /\ \A l \in Lists : Fits(lists[l])
  BY Shapes DEF Writer, Step, KeptInv, Inv, StoreInv, ListsInOrder
<1>1. /\ no' = no
      /\ \A l \in Lists \ {no[t]} :
           /\ lists'[l] = lists[l] /\ content'[l] = content[l]
           /\ added'[l] = added[l]
      /\ \A u \in Threads \ {t} :
           /\ step'[u] = step[u] /\ call'[u] = call[u]
           /\ step[u] \notin {"ready", "start"} => no[u] # no[t]
  BY WriterAlone
<1>2. ASSUME NEW l \in Lists \ {no[t]}, lists[l].capacity > 0
      PROVE  /\ lists[l].offset \in Nat
             /\ WriteIds(t) \/ WriteCodes(t) =>
                  ~Overlap(Block(lists[l]), Block(lists[no[t]]))
             /\ CopyCommon(t) /\ call[t].new.capacity > 0 =>
                  ~Overlap(Block(lists[l]), Block(call[t].new))
  <2>1. lists[l].offset \in Nat
    BY <1>2, ListBytes
  <2>2. WriteIds(t) \/ WriteCodes(t) =>
          ~Overlap(Block(lists[l]), Block(lists[no[t]]))
    <3>1. WriteIds(t) \/ WriteCodes(t) =>
            lists[no[t]].capacity > 0 /\ no[t] \in Lists
      BY AtTheEnd DEF WriteIds, WriteCodes, Adding
    <3> QED
      BY <1>0, <1>2, <3>1 DEF ListsApart
  <2>3. CopyCommon(t) => step[t] \in Placed
    BY DEF CopyCommon, Placed
  <2> QED
    BY <1>2, <2>1, <2>2, <2>3, NewBlockApart
<1>3. ASSUME NEW l \in Lists \ {no[t]}
      PROVE  EntriesOf(l)'
  <2> SUFFICES ASSUME ~Publishing(l)'
               PROVE  EntriesIn(file', lists'[l], l, content'[l], lists'[l].size)
    BY DEF EntriesOf
  <2>1. ~Publishing(l)
    BY <1>1 DEF Publishing
  <2>2. EntriesIn(file, lists[l], l, content[l], lists[l].size)
    BY <1>0, <2>1 DEF EntriesKept, EntriesOf
  <2>3. /\ lists[l] \in ListType /\ lists[l].size \in Nat
        /\ lists[l].size <= lists[l].capacity
    BY <1>0 DEF Fits, ListType
  <2>4. EntriesIn(file', lists[l], l, content[l], lists[l].size)
    BY <1>0, <1>2, <2>2, <2>3, EntriesStay
  <2> QED
    BY <1>1, <2>4
<1>4. ASSUME NEW u \in Threads \ {t}
      PROVE  CopiedBy(u)'
  <2> SUFFICES ASSUME step'[u] = "publish", call'[u].new.capacity > 0
               PROVE  EntriesIn(file', call'[u].new, no'[u], content'[no'[u]],
                                lists'[no'[u]].size)
    BY DEF CopiedBy
  <2> DEFINE l == no[u]
             d == call[u].new
  <2>1. /\ l \in Lists \ {no[t]} /\ step[u] = "publish" /\ d.capacity > 0
        /\ call'[u].new = d /\ no'[u] = l
        /\ content'[l] = content[l] /\ lists'[l] = lists[l]
    BY <1>0, <1>1
  <2>2. EntriesIn(file, d, l, content[l], lists[l].size)
    BY <1>0, <2>1 DEF EntriesKept, CopiedBy
  <2>3. /\ d \in ListType /\ d.offset \in Nat /\ MoveGrows(u)
        /\ lists[l].size \in Nat /\ d.size \in Nat /\ d.capacity \in Nat
        /\ d.size <= d.capacity
    BY <1>0, <2>1, Shapes
       DEF Inv, StoreInv, CallsInOrder, CallInOrder, Placed, Fits, MovesGrow,
           ListType
  <2>4. lists[l].size <= d.capacity
    BY <2>1, <2>3 DEF MoveGrows, Moving
  <2>5. ~CopyCommon(t)
    BY <2>1, OneMoves DEF CopyCommon, Moving
  <2>6. WriteIds(t) \/ WriteCodes(t) => ~Overlap(Block(d), Block(lists[no[t]]))
    <3>1. WriteIds(t) \/ WriteCodes(t) =>
            lists[no[t]].capacity > 0 /\ no[t] \in Lists
      BY AtTheEnd DEF WriteIds, WriteCodes, Adding
    <3>2. step[u] \in Placed /\ no[t] # no[u]
      BY <2>1 DEF Placed
    <3> QED
      BY <2>1, <3>1, <3>2, NewBlockApart
  <2>7. EntriesIn(file', d, l, content[l], lists[l].size)
    <3> HIDE DEF l, d
    <3> QED
      BY <1>0, <2>2, <2>3, <2>4, <2>5, <2>6, EntriesStay
  <2> QED
    BY <2>1, <2>7
<1>5. ASSUME NEW u \in Threads \ {t}
      PROVE  RoomBlank(u)'
  <2> SUFFICES ASSUME step'[u] \in Adding
               PROVE  RoomBlank(u)'
    BY DEF RoomBlank
  <2>1. /\ no[u] \in Lists \ {no[t]} /\ step[u] \in Adding /\ call'[u] = call[u]
        /\ no'[u] = no[u]
    BY <1>0, <1>1 DEF Adding
  <2>2. content'[no[u]] = content[no[u]] /\ lists'[no[u]] = lists[no[u]]
    BY <1>1, <2>1
  <2>3. Positions(u)' = Positions(u)
    BY <2>1, <2>2 DEF Positions
  <2> QED
    BY <1>0, <2>1, <2>2, <2>3 DEF EntriesKept, RoomBlank
<1>6. ASSUME NEW u \in Threads \ {t}
      PROVE  IdsWritten(u)'
  <2> SUFFICES ASSUME step'[u] = "write_codes"
               PROVE  IdsWritten(u)'
    BY DEF IdsWritten
  <2> DEFINE l == no[u]
             d == lists[l]
  <2>1. /\ l \in Lists \ {no[t]} /\ step[u] = "write_codes" /\ call'[u] = call[u]
        /\ no'[u] = l /\ lists'[l] = d /\ added'[l] = added[l]
    BY <1>0, <1>1
  <2>2. /\ Positions(u)' = Positions(u)
        /\ \A j : Serial(u, j)' = Serial(u, j)
    BY <2>1 DEF Positions, Serial
  <2>3. ASSUME NEW j \in Positions(u)
        PROVE  IdObject(d, l, j, Serial(u, j)) \in file'
    <3>1. IdObject(d, l, j, Serial(u, j)) \in file
      BY <1>0, <2>1 DEF EntriesKept, IdsWritten
    <3>2. /\ d \in ListType /\ d.capacity > 0 /\ d.offset \in Nat
          /\ j \in Nat /\ j < d.capacity
      <4>1. step[u] \in Adding
        BY <2>1 DEF Adding
      <4>2. /\ d \in ListType /\ d.capacity > 0 /\ d.offset \in Nat
            /\ d.size \in Nat /\ d.capacity \in Nat /\ d.size <= d.capacity
            /\ d.size - call[u].n \in Nat
            /\ j \in (d.size - call[u].n)..(d.size - 1)
        BY <4>1, AtTheEnd
      <4> HIDE DEF d
      <4> QED
        BY <4>2
    <3> QED
      BY <1>0, <1>2, <2>1, <3>1, <3>2, EntriesUntouched
  <2> QED
    BY <2>1, <2>2, <2>3 DEF IdsWritten
<1> QED
  BY <1>3, <1>4, <1>5, <1>6

\* What resize_locked makes of the entries: those the list keeps are where they
\* were, the new ones are not written.
LEMMA ResizedKeeps ==
  ASSUME NEW f, NEW d, NEW e, d.offset = e.offset, d.capacity = e.capacity,
         NEW l, NEW c \in Seq(Nat), NEW n \in Nat, EntriesIn(f, d, l, c, Len(c))
  PROVE  /\ EntriesIn(f, e, l, Resized(c, n), n)
         /\ \A j \in Len(c)..(n - 1) : Resized(c, n)[j + 1] = 0
<1>1. Len(c) \in Nat
  BY LenProperties
<1>2. \A j \in 0..(n - 1) :
        /\ j < Len(c) => Resized(c, n)[j + 1] = c[j + 1]
        /\ j >= Len(c) => Resized(c, n)[j + 1] = 0
  BY <1>1 DEF Resized
<1>3. ASSUME NEW j \in 0..(n - 1), Resized(c, n)[j + 1] # 0
      PROVE  /\ CodeObject(e, l, j, Resized(c, n)[j + 1]) \in f
             /\ IdObject(e, l, j, Resized(c, n)[j + 1]) \in f
  <2>1. /\ j < Len(c) => Resized(c, n)[j + 1] = c[j + 1]
        /\ ~(j >= Len(c)) /\ j \in Nat
    BY <1>2, <1>3
  <2>2. j \in 0..(Len(c) - 1) /\ Resized(c, n)[j + 1] = c[j + 1]
    BY <1>1, <2>1
  <2>3. /\ CodeObject(d, l, j, c[j + 1]) \in f
        /\ IdObject(d, l, j, c[j + 1]) \in f
    BY <1>3, <2>2 DEF EntriesIn
  <2> QED
    BY <2>2, <2>3 DEF CodeObject, IdObject, CodeAt, IdAt
<1>4. \A j \in Len(c)..(n - 1) : Resized(c, n)[j + 1] = 0
  BY <1>1, <1>2
<1> QED
  BY <1>3, <1>4 DEF EntriesIn

\* Room is made in place or by a move: the entries are in the block the list
\* has then.
LEMMA RoomKept ==
  ASSUME Inv, KeptInv, NEW t \in Threads, ResizeInPlace(t) \/ Publish(t)
  PROVE  EntriesOf(no[t])' /\ CopiedBy(t)' /\ RoomBlank(t)' /\ IdsWritten(t)'
<1> DEFINE l == no[t]
           c == content[l]
           n == NewSize(t)
<1>0. /\ l \in Lists /\ lists \in [Lists -> ListType] /\ LL!TypeOK
      /\ content \in [Lists -> Seq(Nat)] /\ step \in [Threads -> Steps]
      /\ c \in Seq(Nat) /\ Len(c) = lists[l].size /\ lists[l].size \in Nat
      /\ n \in Nat /\ CallInOrder(t) /\ EntriesOf(l) /\ CopiedBy(t)
  BY Shapes, NewSizeNat
     DEF Inv, StoreInv, ListsInOrder, CallsInOrder, ListType, KeptInv, EntriesKept
<1>1. /\ file' = file /\ no' = no /\ call' = call
      /\ step' = [step EXCEPT ![t] = AfterResize(t)]
  BY <1>0, MethodsMove DEF ResizeInPlace, Publish, Goto, lockVars
<1>2. /\ EntriesIn(file, lists'[l], l, Resized(c, n), n)
      /\ \A j \in Len(c)..(n - 1) : Resized(c, n)[j + 1] = 0
      /\ content'[l] = Resized(c, n) /\ lists'[l].size = n
  <2>1. CASE ResizeInPlace(t)
    <3>1. /\ lists' = [lists EXCEPT ![l].size = n]
          /\ content' = [content EXCEPT ![l] = Resized(@, n)]
          /\ step[t] = "start"
      BY <2>1 DEF ResizeInPlace
    <3>2. ~Publishing(l)
      BY <2>1, <3>1, WriterAlone DEF Publishing, Writer
    <3>3. EntriesIn(file, lists[l], l, c, Len(c))
      BY <1>0, <3>2 DEF EntriesOf
    <3> HIDE DEF n, c
    <3>4. /\ lists'[l].offset = lists[l].offset
          /\ lists'[l].capacity = lists[l].capacity /\ lists'[l].size = n
      BY <1>0, <3>1 DEF ListType
    <3>5. content'[l] = Resized(c, n)
      BY <1>0, <3>1 DEF c
    <3> QED
      BY <1>0, <3>3, <3>4, <3>5, ResizedKeeps
  <2>2. CASE Publish(t)
    <3> DEFINE new == call[t].new
    <3>1. /\ step[t] = "publish" /\ lists' = [lists EXCEPT ![l] = new]
          /\ content' = [content EXCEPT ![l] = Resized(@, new.size)]
      BY <2>2 DEF Publish
    <3>2. new.size = n /\ n <= new.capacity /\ new.capacity \in Nat
      BY <1>0, <3>1, Shapes DEF CallInOrder, Moving, ListType
    <3>3. content'[l] = Resized(c, n) /\ lists'[l] = new
      BY <1>0, <3>1, <3>2
    <3>4. CASE new.capacity > 0
      <4>1. EntriesIn(file, new, l, c, Len(c))
        BY <1>0, <3>1, <3>4 DEF CopiedBy
      <4> HIDE DEF new, c, n
      <4> QED
        BY <1>0, <3>2, <3>3, <4>1, ResizedKeeps
    <3>5. CASE new.capacity = 0
      <4>1. n = 0
        BY <1>0, <3>2, <3>5
      <4> HIDE DEF new, c, n
      <4>2. \A f, d : \A k, b : EntriesIn(f, d, k, b, 0)
        BY DEF EntriesIn
      <4>3. Len(c)..(n - 1) = {}
        BY <1>0, <4>1
      <4> QED
        BY <3>2, <3>3, <4>1, <4>2, <4>3
    <3> QED
      BY <3>2, <3>4, <3>5
  <2> QED
    BY <2>1, <2>2
<1> HIDE DEF n, c
<1>3. EntriesOf(l)'
  <2>1. EntriesIn(file', lists'[l], l, content'[l], lists'[l].size)
    BY <1>1, <1>2
  <2> QED
    BY <1>1, <2>1 DEF EntriesOf
<1>4. step'[t] \in {"get_ids", "done"} /\ (step'[t] = "get_ids" => call[t].op = "add")
  BY <1>0, <1>1 DEF AfterResize
<1>5. RoomBlank(t)'
  <2> SUFFICES ASSUME step'[t] \in Adding, NEW j \in Positions(t)'
               PROVE  content'[l][j + 1] = 0
    BY <1>1 DEF RoomBlank
  <2>1. n = Len(c) + call[t].n /\ call[t].n \in Nat
    BY <1>0, <1>4, NewSizeNat DEF Adding, n
  <2>2. j \in (n - call[t].n)..(n - 1)
    BY <1>1, <1>2 DEF Positions
  <2>3. Len(c) \in Nat /\ n - call[t].n = Len(c)
    BY <1>0, <2>1
  <2>4. j \in Len(c)..(n - 1)
    BY <2>2, <2>3
  <2> QED
    BY <1>2, <2>4
<1> QED
  BY <1>3, <1>4, <1>5 DEF CopiedBy, IdsWritten

\* The copy.
LEMMA CopyKept ==
  ASSUME Inv, KeptInv, NEW t \in Threads, CopyCommon(t)
  PROVE  EntriesOf(no[t])' /\ CopiedBy(t)' /\ RoomBlank(t)' /\ IdsWritten(t)'
<1> DEFINE l == no[t]
           old == lists[l]
           new == call[t].new
           n == Min({old.size, new.size})
<1>0. /\ step \in [Threads -> Steps] /\ step[t] = "copy" /\ EntriesOf(l)
      /\ step' = [step EXCEPT ![t] = "publish"]
      /\ lists' = lists /\ content' = content /\ call' = call /\ no' = no
      /\ IF old.offset # new.offset /\ n > 0
         THEN \E f \in Memcpy(file, new.offset, old.offset, n * CodeSize) :
                file' \in Memcpy(f, IdAt(new, 0), IdAt(old, 0), n * IdSize)
         ELSE UNCHANGED file
      /\ MovesGrow /\ RestClear(t)
  BY Shapes DEF CopyCommon, Goto, lockVars, ghosts, KeptInv, EntriesKept
<1>1. /\ l \in Lists /\ old \in ListType /\ new \in ListType
      /\ n \in Nat /\ n <= old.size /\ n <= new.size
      /\ old.size \in Nat /\ old.size <= old.capacity
      /\ new.size <= new.capacity /\ new.capacity \in Nat
      /\ old.capacity > 0 => old.offset \in Nat
      /\ new.capacity > 0 => /\ n = old.size /\ old.capacity < new.capacity
                             /\ new.offset \in Nat
  BY <1>0, AtTheCopy
<1>2. ~Publishing(l)
  BY <1>0, WriterAlone DEF Publishing, Writer
<1>3. EntriesIn(file, old, l, content[l], old.size)
  BY <1>0, <1>2 DEF EntriesOf
<1>4. ASSUME new.capacity > 0
      PROVE  EntriesIn(file', new, l, content[l], old.size)
  <2>1. CASE old.size = 0
    BY <2>1 DEF EntriesIn
  <2>2. CASE old.size > 0
    <3>1. /\ old.capacity > 0 /\ old.offset \in Nat /\ n = old.size
          /\ new.offset \in Nat /\ old.capacity < new.capacity
      BY <1>1, <1>4, <2>2 DEF ListType
    <3>2. ~Overlap(Block(new), Rest(old))
      BY <1>0, <1>4, <3>1 DEF RestClear, Placed, Moving
    <3> HIDE DEF l, old, new, n
    <3>3. n <= old.capacity
      BY <1>1, <3>1
    <3>4. old.offset # new.offset
      BY <1>1, <3>1, <3>2, <3>3, CopyPlaces
    <3>5. PICK f \in Memcpy(file, new.offset, old.offset, n * CodeSize) :
                 file' \in Memcpy(f, IdAt(new, 0), IdAt(old, 0), n * IdSize)
      BY <1>0, <2>2, <3>1, <3>4
    <3>6. EntriesIn(file, old, l, content[l], n)
      BY <1>3, <3>1
    <3>7. 0 < n
      BY <2>2, <3>1
    <3>8. EntriesIn(file', new, l, content[l], n)
      BY <1>1, <3>1, <3>2, <3>3, <3>5, <3>6, <3>7, CopiesMoveEntries
    <3> QED
      BY <3>1, <3>8
  <2> QED
    BY <1>1, <2>1, <2>2
<1>5. Publishing(l)'
  BY <1>0 DEF Publishing
<1>6. CopiedBy(t)'
  BY <1>0, <1>4 DEF CopiedBy
<1> QED
  BY <1>0, <1>5, <1>6 DEF EntriesOf, RoomBlank, IdsWritten, Adding

\* update_entries writes the ids of a call: into room that was blank.
LEMMA IdsKept ==
  ASSUME Inv, KeptInv, NEW t \in Threads, WriteIds(t)
  PROVE  EntriesOf(no[t])' /\ CopiedBy(t)' /\ RoomBlank(t)' /\ IdsWritten(t)'
<1> DEFINE l == no[t]
           d == lists[l]
           n == call[t].n
           first == d.size - n
           c == content[l]
           ids == {IdObject(d, l, j, Serial(t, j)) : j \in Positions(t)}
<1>0. /\ step \in [Threads -> Steps] /\ step[t] = "write_ids" /\ EntriesOf(l)
      /\ step' = [step EXCEPT ![t] = "write_codes"]
      /\ lists' = lists /\ content' = content /\ added' = added /\ no' = no
      /\ call'[t].n = n
      /\ RoomBlank(t)
  BY Shapes DEF WriteIds, Goto, lockVars, ghosts, KeptInv, EntriesKept
<1>1. file' = Write(file, IdBytes(d, first, n), ids)
  BY DEF WriteIds, IdBytes
<1>2. /\ d \in ListType /\ d.capacity > 0 /\ d.offset \in Nat
      /\ d.size \in Nat /\ d.capacity \in Nat /\ d.size <= d.capacity
      /\ n \in Nat /\ first \in Nat /\ first + n = d.size
      /\ Positions(t) = first..(d.size - 1)
  BY <1>0, AtTheEnd DEF Adding
<1>3. ~Publishing(l)
  BY <1>0, WriterAlone DEF Publishing, Writer
<1>4. EntriesIn(file, d, l, c, d.size) /\ \A j \in Positions(t) : c[j + 1] = 0
  BY <1>0, <1>3 DEF EntriesOf, RoomBlank, Adding
<1>5. EntriesIn(file', d, l, c, d.size)
  <2> SUFFICES ASSUME NEW j \in 0..(d.size - 1), c[j + 1] # 0
               PROVE  /\ CodeObject(d, l, j, c[j + 1]) \in file'
                      /\ IdObject(d, l, j, c[j + 1]) \in file'
    BY DEF EntriesIn
  <2> HIDE DEF d, n, first, c, ids, l
  <2>1. /\ CodeObject(d, l, j, c[j + 1]) \in file
        /\ IdObject(d, l, j, c[j + 1]) \in file
    BY <1>4 DEF EntriesIn
  <2>2. j \in Nat /\ j < d.capacity /\ j < first /\ j + 1 \in Nat /\ j + 1 <= first
    <3>1. j \notin Positions(t)
      BY <1>4
    <3> QED
      BY <1>2, <3>1
  <2>3. /\ IdBytes(d, first, n).offset = IdAt(d, first) /\ IdAt(d, first) \in Nat
        /\ IdAt(d, 0) <= IdAt(d, first) /\ IdAt(d, 0) \in Nat
    <3>1. first + n <= d.capacity
      BY <1>2
    <3> QED
      BY <1>2, <3>1, PartPlaces
  <2>4. IdAt(d, j + 1) <= IdAt(d, first)
    BY <1>2, <2>2, Places
  <2>5. /\ ~Overlap(CodeObject(d, l, j, c[j + 1]), IdBytes(d, first, n))
        /\ ~Overlap(IdObject(d, l, j, c[j + 1]), IdBytes(d, first, n))
    <3>1. /\ d \in ListType /\ d.capacity > 0 /\ d.offset \in Nat
          /\ j \in Nat /\ j < d.capacity
      BY <1>2, <2>2
    <3>2. /\ End(CodeObject(d, l, j, c[j + 1])) = CodeAt(d, j + 1)
          /\ CodeAt(d, j + 1) \in Nat /\ CodeAt(d, j + 1) <= IdAt(d, 0)
          /\ End(IdObject(d, l, j, c[j + 1])) = IdAt(d, j + 1)
          /\ IdAt(d, j + 1) \in Nat
      BY <3>1, ObjectPlaces
    <3> QED
      BY <2>3, <2>4, <3>2 DEF Overlap
  <2> QED
    BY <1>1, <2>1, <2>5 DEF Write
<1>6. Positions(t)' = Positions(t) /\ \A j : Serial(t, j)' = Serial(t, j)
  BY <1>0 DEF Positions, Serial
<1>7. EntriesOf(l)'
  BY <1>0, <1>5 DEF EntriesOf
<1>8. RoomBlank(t)'
  BY <1>0, <1>4, <1>6 DEF RoomBlank
<1>9. IdsWritten(t)'
  <2>1. \A j \in Positions(t) : IdObject(d, l, j, Serial(t, j)) \in file'
    BY <1>1 DEF Write
  <2> QED
    BY <1>0, <1>6, <2>1 DEF IdsWritten
<1> QED
  BY <1>0, <1>7, <1>8, <1>9 DEF CopiedBy

\* ... and then their codes, which ends the call: its entries are there.
LEMMA CodesKept ==
  ASSUME Inv, KeptInv, NEW t \in Threads, WriteCodes(t)
  PROVE  EntriesOf(no[t])' /\ CopiedBy(t)' /\ RoomBlank(t)' /\ IdsWritten(t)'
<1> DEFINE l == no[t]
           d == lists[l]
           n == call[t].n
           first == d.size - n
           c == content[l]
           codes == {CodeObject(d, l, j, Serial(t, j)) : j \in Positions(t)}
<1>0. /\ step \in [Threads -> Steps] /\ step[t] = "write_codes" /\ EntriesOf(l)
      /\ step' = [step EXCEPT ![t] = "done"]
      /\ lists' = lists /\ no' = no /\ content \in [Lists -> Seq(Nat)]
      /\ content' = [content EXCEPT ![l] =
                       [j \in DOMAIN c |-> IF j > first THEN Serial(t, j - 1)
                                                        ELSE c[j]]]
      /\ IdsWritten(t)
  BY Shapes DEF WriteCodes, Goto, lockVars, KeptInv, EntriesKept
<1>1. file' = Write(file, CodeBytes(d, first, n), codes)
  BY DEF WriteCodes, CodeBytes
<1>2. /\ l \in Lists /\ d \in ListType /\ d.capacity > 0 /\ d.offset \in Nat
      /\ d.size \in Nat /\ d.capacity \in Nat /\ d.size <= d.capacity
      /\ n \in Nat /\ first \in Nat /\ first + n = d.size
      /\ Positions(t) = first..(d.size - 1)
      /\ c \in Seq(Nat) /\ Len(c) = d.size
  BY <1>0, AtTheEnd DEF Adding
<1>3. ~Publishing(l)
  BY <1>0, WriterAlone DEF Publishing, Writer
<1>4. /\ EntriesIn(file, d, l, c, d.size)
      /\ \A j \in Positions(t) : IdObject(d, l, j, Serial(t, j)) \in file
  BY <1>0, <1>3 DEF EntriesOf, IdsWritten
<1>5. \A j \in 0..(d.size - 1) :
        /\ j >= first => content'[l][j + 1] = Serial(t, j)
        /\ j < first => content'[l][j + 1] = c[j + 1]
  <2> TAKE j \in 0..(d.size - 1)
  <2> HIDE DEF d, n, first
  <2>1. j + 1 \in 1..d.size /\ (j + 1) - 1 = j /\ (j + 1 > first <=> j >= first)
        /\ (j < first <=> ~(j >= first))
    <3>1. d.size \in Nat /\ first \in Nat /\ j \in 0..(d.size - 1)
      BY <1>2
    <3>2. \A s, f \in Nat : \A i \in 0..(s - 1) :
            /\ i + 1 \in 1..s /\ (i + 1) - 1 = i
            /\ (i + 1 > f <=> i >= f) /\ (i < f <=> ~(i >= f))
      OBVIOUS
    <3> QED
      BY <3>1, <3>2
  <2>2. DOMAIN c = 1..d.size
    BY <1>2, LenProperties
  <2>3. content'[l] = [i \in DOMAIN c |-> IF i > first THEN Serial(t, i - 1)
                                                       ELSE c[i]]
    BY <1>0, <1>2
  <2>4. content'[l][j + 1] = IF j + 1 > first THEN Serial(t, (j + 1) - 1)
                                              ELSE c[j + 1]
    BY <2>1, <2>2, <2>3
  <2> QED
    BY <2>1, <2>4
<1>6. EntriesIn(file', d, l, content'[l], d.size)
  <2> DEFINE s(j) == content'[l][j + 1]
  <2> SUFFICES ASSUME NEW j \in 0..(d.size - 1), s(j) # 0
               PROVE  /\ CodeObject(d, l, j, s(j)) \in file'
                      /\ IdObject(d, l, j, s(j)) \in file'
    BY DEF EntriesIn
  <2> HIDE DEF d, n, first, c, codes, l, s
  <2>1. /\ j \in Nat /\ j < d.capacity /\ j + 1 \in Nat
        /\ first + n <= d.capacity
        /\ d \in ListType /\ d.capacity > 0 /\ d.offset \in Nat
    BY <1>2
  <2>2. /\ CodeBytes(d, first, n).offset = CodeAt(d, first)
        /\ CodeAt(d, first) \in Nat /\ End(CodeBytes(d, first, n)) \in Nat
        /\ End(CodeBytes(d, first, n)) <= IdAt(d, 0) /\ IdAt(d, 0) \in Nat
    <3>1. /\ d \in ListType /\ d.capacity > 0 /\ d.offset \in Nat
          /\ first \in Nat /\ n \in Nat /\ first + n <= d.capacity
      BY <1>2, <2>1
    <3>2. /\ CodeBytes(d, first, n).offset = CodeAt(d, first)
          /\ End(CodeBytes(d, first, n)) = CodeAt(d, first + n)
          /\ CodeAt(d, first) \in Nat /\ CodeAt(d, first + n) \in Nat
          /\ CodeAt(d, first + n) <= IdAt(d, 0) /\ IdAt(d, 0) \in Nat
      BY <3>1, PartPlaces
    <3> QED
      BY <3>2
  <2>3. ~Overlap(IdObject(d, l, j, s(j)), CodeBytes(d, first, n))
    <3>1. /\ IdAt(d, 0) <= IdObject(d, l, j, s(j)).offset
          /\ IdObject(d, l, j, s(j)).offset \in Nat
      BY <2>1, ObjectPlaces
    <3> QED
      BY <2>2, <3>1 DEF Overlap
  <2>4. CASE j < first
    <3>1. s(j) = c[j + 1]
      BY <1>5, <2>4 DEF s
    <3>2. /\ CodeObject(d, l, j, s(j)) \in file
          /\ IdObject(d, l, j, s(j)) \in file
      BY <1>4, <3>1 DEF EntriesIn
    <3>3. End(CodeObject(d, l, j, s(j))) <= CodeAt(d, first)
      <4>1. j + 1 <= first
        BY <1>2, <2>1, <2>4
      <4>2. CodeAt(d, j + 1) <= CodeAt(d, first)
        BY <1>2, <2>1, <4>1, Places
      <4> QED
        BY <2>1, <4>2, ObjectPlaces
    <3>4. End(CodeObject(d, l, j, s(j))) \in Nat
      BY <2>1, ObjectPlaces
    <3>5. ~Overlap(CodeObject(d, l, j, s(j)), CodeBytes(d, first, n))
      BY <2>2, <3>3, <3>4 DEF Overlap
    <3> QED
      BY <1>1, <2>3, <3>2, <3>5 DEF Write
  <2>5. CASE j >= first
    <3>1. s(j) = Serial(t, j) /\ j \in Positions(t)
      BY <1>2, <1>5, <2>5 DEF s
    <3>2. CodeObject(d, l, j, s(j)) \in codes
      BY <3>1 DEF codes
    <3>3. IdObject(d, l, j, s(j)) \in file
      BY <1>4, <3>1
    <3> QED
      BY <1>1, <2>3, <3>2, <3>3 DEF Write
  <2> QED
    BY <1>2, <2>1, <2>4, <2>5
<1>7. EntriesOf(l)'
  BY <1>0, <1>6 DEF EntriesOf
<1> QED
  BY <1>0, <1>7 DEF CopiedBy, RoomBlank, IdsWritten, Adding

\* The other steps of a call touch no entries.
LEMMA NothingWritten ==
  ASSUME Inv, KeptInv, NEW t \in Threads,
         \/ \E l \in Lists, c \in Calls : Begin(t, l, c)
         \/ Step(t) \/ Spurious(t),
         ~Writer(t)
  PROVE  EntriesKept'
<1>0. /\ step \in [Threads -> Steps] /\ LL!TypeOK /\ call \in [Threads -> CallType]
      /\ EntriesKept /\ Frame(t)
  BY Shapes, FrameHolds DEF KeptInv, CallType
<1>1. NoEntriesMove(t)
  BY OtherSteps DEF Writer
<1>2. file' = file
  BY DEF Writer, Step, Begin, Spurious, Waiting, LockSlots, FreeSlot,
         AllocateSlot, LockRemap, Unmap, Remap, RemapThrows, UnlockRemap, GetIds,
         GetList, ReadList, Return
<1>3. /\ step'[t] = "publish" \/ step[t] = "publish" =>
           step'[t] = step[t] /\ no'[t] = no[t] /\ call'[t] = call[t]
      /\ step'[t] = "write_codes" => step[t] = "write_codes"
  <2>1. CASE Waiting(t) \/ Spurious(t)
    <3>1. step' = step /\ no' = no /\ call' = call
      BY <1>0, <2>1, MethodsMove DEF Waiting, Spurious
    <3> QED
      BY <3>1
  <2>2. CASE \/ \E l \in Lists, c \in Calls : Begin(t, l, c)
             \/ LockSlots(t) \/ FreeSlot(t) \/ AllocateSlot(t) \/ LockRemap(t)
             \/ Unmap(t) \/ Remap(t) \/ RemapThrows(t) \/ UnlockRemap(t)
             \/ GetIds(t) \/ GetList(t) \/ ReadList(t) \/ Return(t)
    <3>1. step'[t] \notin {"publish", "write_codes"} /\ step[t] # "publish"
      BY <1>0, <2>2, StepFollowsLockPreserved
         DEF Begin, LockSlots, FreeSlot, AllocateSlot, LockRemap, Unmap, Remap,
             RemapThrows, UnlockRemap, GetIds, GetList, ReadList, Return, Goto
    <3> QED
      BY <3>1
  <2> QED
    BY <2>1, <2>2 DEF Writer, Step
<1>4. /\ lists' = lists /\ content' = content /\ added' = added
      /\ \A u \in Threads : step'[u] = "publish" \/ step[u] = "publish" =>
           step'[u] = step[u] /\ no'[u] = no[u] /\ call'[u] = call[u]
      /\ \A u \in Threads : step'[u] \in Adding =>
           step[u] \in Adding /\ no'[u] = no[u] /\ call'[u].n = call[u].n
      /\ \A u \in Threads : step'[u] = "write_codes" => step[u] = "write_codes"
  BY <1>0, <1>1, <1>3 DEF NoEntriesMove, Frame
<1>5. ASSUME NEW l \in Lists
      PROVE  EntriesOf(l)'
  <2>1. Publishing(l)' <=> Publishing(l)
    BY <1>4 DEF Publishing
  <2> QED
    BY <1>0, <1>2, <1>4, <2>1 DEF EntriesKept, EntriesOf
<1>6. ASSUME NEW u \in Threads
      PROVE  CopiedBy(u)' /\ RoomBlank(u)' /\ IdsWritten(u)'
  <2>1. CopiedBy(u) /\ RoomBlank(u) /\ IdsWritten(u)
    BY <1>0 DEF EntriesKept
  <2>2. CopiedBy(u)'
    BY <1>2, <1>4, <2>1 DEF CopiedBy
  <2>3. ASSUME step'[u] \in Adding
        PROVE  /\ Positions(u)' = Positions(u) /\ no'[u] = no[u]
               /\ \A j : Serial(u, j)' = Serial(u, j)
    BY <1>4, <2>3 DEF Positions, Serial
  <2>4. RoomBlank(u)'
    BY <1>4, <2>1, <2>3 DEF RoomBlank
  <2>5. IdsWritten(u)'
    BY <1>2, <1>4, <2>1, <2>3 DEF IdsWritten, Adding
  <2> QED
    BY <2>2, <2>4, <2>5
<1> QED
  BY <1>5, <1>6 DEF EntriesKept

-----------------------------------------------------------------------------
(* No entry is lost                                                        *)

\* As long as no list shrinks by a move, every step keeps the entries.
LEMMA KeptPreserved ==
  ASSUME Inv, KeptInv, ~ShrinkingMove, NEW t \in Threads,
         \/ \E l \in Lists, c \in Calls : Begin(t, l, c)
         \/ Step(t) \/ Spurious(t)
  PROVE  KeptInv'
<1>1. MovesGrow' /\ ListsApart' /\ \A u \in Threads : RestClear(u)'
  BY MovesGrowPreserved, ListsApartPreserved, RestClearPreserved DEF KeptInv
<1>2. CASE Writer(t)
  <2>1. /\ \A l \in Lists \ {no[t]} : EntriesOf(l)'
        /\ \A u \in Threads \ {t} : CopiedBy(u)' /\ RoomBlank(u)' /\ IdsWritten(u)'
    BY <1>2, OthersEntries
  <2>2. EntriesOf(no[t])' /\ CopiedBy(t)' /\ RoomBlank(t)' /\ IdsWritten(t)'
    BY <1>2, RoomKept, CopyKept, IdsKept, CodesKept DEF Writer
  <2>3. no' = no
    BY <1>2, WriterAlone
  <2>4. ASSUME NEW l \in Lists
        PROVE  EntriesOf(l)'
    <3>1. CASE l = no[t]
      <4>1. (EntriesOf(no[t])' /\ no' = no) => EntriesOf(l)'
        BY <3>1 DEF EntriesOf, Publishing
      <4> QED
        BY <2>2, <2>3, <4>1
    <3> QED
      BY <2>1, <3>1
  <2> QED
    BY <1>1, <2>1, <2>2, <2>4 DEF KeptInv, EntriesKept
<1>3. CASE ~Writer(t)
  BY <1>1, <1>3, NothingWritten DEF KeptInv
<1> QED
  BY <1>2, <1>3

\* Every entry written to a list can be read from it, however often the list
\* moves and whatever other threads do meanwhile, if no list shrinks by a move.
\* (A list that does may get a block with the offset of the old one, where
\* resize_locked copies nothing, or one that overlaps it.)
THEOREM EntriesSurviveMoves == Spec /\ []~ShrinkingMove => []ContentsKept
<1>1. Init => KeptInv
  <2> SUFFICES ASSUME Init PROVE KeptInv
    OBVIOUS
  <2>1. /\ lists = [l \in Lists |-> EmptyList]
        /\ step = [t \in Threads |-> "ready"]
    BY DEF Init
  <2>2. no \in [Threads -> Lists]
    BY InitEstablishes DEF StoreInv, TypeOK, LL!TypeOK
  <2>3. \A f, d : \A l, c : EntriesIn(f, d, l, c, 0)
    BY DEF EntriesIn
  <2>4. MovesGrow
    BY <2>1, <2>2 DEF MovesGrow, MoveGrows, HalfFull, EmptyList, Moving
  <2>5. ListsApart /\ \A t \in Threads : RestClear(t)
    BY <2>1, <2>2 DEF ListsApart, RestClear, EmptyList
  <2>6. \A l \in Lists : lists[l].size = 0
    BY <2>1 DEF EmptyList
  <2>7. EntriesKept
    BY <2>1, <2>3, <2>6
       DEF EntriesKept, EntriesOf, CopiedBy, RoomBlank, IdsWritten, Adding
  <2> QED
    BY <2>4, <2>5, <2>7 DEF KeptInv
<1>2. Inv /\ KeptInv /\ ~ShrinkingMove /\ [Next]_vars => KeptInv'
  <2> SUFFICES ASSUME Inv, KeptInv, ~ShrinkingMove, [Next]_vars
               PROVE  KeptInv'
    OBVIOUS
  <2>1. CASE UNCHANGED vars
    BY <2>1
       DEF vars, lockVars, space, ghosts, KeptInv, MovesGrow, MoveGrows,
           ListsApart, RestClear, EntriesKept, EntriesOf, CopiedBy, RoomBlank,
           IdsWritten, Publishing, HalfFull, NewSize, Positions, Serial
  <2>2. ASSUME NEW t \in Threads,
               \/ \E l \in Lists, c \in Calls : Begin(t, l, c)
               \/ Step(t) \/ Spurious(t)
        PROVE  KeptInv'
    BY <2>2, KeptPreserved
  <2> QED
    BY <2>1, <2>2 DEF Next, Finished
<1>3. KeptInv => ContentsKept
  BY DEF KeptInv, EntriesKept, EntriesOf, EntriesIn, Publishing, ContentsKept
<1> QED
  BY <1>1, <1>2, <1>3, Invariance, PTL DEF Spec

\* Calls of add_entries alone lose no entry, in whatever order the threads run:
\* a list they move has grown.
THEOREM AddedEntriesStay ==
  ASSUME ResizeSizes = {}
  PROVE  Spec => []ContentsKept
<1>1. Inv /\ AddsInOrder => ~ShrinkingMove
  <2> SUFFICES ASSUME Inv, AddsInOrder, NEW t \in Threads, step[t] = "free"
               PROVE  ~(NewSize(t) < lists[no[t]].size)
    BY DEF ShrinkingMove
  <2>1. call[t].op = "add"
    BY Shapes DEF Inv, StoreInv, CallsInOrder, CallInOrder, AddsInOrder, OnlyAdds
  <2>2. lists[no[t]].size \in Nat
    BY Shapes DEF ListType
  <2> QED
    BY <2>1, <2>2, NewSizeNat
<1> QED
  BY <1>1, Invariance, AddsInvariance, EntriesSurviveMoves, PTL
=============================================================================

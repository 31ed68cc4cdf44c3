------------------------ MODULE OngoingPrefetchProofs ------------------------
(***************************************************************************)
(* Proofs about OngoingPrefetch: whatever callers and workers do, for any   *)
(* number of them, each generation of workers reads its own batch, the      *)
(* whole of it, and none of them outlives the object.                       *)
(***************************************************************************)
EXTENDS OngoingPrefetch, SequenceTheorems, TLAPS

\* The steps of a caller between taking mutex and giving it up.
InPrefetch == {"joining", "starting", "destroying"}

\* mutex lets one caller at a time prepare a batch, and the destructor runs
\* when no other caller is there.
OneAtATime ==
  /\ \A c \in Callers : caller[c] \in InPrefetch <=> mutex = c
  /\ \A c, d \in Callers : caller[c] = "destroying" /\ c # d => caller[d] = "idle"
  /\ destroyed => \A c \in Callers : caller[c] = "idle"

DropEmpties == Dropped => list_ids = <<>>

\* A worker exits because the batch is at its end, or was dropped.
ExitedAtEnd ==
  (\E w \in Workers : worker[w] = "exited") /\ ~Dropped => cur_list = Len(list_ids)

\* The inductive invariant.
IInv == GenerationsApart /\ OneAtATime /\ DropEmpties /\ ExitedAtEnd

CallerStates == {"idle", "called", "joining", "starting", "destroying"}
WorkerStates == {"none", "running", "reading", "exited"}

-----------------------------------------------------------------------------
\* A sublist of a sequence of numbers is one.
LEMMA SublistType ==
  ASSUME NEW s \in Seq(Int), NEW u \in Sublists(s)
  PROVE  u \in Seq(Int)
<1>1. PICK n \in 0..Len(s) :
        u \in {[i \in 1..n |-> s[f[i]]] :
                 f \in {g \in [1..n -> 1..Len(s)] :
                          \A i, j \in 1..n : i < j => g[i] < g[j]}}
  BY DEF Sublists
<1>2. PICK f \in [1..n -> 1..Len(s)] : u = [i \in 1..n |-> s[f[i]]]
  BY <1>1
<1>3. n \in Nat /\ \A k \in 1..Len(s) : s[k] \in Int
  BY LenProperties, ElementOfSeq
<1>4. u \in [1..n -> Int]
  BY <1>2, <1>3
<1> QED
  BY <1>3, <1>4, SeqDef

\* What a claim adds to the lists claimed.
LEMMA ClaimProperties ==
  ASSUME NEW s \in Seq(Int), NEW n \in Nat, n < Len(s)
  PROVE  /\ SubSeq(s, 1, n) \in Seq(Int) /\ s[n + 1] \in Int
         /\ Append(SubSeq(s, 1, n), s[n + 1]) = SubSeq(s, 1, n + 1)
<1> DEFINE a == SubSeq(s, 1, n)
           b == SubSeq(s, 1, n + 1)
           c == Append(a, s[n + 1])
<1>1. Len(s) \in Nat /\ \A k \in 1..Len(s) : s[k] \in Int
  BY LenProperties, ElementOfSeq
<1>2. a \in Seq(Int) /\ Len(a) = n /\ \A k \in 1..n : a[k] = s[k]
  BY <1>1, SubSeqProperties
<1>3. b \in Seq(Int) /\ Len(b) = n + 1 /\ \A k \in 1..(n + 1) : b[k] = s[k]
  BY <1>1, SubSeqProperties
<1> HIDE DEF a, b
<1>4. /\ c \in Seq(Int) /\ Len(c) = n + 1
      /\ \A k \in 1..(n + 1) : c[k] = s[k]
  BY <1>1, <1>2, AppendProperties
<1> HIDE DEF c
<1>5. c = b
  BY <1>3, <1>4, SeqEqual
<1> QED
  BY <1>1, <1>2, <1>5 DEF a, b, c

\* All lists claimed so far stay claimed when one more is.
LEMMA ClaimedStays ==
  ASSUME NEW s \in Seq(Int), NEW x \in Int
  PROVE  /\ Append(s, x) \in Seq(Int)
         /\ ToSet(s) \subseteq ToSet(Append(s, x)) /\ x \in ToSet(Append(s, x))
<1>1. /\ Len(s) \in Nat /\ DOMAIN s = 1..Len(s)
      /\ Append(s, x) \in Seq(Int) /\ Len(Append(s, x)) = Len(s) + 1
      /\ \A k \in 1..Len(s) : Append(s, x)[k] = s[k]
      /\ Append(s, x)[Len(s) + 1] = x
  BY LenProperties, AppendProperties
<1>2. DOMAIN Append(s, x) = 1..(Len(s) + 1)
  BY <1>1, LenProperties
<1> QED
  BY <1>1, <1>2 DEF ToSet

-----------------------------------------------------------------------------
(* The invariant is inductive                                              *)

LEMMA InitEstablishes == Init => IInv
<1> SUFFICES ASSUME Init PROVE IInv
  OBVIOUS
<1>1. TypeOK
  <2>1. list_ids \in Seq(Int) /\ claims \in Seq(Int) /\ cur_list <= Len(list_ids)
    BY EmptySeq DEF Init
  <2>2. arg \in [Callers -> Batches \cup {<<>>}] /\ calls \in 0..MaxCalls
    BY PrefetchAssumption DEF Init
  <2>3. /\ worker \in [Workers -> WorkerStates]
        /\ caller \in [Callers -> CallerStates]
        /\ claimed \in [Workers -> Int]
        /\ cur_list \in Nat /\ mutex = NoCaller /\ destroyed = FALSE
    BY DEF Init, WorkerStates, CallerStates
  <2> QED
    BY <2>1, <2>2, <2>3 DEF TypeOK, WorkerStates, CallerStates
<1>2. ClaimsFollowBatch
  <2>1. SubSeq(list_ids, 1, cur_list) = <<>>
    BY EmptySeq, SubSeqProperties DEF Init
  <2> QED
    BY <2>1 DEF Init, ClaimsFollowBatch
<1>3. ReadersOfThisBatch /\ NoWorkerAfterDestroy
  BY DEF Init, ReadersOfThisBatch, NoWorkerAfterDestroy
<1>4. OneAtATime
  BY PrefetchAssumption DEF Init, OneAtATime, InPrefetch
<1>5. DropEmpties /\ ExitedAtEnd
  BY DEF Init, DropEmpties, ExitedAtEnd
<1> QED
  BY <1>1, <1>2, <1>3, <1>4, <1>5 DEF IInv, GenerationsApart

\* What the invariant says of the shapes of the variables.
LEMMA Shapes ==
  ASSUME TypeOK
  PROVE  /\ list_ids \in Seq(Int) /\ claims \in Seq(Int)
         /\ cur_list \in Nat /\ Len(list_ids) \in Nat
         /\ worker \in [Workers -> WorkerStates]
         /\ caller \in [Callers -> CallerStates]
         /\ arg \in [Callers -> Seq(Int)] /\ claimed \in [Workers -> Int]
<1>1. <<>> \in Seq(Int)
  BY EmptySeq
<1>2. Batches \cup {<<>>} \subseteq Seq(Int)
  BY <1>1, PrefetchAssumption
<1> QED
  BY <1>2, LenProperties DEF TypeOK, WorkerStates, CallerStates

\* Steps that change neither the batch nor the workers.
LEMMA CallersKeep ==
  ASSUME IInv, NEW c \in Callers,
         (\E b \in Batches : Call(c, b)) \/ Drop(c) \/ Return(c) \/ Destroy(c)
  PROVE  IInv'
<1>0. /\ TypeOK /\ ClaimsFollowBatch /\ ReadersOfThisBatch /\ NoWorkerAfterDestroy
      /\ OneAtATime /\ DropEmpties /\ ExitedAtEnd
      /\ caller \in [Callers -> CallerStates]
  BY Shapes DEF IInv, GenerationsApart
<1>1. /\ UNCHANGED <<cur_list, worker, destroyed, claims, claimed>>
      /\ \/ list_ids' = list_ids
         \/ list_ids' = <<>> /\ Drop(c)
      /\ \E s \in CallerStates : caller' = [caller EXCEPT ![c] = s]
  BY DEF Call, Drop, Return, Destroy, Goto, batch, CallerStates
<1>2. OneAtATime'
  <2>1. CASE \E b \in Batches : Call(c, b)
    BY <1>0, <2>1 DEF Call, Goto, OneAtATime, InPrefetch, CallerStates
  <2>2. CASE Drop(c)
    BY <1>0, <2>2, PrefetchAssumption DEF Drop, Goto, OneAtATime, InPrefetch, CallerStates
  <2>3. CASE Return(c)
    BY <1>0, <2>3, PrefetchAssumption DEF Return, Goto, OneAtATime, InPrefetch, CallerStates
  <2>4. CASE Destroy(c)
    <3>1. mutex \in Callers => mutex = c
      BY <1>0, <2>4 DEF Destroy, OneAtATime, InPrefetch
    <3> QED
      BY <1>0, <2>4, <3>1, PrefetchAssumption
         DEF Destroy, Goto, OneAtATime, InPrefetch, CallerStates
  <2> QED
    BY <2>1, <2>2, <2>3, <2>4
<1>3. /\ Dropped' => (Dropped \/ Drop(c))
      /\ Dropped => Dropped'
      /\ Drop(c) => Dropped'
  <2>1. CASE Drop(c)
    BY <1>0, <2>1 DEF Drop, Goto, Dropped, CallerStates
  <2>2. CASE (\E b \in Batches : Call(c, b)) \/ Return(c) \/ Destroy(c)
    <3>1. caller[c] # "joining" /\ caller'[c] # "joining" /\ ~Drop(c)
      BY <1>0, <2>2 DEF Call, Return, Destroy, Goto, Drop
    <3> QED
      BY <1>1, <3>1 DEF Dropped
  <2> QED
    BY <2>1, <2>2
<1>4. TypeOK'
  <2>1. mutex' \in Callers \cup {NoCaller}
    BY <1>0 DEF Call, Drop, Return, Destroy, TypeOK
  <2>2. list_ids' \in Seq(Int)
    BY <1>0, <1>1, EmptySeq DEF TypeOK
  <2>3. Dropped' \/ cur_list' <= Len(list_ids')
    BY <1>0, <1>1, <1>3 DEF TypeOK
  <2>4. caller' \in [Callers -> CallerStates]
    BY <1>0, <1>1
  <2>5. arg' \in [Callers -> Batches \cup {<<>>}]
    BY <1>0 DEF Call, Drop, Return, Destroy, TypeOK
  <2>6. calls' \in 0..MaxCalls
    BY <1>0, PrefetchAssumption DEF Call, Drop, Return, Destroy, TypeOK
  <2> QED
    BY <1>0, <1>1, <2>1, <2>2, <2>3, <2>4, <2>5, <2>6 DEF TypeOK, CallerStates
<1>5. ClaimsFollowBatch' /\ ReadersOfThisBatch' /\ NoWorkerAfterDestroy'
  BY <1>0, <1>1, <1>3
     DEF ClaimsFollowBatch, ReadersOfThisBatch, NoWorkerAfterDestroy
<1>6. DropEmpties' /\ ExitedAtEnd'
  BY <1>0, <1>1, <1>3 DEF DropEmpties, ExitedAtEnd, Drop
<1> QED
  BY <1>2, <1>4, <1>5, <1>6 DEF IInv, GenerationsApart

\* A new batch is prepared when no worker of the last one is left.
LEMMA PrepareKeeps ==
  ASSUME IInv, NEW c \in Callers, Prepare(c)
  PROVE  IInv'
<1>0. /\ TypeOK /\ OneAtATime /\ list_ids = <<>>
      /\ caller \in [Callers -> CallerStates] /\ caller[c] = "joining"
      /\ arg[c] \in Seq(Int) /\ worker \in [Workers -> WorkerStates]
      /\ mutex = c /\ ~destroyed
  <2>1. caller[c] = "joining" /\ OneAtATime /\ DropEmpties /\ TypeOK
    BY DEF Prepare, IInv, GenerationsApart
  <2> QED
    BY <2>1, Shapes DEF OneAtATime, DropEmpties, Dropped, InPrefetch
<1>1. /\ worker' = Joined /\ Joinable /\ cur_list' = 0 /\ claims' = <<>>
      /\ caller' = [caller EXCEPT ![c] = "starting"]
      /\ UNCHANGED <<mutex, arg, calls, destroyed, claimed>>
  BY DEF Prepare, Goto
<1>2. list_ids' \in Seq(Int)
  <2>1. list_ids' = list_ids \/ list_ids' \in Sublists(arg[c])
    BY DEF Prepare
  <2> QED
    BY <1>0, <2>1, SublistType, EmptySeq
<1>3. \A w \in Workers : worker'[w] = "none"
  BY <1>0, <1>1 DEF Joined, Joinable
<1>4. worker' \in [Workers -> WorkerStates]
  BY <1>0, <1>1 DEF Joined, WorkerStates
<1>5. OneAtATime' /\ ~Dropped'
  BY <1>0, <1>1 DEF OneAtATime, InPrefetch, Dropped, CallerStates
<1>6. Len(list_ids') \in Nat
  BY <1>2, LenProperties
<1>7. TypeOK'
  <2>1. caller' \in [Callers -> CallerStates]
    BY <1>0, <1>1 DEF CallerStates
  <2> QED
    BY <1>0, <1>1, <1>2, <1>4, <1>6, <2>1, EmptySeq
       DEF TypeOK, WorkerStates, CallerStates
<1>8. ClaimsFollowBatch'
  <2>1. SubSeq(list_ids', 1, 0) = <<>>
    BY SubSeqProperties, EmptySeq
  <2> QED
    BY <1>1, <2>1 DEF ClaimsFollowBatch
<1>9. ReadersOfThisBatch' /\ NoWorkerAfterDestroy' /\ DropEmpties' /\ ExitedAtEnd'
  BY <1>0, <1>1, <1>3, <1>5
     DEF ReadersOfThisBatch, NoWorkerAfterDestroy, DropEmpties, ExitedAtEnd
<1> QED
  BY <1>5, <1>7, <1>8, <1>9 DEF IInv, GenerationsApart

\* Steps that only start, finish or join workers.
LEMMA WorkersKeep ==
  ASSUME IInv,
         \/ \E c \in Callers : StartWorker(c) \/ Destroyed(c)
         \/ \E w \in Workers : ReadList(w)
  PROVE  IInv'
<1>0. /\ TypeOK /\ ClaimsFollowBatch /\ ReadersOfThisBatch /\ NoWorkerAfterDestroy
      /\ OneAtATime /\ DropEmpties /\ ExitedAtEnd
      /\ caller \in [Callers -> CallerStates]
      /\ worker \in [Workers -> WorkerStates]
  BY Shapes DEF IInv, GenerationsApart
<1>1. /\ UNCHANGED <<list_ids, cur_list, arg, calls, claims, claimed>>
      /\ worker' \in [Workers -> WorkerStates]
      /\ \A w \in Workers : worker'[w] \in {"reading", "exited"} => worker'[w] = worker[w]
  BY <1>0 DEF StartWorker, Destroyed, ReadList, Joined, WorkerStates, batch
<1>2. CASE UNCHANGED <<mutex, caller, destroyed>>
           /\ ((\E c \in Callers : StartWorker(c)) \/ \E w \in Workers : ReadList(w))
  <2>1. Dropped' <=> Dropped
    BY <1>2 DEF Dropped
  <2>2. TypeOK' /\ OneAtATime'
    BY <1>0, <1>1, <1>2, <2>1 DEF TypeOK, OneAtATime, WorkerStates
  <2>3. ~destroyed
    BY <1>0, <1>2 DEF StartWorker, ReadList, OneAtATime, NoWorkerAfterDestroy
  <2> QED
    BY <1>0, <1>1, <1>2, <2>1, <2>2, <2>3
       DEF IInv, GenerationsApart, ClaimsFollowBatch, ReadersOfThisBatch,
           NoWorkerAfterDestroy, DropEmpties, ExitedAtEnd
<1>3. ASSUME NEW c \in Callers, Destroyed(c)
      PROVE  IInv'
  <2>1. /\ caller[c] = "destroying" /\ \A d \in Callers \ {c} : caller[d] = "idle"
        /\ mutex' = NoCaller /\ destroyed' = TRUE
        /\ caller' = [caller EXCEPT ![c] = "idle"]
    BY <1>0, <1>3 DEF Destroyed, OneAtATime, Goto
  <2>2. \A d \in Callers : caller'[d] = "idle"
    BY <1>0, <2>1
  <2>3. ~Dropped /\ ~Dropped'
    BY <2>1, <2>2 DEF Dropped
  <2>4. OneAtATime'
    BY <2>1, <2>2, PrefetchAssumption DEF OneAtATime, InPrefetch
  <2>5. \A w \in Workers : worker'[w] = "none"
    BY <1>0, <1>3 DEF Destroyed, Joined, Joinable
  <2>6. TypeOK'
    <3>1. caller' \in [Callers -> CallerStates]
      BY <1>0, <2>1 DEF CallerStates
    <3> QED
      BY <1>0, <1>1, <2>1, <2>3, <3>1 DEF TypeOK, WorkerStates, CallerStates
  <2> QED
    BY <1>0, <1>1, <2>3, <2>4, <2>5, <2>6
       DEF IInv, GenerationsApart, ClaimsFollowBatch, ReadersOfThisBatch,
           NoWorkerAfterDestroy, DropEmpties, ExitedAtEnd
<1> QED
  BY <1>2, <1>3 DEF StartWorker, ReadList

\* A worker claims the next list of its batch, or exits at the end of it.
LEMMA ClaimKeeps ==
  ASSUME IInv, NEW w \in Workers, GetNextList(w)
  PROVE  IInv' /\ (Dropped => claims' = claims)
<1>0. /\ TypeOK /\ ClaimsFollowBatch /\ ReadersOfThisBatch /\ NoWorkerAfterDestroy
      /\ OneAtATime /\ DropEmpties /\ ExitedAtEnd
      /\ worker \in [Workers -> WorkerStates] /\ claimed \in [Workers -> Int]
      /\ list_ids \in Seq(Int) /\ claims \in Seq(Int)
      /\ cur_list \in Nat /\ Len(list_ids) \in Nat
  BY Shapes DEF IInv, GenerationsApart
<1>1. /\ UNCHANGED <<mutex, list_ids, caller, arg, calls, destroyed>>
      /\ worker[w] = "running" /\ (Dropped' <=> Dropped)
  BY DEF GetNextList, Dropped
<1>2. OneAtATime' /\ NoWorkerAfterDestroy' /\ ~destroyed /\ DropEmpties'
  BY <1>0, <1>1 DEF OneAtATime, NoWorkerAfterDestroy, DropEmpties
<1>3. CASE cur_list < Len(list_ids)
  <2> DEFINE l == list_ids[cur_list + 1]
  <2>1. /\ cur_list' = cur_list + 1
        /\ worker' = [worker EXCEPT ![w] = "reading"]
        /\ claimed' = [claimed EXCEPT ![w] = l]
        /\ claims' = Append(claims, l)
    BY <1>3 DEF GetNextList
  <2>2. ~Dropped
    <3>1. Dropped => Len(list_ids) = 0
      BY <1>0, EmptySeq DEF DropEmpties
    <3> QED
      BY <1>0, <1>3, <3>1
  <2>3. /\ claims = SubSeq(list_ids, 1, cur_list) /\ l \in Int
        /\ claims' = SubSeq(list_ids, 1, cur_list + 1)
    BY <1>0, <1>3, <2>1, <2>2, ClaimProperties DEF ClaimsFollowBatch
  <2>4. /\ claims' \in Seq(Int) /\ ToSet(claims) \subseteq ToSet(claims')
        /\ l \in ToSet(claims')
    BY <1>0, <2>1, <2>3, ClaimedStays
  <2> HIDE DEF l
  <2>5. TypeOK'
    <3>1. worker' \in [Workers -> WorkerStates] /\ claimed' \in [Workers -> Int]
      BY <1>0, <2>1, <2>3 DEF WorkerStates
    <3>2. cur_list' \in Nat /\ cur_list' <= Len(list_ids)
      BY <1>0, <1>3, <2>1
    <3> QED
      BY <1>0, <1>1, <2>4, <3>1, <3>2 DEF TypeOK, WorkerStates
  <2>6. ClaimsFollowBatch'
    BY <1>1, <2>1, <2>3 DEF ClaimsFollowBatch
  <2>7. ReadersOfThisBatch'
    BY <1>0, <2>1, <2>4 DEF ReadersOfThisBatch
  <2>8. ExitedAtEnd'
    <3>1. \A v \in Workers : worker[v] # "exited"
      BY <1>0, <1>3, <2>2 DEF ExitedAtEnd
    <3> QED
      BY <1>0, <2>1, <3>1 DEF ExitedAtEnd
  <2> QED
    BY <1>2, <2>2, <2>5, <2>6, <2>7, <2>8 DEF IInv, GenerationsApart
<1>4. CASE ~(cur_list < Len(list_ids))
  <2>1. /\ worker' = [worker EXCEPT ![w] = "exited"]
        /\ UNCHANGED <<cur_list, claimed, claims>>
    BY <1>4 DEF GetNextList
  <2>2. TypeOK'
    <3>1. worker' \in [Workers -> WorkerStates]
      BY <1>0, <2>1 DEF WorkerStates
    <3> QED
      BY <1>0, <1>1, <2>1, <3>1 DEF TypeOK, WorkerStates
  <2>3. ClaimsFollowBatch' /\ ReadersOfThisBatch'
    BY <1>0, <1>1, <2>1 DEF ClaimsFollowBatch, ReadersOfThisBatch
  <2>4. ~Dropped => cur_list = Len(list_ids)
    BY <1>0, <1>4 DEF TypeOK
  <2>5. ExitedAtEnd'
    BY <1>1, <2>1, <2>4 DEF ExitedAtEnd
  <2> QED
    BY <1>2, <2>1, <2>2, <2>3, <2>5 DEF IInv, GenerationsApart
<1> QED
  BY <1>3, <1>4

LEMMA NextPreserves == IInv /\ [Next]_vars => IInv'
<1> SUFFICES ASSUME IInv, [Next]_vars PROVE IInv'
  OBVIOUS
<1>1. CASE UNCHANGED vars
  BY <1>1
     DEF vars, batch, IInv, GenerationsApart, TypeOK, ClaimsFollowBatch,
         ReadersOfThisBatch, NoWorkerAfterDestroy, OneAtATime, DropEmpties,
         ExitedAtEnd, Dropped
<1>2. ASSUME NEW c \in Callers,
             (\E b \in Batches : Call(c, b)) \/ CallerStep(c) \/ Destroy(c)
      PROVE  IInv'
  BY <1>2, CallersKeep, PrepareKeeps, WorkersKeep DEF CallerStep
<1>3. ASSUME NEW w \in Workers, WorkerStep(w)
      PROVE  IInv'
  BY <1>3, ClaimKeeps, WorkersKeep DEF WorkerStep
<1> QED
  BY <1>1, <1>2, <1>3 DEF Next, Finished

THEOREM Invariance == Spec => []IInv
<1>1. Init => IInv
  BY InitEstablishes
<1>2. IInv /\ [Next]_vars => IInv'
  BY NextPreserves
<1> QED
  BY <1>1, <1>2, PTL DEF Spec

-----------------------------------------------------------------------------
(* What prefetch_lists promises                                            *)

\* Each generation of prefetch threads claims the lists of its own batch in
\* order, none twice and none skipped, and none is left after the destructor,
\* for any number of callers, threads and lists.
THEOREM GenerationsStayApart == Spec => []GenerationsApart
<1>1. IInv => GenerationsApart
  BY DEF IInv
<1> QED
  BY <1>1, Invariance, PTL

\* When the threads that prefetch_lists started have come to their end by
\* themselves, every list of the batch was claimed.
THEOREM WholeBatchRead == Spec => []BatchRead
<1>1. IInv => BatchRead
  <2> SUFFICES ASSUME IInv, \A c \in Callers : caller[c] = "idle",
                      NEW w \in Workers, worker[w] = "exited"
               PROVE  claims = list_ids
    BY DEF BatchRead
  <2>1. ~Dropped
    BY DEF Dropped
  <2>2. /\ cur_list = Len(list_ids) /\ claims = SubSeq(list_ids, 1, cur_list)
        /\ list_ids \in Seq(Int)
    BY <2>1, Shapes DEF IInv, GenerationsApart, ExitedAtEnd, ClaimsFollowBatch
  <2>3. /\ Len(list_ids) \in Nat /\ \A k \in 1..Len(list_ids) : list_ids[k] \in Int
    BY <2>2, LenProperties, ElementOfSeq
  <2>4. /\ claims \in Seq(Int) /\ Len(claims) = Len(list_ids)
        /\ \A k \in 1..Len(list_ids) : claims[k] = list_ids[k]
    BY <2>2, <2>3, SubSeqProperties
  <2> QED
    BY <2>2, <2>4, SeqEqual
<1> QED
  BY <1>1, Invariance, PTL

\* After the clear of list_ids no worker claims a list until the next batch is
\* prepared, so that the joins of prefetch_lists wait for the lists being read
\* and no more.
THEOREM NoClaimAfterDrop == Spec => DroppedBatchStops
<1>1. IInv /\ [Next]_vars => [Dropped => claims' \in {claims, <<>>}]_vars
  <2> SUFFICES ASSUME IInv, Next, Dropped
               PROVE  claims' \in {claims, <<>>}
    OBVIOUS
  <2>1. ASSUME NEW c \in Callers, NEW b \in Batches, Call(c, b)
        PROVE  claims' = claims
    BY <2>1 DEF Call
  <2>2. ASSUME NEW c \in Callers, CallerStep(c) \/ Destroy(c)
        PROVE  claims' \in {claims, <<>>}
    BY <2>2 DEF CallerStep, Drop, Prepare, StartWorker, Return, Destroyed, Destroy
  <2>3. ASSUME NEW w \in Workers, WorkerStep(w)
        PROVE  claims' = claims
    BY <2>3, ClaimKeeps DEF WorkerStep, ReadList
  <2> QED
    BY <2>1, <2>2, <2>3 DEF Next, Finished, vars
<1> QED
  BY <1>1, Invariance, PTL DEF Spec, DroppedBatchStops
=============================================================================

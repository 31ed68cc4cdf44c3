----------------------- MODULE MergeFromMultipleProofs -----------------------
(***************************************************************************)
(* Proofs about MergeFromMultiple: however the threads interleave, the      *)
(* store gets its sources and nothing else, and shards that do not get      *)
(* smaller keep their ids apart.                                            *)
(***************************************************************************)
EXTENDS MergeFromMultiple, ProofLemmas

-----------------------------------------------------------------------------
(* Sums over the lists or the sources that come before one                  *)

LEMMA SumsBefore ==
  ASSUME NEW len \in Nat, NEW f \in [1..len -> Nat]
  PROVE  /\ \A j \in 1..(len + 1) : Before(f, j) \in Nat
         /\ Before(f, 1) = 0
         /\ \A j \in 1..len : Before(f, j + 1) = Before(f, j) + f[j]
         /\ Total(f) = Before(f, len + 1)
<1>1. IsFiniteSet(1..len)
  BY FS_Interval
<1>2. PICK sum \in [SUBSET (1..len) -> Nat] :
        /\ sum[{}] = 0
        /\ \A T \in SUBSET (1..len) : \A x \in T : sum[T] = f[x] + sum[T \ {x}]
        /\ \A T \in SUBSET (1..len) : MapThenSumSet(LAMBDA x : f[x], T) = sum[T]
        /\ FoldFunction(LAMBDA m, n : m + n, 0, f) = sum[1..len]
  BY <1>1, SumsAddUp
<1>3. ASSUME NEW j \in 1..(len + 1)
      PROVE  1..(j - 1) \in SUBSET (1..len) /\ Before(f, j) = sum[1..(j - 1)]
  <2>1. 1..(j - 1) \in SUBSET (1..len)
    OBVIOUS
  <2> QED
    BY <1>2, <2>1 DEF Before
<1>4. Before(f, 1) = 0
  <2>1. 1..(1 - 1) = {} /\ 1 \in 1..(len + 1)
    OBVIOUS
  <2> QED
    BY <1>2, <1>3, <2>1
<1>5. ASSUME NEW j \in 1..len PROVE Before(f, j + 1) = Before(f, j) + f[j]
  <2>1. /\ 1..j \in SUBSET (1..len) /\ j \in 1..j /\ (1..j) \ {j} = 1..(j - 1)
        /\ 1..(j - 1) \in SUBSET (1..len)
        /\ j + 1 \in 1..(len + 1) /\ j \in 1..(len + 1) /\ 1..(j + 1 - 1) = 1..j
    OBVIOUS
  <2>2. sum[1..j] = f[j] + sum[1..(j - 1)]
    <3>1. sum[1..j] = f[j] + sum[(1..j) \ {j}]
      <4>1. PICK T \in SUBSET (1..len) : T = 1..j
        BY <2>1
      <4>2. sum[T] = f[j] + sum[T \ {j}]
        BY <1>2, <2>1, <4>1
      <4> QED
        BY <4>1, <4>2
    <3> QED
      BY <2>1, <3>1
  <2>3. Before(f, j + 1) = sum[1..j] /\ Before(f, j) = sum[1..(j - 1)]
    BY <1>3, <2>1
  <2>4. f[j] \in Nat /\ sum[1..(j - 1)] \in Nat
    BY <2>1
  <2> QED
    BY <2>2, <2>3, <2>4
<1>6. Total(f) = Before(f, len + 1)
  <2>1. len + 1 \in 1..(len + 1) /\ 1..(len + 1 - 1) = 1..len
    OBVIOUS
  <2>2. Total(f) = sum[1..len]
    <3>1. FoldFunction(LAMBDA m, n : m + n, 0, f) = sum[1..len]
      BY <1>2
    <3> QED
      BY <3>1 DEF Total
  <2>3. Before(f, len + 1) = sum[1..(len + 1 - 1)]
    BY <1>3, <2>1
  <2> QED
    BY <2>1, <2>2, <2>3
<1>7. \A j \in 1..(len + 1) : Before(f, j) \in Nat
  <2> TAKE j \in 1..(len + 1)
  <2>1. PICK T \in SUBSET (1..len) : T = 1..(j - 1) /\ Before(f, j) = sum[T]
    BY <1>3
  <2> QED
    BY <2>1
<1> QED
  BY <1>4, <1>5, <1>6, <1>7

\* What comes before a later list includes an earlier one whole.
LEMMA SumsGrow ==
  ASSUME NEW n \in Nat, NEW f \in [1..n -> Nat],
         NEW j \in 1..n, NEW k \in 1..(n + 1), j < k
  PROVE  Before(f, j) + f[j] <= Before(f, k)
<1> DEFINE Odd == {m \in 1..(n + 1) : j < m /\ ~(Before(f, j) + f[j] <= Before(f, m))}
<1> SUFFICES ASSUME Odd # {} PROVE FALSE
  OBVIOUS
<1>1. PICK m \in Odd : \A l \in Odd : m <= l
  <2>1. Odd \in SUBSET Nat
    OBVIOUS
  <2> HIDE DEF Odd
  <2> QED
    BY <2>1, LeastNumber
<1>2. m \in 1..(n + 1) /\ j < m /\ ~(Before(f, j) + f[j] <= Before(f, m))
  BY <1>1
<1>3. PICK l \in 1..n : m = l + 1
  <2>1. m - 1 \in 1..n /\ m = (m - 1) + 1
    BY <1>2
  <2> QED
    BY <2>1
<1>4. l \in 1..(n + 1) /\ ~(m <= l) /\ f[l] \in Nat /\ f[j] \in Nat
  BY <1>3
<1>5. /\ Before(f, j) \in Nat /\ Before(f, l) \in Nat /\ Before(f, m) \in Nat
      /\ Before(f, m) = Before(f, l) + f[l]
      /\ Before(f, j + 1) = Before(f, j) + f[j]
  <2>1. j \in 1..(n + 1)
    OBVIOUS
  <2> QED
    BY <1>2, <1>3, <1>4, <2>1, SumsBefore
<1>6. CASE l = j
  BY <1>2, <1>3, <1>4, <1>5, <1>6
<1>7. CASE l # j
  <2>1. Before(f, j) + f[j] <= Before(f, l)
    <3>1. j < l /\ l \notin Odd
      BY <1>1, <1>2, <1>3, <1>4, <1>7
    <3> QED
      BY <1>4, <3>1
  <2> QED
    BY <1>2, <1>4, <1>5, <2>1
<1> QED
  BY <1>6, <1>7

\* Each number below the total lies in one of the summands.
LEMMA SumsCover ==
  ASSUME NEW n \in Nat, NEW f \in [1..n -> Nat], NEW e \in Nat, e < Total(f)
  PROVE  \E j \in 1..n : Before(f, j) <= e /\ e < Before(f, j) + f[j]
<1> DEFINE Above == {m \in 1..(n + 1) : e < Before(f, m)}
<1>1. n + 1 \in Above
  BY SumsBefore
<1>2. PICK m \in Above : \A l \in Above : m <= l
  <2>1. Above \in SUBSET Nat
    OBVIOUS
  <2> HIDE DEF Above
  <2> QED
    BY <1>1, <2>1, LeastNumber
<1>3. m \in 1..(n + 1) /\ e < Before(f, m)
  BY <1>2
<1>4. m # 1
  BY <1>3, SumsBefore
<1>5. PICK l \in 1..n : m = l + 1
  <2>1. m - 1 \in 1..n /\ m = (m - 1) + 1
    BY <1>3, <1>4
  <2> QED
    BY <2>1
<1>6. l \in 1..(n + 1) /\ l \notin Above
  BY <1>2, <1>5
<1>7. Before(f, m) = Before(f, l) + f[l] /\ Before(f, l) \in Nat
  BY <1>5, <1>6, SumsBefore
<1> QED
  BY <1>3, <1>6, <1>7

-----------------------------------------------------------------------------
(* Where the entries go                                                    *)

\* The entries of list j in the first i sources.
Column(j) == [i \in Sources |-> ils[i][j]]
UpTo(j, i) == Before(Column(j), i + 1)

\* Entry k that list j gets from source i.
At(j, i, k) == (Before(sizes, j) + UpTo(j, i - 1)) + k

SourcesOK == ils \in [Sources -> [ListNos -> 0..MaxEntries]]

LEMMA UpToAdds ==
  ASSUME SourcesOK, NEW j \in ListNos
  PROVE  /\ UpTo(j, 0) = 0
         /\ \A i \in 0..NIl : UpTo(j, i) \in Nat
         /\ \A i \in Sources : ils[i][j] \in Nat
                               /\ UpTo(j, i) = UpTo(j, i - 1) + ils[i][j]
         /\ \A i \in Sources, k \in 1..NIl :
              i < k => UpTo(j, i - 1) + ils[i][j] <= UpTo(j, k - 1)
         /\ UpTo(j, NIl) = Total(Column(j))
<1>1. NIl \in Nat /\ Column(j) \in [1..NIl -> Nat]
      /\ \A i \in 1..NIl : Column(j)[i] = ils[i][j] /\ ils[i][j] \in Nat
  BY MergeAssumption DEF SourcesOK, Sources, Column
<1> DEFINE c == Column(j)
<1> HIDE DEF c
<1>2. /\ \A i \in 1..(NIl + 1) : Before(c, i) \in Nat
      /\ Before(c, 1) = 0
      /\ \A i \in 1..NIl : Before(c, i + 1) = Before(c, i) + c[i]
      /\ Total(c) = Before(c, NIl + 1)
  <2>1. c \in [1..NIl -> Nat]
    BY <1>1 DEF c
  <2> QED
    BY <1>1, <2>1, SumsBefore
<1>3. \A i \in 1..NIl, k \in 1..(NIl + 1) : i < k => Before(c, i) + c[i] <= Before(c, k)
  <2>1. c \in [1..NIl -> Nat]
    BY <1>1 DEF c
  <2> QED
    BY <1>1, <2>1, SumsGrow
<1>4. \A i : UpTo(j, i) = Before(c, i + 1)
  BY DEF UpTo, c
<1>5. \A i \in 0..NIl : i + 1 \in 1..(NIl + 1) /\ UpTo(j, i) \in Nat
  BY <1>1, <1>2, <1>4
<1>6. \A i \in 1..NIl : UpTo(j, i - 1) = Before(c, i)
  <2> TAKE i \in 1..NIl
  <2>1. (i - 1) + 1 = i
    BY <1>1
  <2> QED
    BY <1>4, <2>1
<1>7. \A i \in Sources : ils[i][j] \in Nat /\ UpTo(j, i) = UpTo(j, i - 1) + ils[i][j]
  BY <1>1, <1>2, <1>4, <1>6 DEF Sources, c
<1>8. \A i \in Sources, k \in 1..NIl :
        i < k => UpTo(j, i - 1) + ils[i][j] <= UpTo(j, k - 1)
  <2> TAKE i \in Sources, k \in 1..NIl
  <2>1. i \in 1..NIl /\ k \in 1..(NIl + 1) /\ c[i] = ils[i][j]
    BY <1>1 DEF Sources, c
  <2> QED
    BY <1>3, <1>6, <2>1
<1>9. UpTo(j, 0) = 0
  <2>1. 0 + 1 = 1
    OBVIOUS
  <2> QED
    BY <1>2, <1>4, <2>1
<1>10. UpTo(j, NIl) = Total(Column(j))
  BY <1>2, <1>4 DEF c
<1> QED
  BY <1>5, <1>7, <1>8, <1>9, <1>10

\* All sources have been counted.
AllCounted == SourcesOK /\ sizes = [j \in ListNos |-> UpTo(j, NIl)]

LEMMA BlocksAdd ==
  ASSUME AllCounted
  PROVE  /\ sizes \in [ListNos -> Nat] /\ Total(sizes) \in Nat
         /\ \A j \in ListNos : Before(sizes, j) \in Nat
                               /\ sizes[j] = UpTo(j, NIl)
                               /\ Before(sizes, j) + sizes[j] <= Total(sizes)
         /\ \A j, l \in ListNos : j < l => Before(sizes, j) + sizes[j] <= Before(sizes, l)
         /\ \A e \in Nat : e < Total(sizes) =>
              \E j \in ListNos : Before(sizes, j) <= e /\ e < Before(sizes, j) + sizes[j]
<1>1. NList \in Nat /\ NIl \in Nat
  BY MergeAssumption
<1>2. sizes \in [1..NList -> Nat] /\ \A j \in ListNos : sizes[j] = UpTo(j, NIl)
  <2>1. \A j \in ListNos : UpTo(j, NIl) \in Nat
    <3> TAKE j \in ListNos
    <3>1. NIl \in 0..NIl
      BY <1>1
    <3> QED
      BY <3>1, UpToAdds DEF AllCounted
  <2> QED
    BY <2>1 DEF AllCounted, ListNos
<1>3. /\ \A j \in 1..(NList + 1) : Before(sizes, j) \in Nat
      /\ Total(sizes) = Before(sizes, NList + 1)
  BY <1>1, <1>2, SumsBefore
<1>4. \A j \in 1..NList, k \in 1..(NList + 1) :
        j < k => Before(sizes, j) + sizes[j] <= Before(sizes, k)
  BY <1>1, <1>2, SumsGrow
<1>5. \A e \in Nat : e < Total(sizes) =>
        \E j \in ListNos : Before(sizes, j) <= e /\ e < Before(sizes, j) + sizes[j]
  BY <1>1, <1>2, SumsCover DEF ListNos
<1>6. \A j \in ListNos : j \in 1..(NList + 1) /\ j < NList + 1
  BY <1>1 DEF ListNos
<1>7. NList + 1 \in 1..(NList + 1)
  BY <1>1
<1> QED
  BY <1>2, <1>3, <1>4, <1>5, <1>6, <1>7 DEF ListNos

\* An entry lies in the block of its list, within what its source takes of it.
LEMMA AtWithin ==
  ASSUME AllCounted, NEW j \in ListNos, NEW i \in Sources, NEW k \in 1..ils[i][j]
  PROVE  /\ UpTo(j, i - 1) \in Nat /\ UpTo(j, i - 1) + k <= sizes[j]
         /\ At(j, i, k) \in 1..Total(sizes)
<1>1. /\ Before(sizes, j) \in Nat /\ sizes[j] \in Nat /\ Total(sizes) \in Nat
      /\ sizes[j] = UpTo(j, NIl) /\ Before(sizes, j) + sizes[j] <= Total(sizes)
  BY BlocksAdd
<1>2. NIl \in Sources /\ i - 1 \in 0..NIl /\ NIl - 1 \in 0..NIl /\ NIl \in Nat /\ i \in 1..NIl
  BY MergeAssumption DEF Sources
<1>3. /\ UpTo(j, i - 1) \in Nat /\ UpTo(j, NIl - 1) \in Nat
      /\ ils[i][j] \in Nat /\ UpTo(j, i) = UpTo(j, i - 1) + ils[i][j]
      /\ UpTo(j, NIl) = UpTo(j, NIl - 1) + ils[NIl][j] /\ ils[NIl][j] \in Nat
      /\ (i < NIl => UpTo(j, i - 1) + ils[i][j] <= UpTo(j, NIl - 1))
  BY <1>2, UpToAdds DEF AllCounted, Sources
<1>4. UpTo(j, i - 1) + ils[i][j] <= UpTo(j, NIl)
  <2>1. CASE i = NIl
    BY <1>3, <2>1
  <2>2. CASE i < NIl
    BY <1>3, <2>2
  <2> QED
    BY <1>2, <2>1, <2>2
<1>5. k \in Nat /\ 1 <= k /\ k <= ils[i][j]
  BY <1>3
<1>6. UpTo(j, i - 1) + k <= sizes[j]
  BY <1>1, <1>3, <1>4, <1>5
<1>7. At(j, i, k) = (Before(sizes, j) + UpTo(j, i - 1)) + k
  BY DEF At
<1> QED
  BY <1>1, <1>3, <1>5, <1>6, <1>7

\* No two entries have one place.
LEMMA AtApart ==
  ASSUME AllCounted,
         NEW j \in ListNos, NEW i \in Sources, NEW k \in 1..ils[i][j],
         NEW l \in ListNos, NEW h \in Sources, NEW m \in 1..ils[h][l],
         At(j, i, k) = At(l, h, m)
  PROVE  j = l /\ i = h /\ k = m
<1>1. /\ Before(sizes, j) \in Nat /\ sizes[j] \in Nat
      /\ Before(sizes, l) \in Nat /\ sizes[l] \in Nat
      /\ (j < l => Before(sizes, j) + sizes[j] <= Before(sizes, l))
      /\ (l < j => Before(sizes, l) + sizes[l] <= Before(sizes, j))
  BY BlocksAdd
<1>2. /\ UpTo(j, i - 1) \in Nat /\ UpTo(j, i - 1) + k <= sizes[j]
      /\ UpTo(l, h - 1) \in Nat /\ UpTo(l, h - 1) + m <= sizes[l]
  BY AtWithin
<1>3. /\ i \in Nat /\ h \in Nat /\ j \in Nat /\ l \in Nat /\ i \in 1..NIl /\ h \in 1..NIl
      /\ k \in Int /\ m \in Int /\ 1 <= k /\ 1 <= m
  BY MergeAssumption DEF Sources, ListNos
<1>4. (Before(sizes, j) + UpTo(j, i - 1)) + k = (Before(sizes, l) + UpTo(l, h - 1)) + m
  BY DEF At
<1>5. j = l
  <2>1. CASE j < l
    BY <1>1, <1>2, <1>3, <1>4, <2>1
  <2>2. CASE l < j
    BY <1>1, <1>2, <1>3, <1>4, <2>2
  <2> QED
    BY <1>3, <2>1, <2>2
<1>6. UpTo(j, i - 1) + k = UpTo(j, h - 1) + m /\ UpTo(j, h - 1) \in Nat
  BY <1>1, <1>2, <1>3, <1>4, <1>5
<1>7. /\ (i < h => UpTo(j, i - 1) + ils[i][j] <= UpTo(j, h - 1))
      /\ (h < i => UpTo(j, h - 1) + ils[h][j] <= UpTo(j, i - 1))
      /\ ils[i][j] \in Nat /\ ils[h][j] \in Nat
  BY <1>3, UpToAdds DEF AllCounted
<1>8. k <= ils[i][j] /\ m <= ils[h][j]
  BY <1>5, <1>7
<1>9. i = h
  <2>1. CASE i < h
    BY <1>2, <1>3, <1>6, <1>7, <1>8, <2>1
  <2>2. CASE h < i
    BY <1>2, <1>3, <1>6, <1>7, <1>8, <2>2
  <2> QED
    BY <1>3, <2>1, <2>2
<1>10. k = m
  BY <1>3, <1>6, <1>9
<1> QED
  BY <1>5, <1>9, <1>10

\* Every place of the file is that of an entry.
LEMMA AtCovers ==
  ASSUME AllCounted, NEW e \in 1..Total(sizes)
  PROVE  \E j \in ListNos, i \in Sources :
           \E k \in 1..ils[i][j] : e = At(j, i, k)
<1>1. Total(sizes) \in Nat /\ e - 1 \in Nat /\ e - 1 < Total(sizes) /\ e \in Nat
  BY BlocksAdd
<1>2. PICK j \in ListNos : Before(sizes, j) <= e - 1 /\ e - 1 < Before(sizes, j) + sizes[j]
  BY <1>1, BlocksAdd
<1>3. Before(sizes, j) \in Nat /\ sizes[j] = Total(Column(j)) /\ sizes[j] \in Nat
  <2>1. UpTo(j, NIl) = Total(Column(j))
    BY UpToAdds DEF AllCounted
  <2> QED
    BY <2>1, BlocksAdd
<1>4. PICK b \in Nat : e - 1 = Before(sizes, j) + b /\ b < Total(Column(j))
  <2>1. /\ (e - 1) - Before(sizes, j) \in Nat
        /\ e - 1 = Before(sizes, j) + ((e - 1) - Before(sizes, j))
        /\ (e - 1) - Before(sizes, j) < sizes[j]
    BY <1>1, <1>2, <1>3
  <2> QED
    BY <1>3, <2>1
<1>5. NIl \in Nat /\ Column(j) \in [1..NIl -> Nat]
      /\ \A i \in 1..NIl : Column(j)[i] = ils[i][j] /\ ils[i][j] \in Nat
  <2>1. /\ NIl \in Nat /\ Sources = 1..NIl /\ j \in ListNos
        /\ ils \in [Sources -> [ListNos -> 0..MaxEntries]]
    BY <1>2, MergeAssumption DEF AllCounted, SourcesOK, Sources
  <2>2. \A i \in 1..NIl : ils[i][j] \in Nat
    BY <2>1, MergeAssumption
  <2> QED
    BY <2>1, <2>2 DEF Column
<1>6. PICK i \in 1..NIl : /\ Before(Column(j), i) <= b
                          /\ b < Before(Column(j), i) + Column(j)[i]
  BY <1>4, <1>5, SumsCover
<1>7. UpTo(j, i - 1) = Before(Column(j), i) /\ UpTo(j, i - 1) \in Nat /\ i \in Sources
  <2>1. (i - 1) + 1 = i /\ i - 1 \in 0..NIl
    BY <1>5
  <2> QED
    BY <2>1, UpToAdds DEF UpTo, Sources, AllCounted
<1>8. PICK k \in 1..ils[i][j] : b + 1 = UpTo(j, i - 1) + k
  <2>1. /\ (b + 1) - UpTo(j, i - 1) \in 1..ils[i][j]
        /\ b + 1 = UpTo(j, i - 1) + ((b + 1) - UpTo(j, i - 1))
    BY <1>4, <1>5, <1>6, <1>7
  <2> QED
    BY <2>1
<1>9. e = (Before(sizes, j) + UpTo(j, i - 1)) + k
  <2>1. PICK p, u \in Nat : p = Before(sizes, j) /\ u = UpTo(j, i - 1)
    BY <1>3, <1>7
  <2>2. k \in Int /\ e - 1 = p + b /\ b + 1 = u + k
    BY <1>4, <1>5, <1>8, <2>1
  <2>3. e = (p + u) + k
    BY <1>1, <2>2
  <2> QED
    BY <2>1, <2>3
<1> QED
  BY <1>7, <1>9 DEF At

-----------------------------------------------------------------------------
(* The inductive invariant                                                 *)

\* What the pass over the sources has added up, and where the ids go.
CountOK ==
  /\ SourcesOK
  /\ counted \in 0..NIl
  /\ sizes = [j \in ListNos |-> UpTo(j, counted)]
  /\ shift_id_offsets \in Seq(Nat) /\ Len(shift_id_offsets) = counted
  /\ \A i \in 1..counted : shift_id_offsets[i] = Offset(i)

NotPlaced == lists = <<>> /\ file = <<>> /\ merged = [j \in ListNos |-> 0]

\* Each list has taken what its sources so far hold, and each of their entries
\* is at its place.
FilledSoFar ==
  /\ counted = NIl
  /\ merged \in [ListNos -> 0..NIl]
  /\ lists = [j \in ListNos |->
                [size |-> UpTo(j, merged[j]), capacity |-> sizes[j],
                 offset |-> Before(sizes, j)]]
  /\ file \in [1..Total(sizes) -> Int]
  /\ \A j \in ListNos : \A i \in 1..merged[j] : \A k \in 1..ils[i][j] :
       file[At(j, i, k)] = Ids(i, j)[k] + shift_id_offsets[i]

\* The lists have their places, but there is no file.
LeftEmpty ==
  /\ counted = NIl
  /\ merged = [j \in ListNos |-> 0]
  /\ lists = [j \in ListNos |-> Placed(j)]
  /\ file = <<>>

MergeInv == CountOK /\ (NotPlaced \/ LeftEmpty \/ FilledSoFar)

\* Ids are numbered through the lists of a source.
LEMMA IdsCount ==
  ASSUME SourcesOK, NEW i \in Sources, NEW j \in ListNos
  PROVE  /\ ils[i] \in [1..NList -> Nat] /\ NList \in Nat
         /\ Before(ils[i], j) \in Nat
         /\ Ids(i, j) \in [1..ils[i][j] -> Nat]
         /\ Ids(i, j) \in Seq(Nat) /\ Len(Ids(i, j)) = ils[i][j]
         /\ \A k \in 1..ils[i][j] : Ids(i, j)[k] = (Before(ils[i], j) + k) - 1
<1>1. ils[i] \in [1..NList -> Nat] /\ NList \in Nat /\ ils[i][j] \in Nat
      /\ j \in 1..NList
  BY MergeAssumption DEF SourcesOK, ListNos
<1>2. Before(ils[i], j) \in Nat
  <2>1. PICK f \in [1..NList -> Nat] : f = ils[i]
    BY <1>1
  <2>2. j \in 1..(NList + 1)
    BY <1>1
  <2> QED
    BY <1>1, <2>1, <2>2, SumsBefore
<1>3. \A k \in 1..ils[i][j] : (Before(ils[i], j) + k) - 1 \in Nat
  BY <1>1, <1>2
<1>4. Ids(i, j) \in [1..ils[i][j] -> Nat]
      /\ \A k \in 1..ils[i][j] : Ids(i, j)[k] = (Before(ils[i], j) + k) - 1
  BY <1>2, <1>3 DEF Ids
<1>5. Ids(i, j) \in Seq(Nat) /\ Len(Ids(i, j)) = ils[i][j]
  <2>1. PICK n \in Nat : n = ils[i][j]
    BY <1>1
  <2>2. PICK f \in [1..n -> Nat] : f = Ids(i, j)
    BY <1>4, <2>1
  <2>3. f \in Seq(Nat)
    BY FunctionIsSeq
  <2> QED
    BY <2>1, <2>2, <2>3, LenProperties
<1> QED
  BY <1>1, <1>2, <1>4, <1>5

LEMMA OffsetType ==
  ASSUME CountOK, NEW i \in Sources, i <= counted + 1
  PROVE  Offset(i) \in Nat
<1>1. ils[i] \in [1..NList -> Nat] /\ NList \in Nat
  BY MergeAssumption DEF CountOK, SourcesOK, ListNos
<1>2. Total(ils[i]) \in Nat
  <2>1. NList + 1 \in 1..(NList + 1)
    BY <1>1
  <2> QED
    BY <1>1, <2>1, SumsBefore
<1>3. i > 1 => shift_id_offsets[i - 1] \in Nat
  <2>1. i > 1 => i - 1 \in 1..counted
    BY MergeAssumption DEF CountOK, Sources
  <2> QED
    BY <2>1, ElementOfSeq DEF CountOK
<1> QED
  BY <1>2, <1>3 DEF Offset

LEMMA InitMergeInv == Init => MergeInv
<1> SUFFICES ASSUME Init PROVE MergeInv
  OBVIOUS
<1>1. SourcesOK /\ counted = 0 /\ NIl \in Nat
  BY MergeAssumption DEF Init, SourcesOK
<1>2. sizes = [j \in ListNos |-> UpTo(j, counted)]
  <2>1. \A j \in ListNos : UpTo(j, 0) = 0
    BY <1>1, UpToAdds
  <2> QED
    BY <1>1, <2>1 DEF Init
<1>3. shift_id_offsets \in Seq(Nat) /\ Len(shift_id_offsets) = counted
  BY <1>1, EmptySeq DEF Init
<1>4. NotPlaced
  BY DEF Init, NotPlaced
<1> QED
  BY <1>1, <1>2, <1>3, <1>4 DEF CountOK, MergeInv

\* Nothing but counting changes what has been counted.
LEMMA CountKept ==
  ASSUME CountOK, UNCHANGED <<ils, counted, sizes, shift_id_offsets>>
  PROVE  CountOK'
<1>1. \A i \in 1..counted : shift_id_offsets'[i] = Offset(i)'
  BY DEF CountOK, Offset
<1>2. \A j : UpTo(j, counted)' = UpTo(j, counted)
  BY DEF UpTo, Column
<1>3. sizes' = [j \in ListNos |-> UpTo(j, counted)']
  BY <1>2 DEF CountOK
<1> QED
  BY <1>1, <1>3 DEF CountOK, SourcesOK

LEMMA CountStep ==
  ASSUME MergeInv, Count
  PROVE  MergeInv'
<1> DEFINE i == counted + 1
<1>1. CountOK /\ NIl \in Nat /\ counted \in Nat /\ counted < NIl /\ i \in Sources
      /\ i \in 0..NIl /\ counted' = i /\ ils' = ils
  BY MergeAssumption DEF MergeInv, CountOK, Count, Sources
<1>2. NotPlaced /\ NotPlaced'
  BY <1>1 DEF MergeInv, FilledSoFar, LeftEmpty, NotPlaced, Count
<1>3. sizes' = [j \in ListNos |-> UpTo(j, counted)']
  <2>1. \A j \in ListNos : UpTo(j, i) = UpTo(j, counted) + ils[i][j]
    <3> TAKE j \in ListNos
    <3>1. UpTo(j, i) = UpTo(j, i - 1) + ils[i][j] /\ i - 1 = counted
      BY <1>1, UpToAdds DEF CountOK
    <3> QED
      BY <3>1
  <2>2. \A j : UpTo(j, counted)' = UpTo(j, i)
    BY <1>1 DEF UpTo, Column
  <2>3. sizes' = [j \in ListNos |-> sizes[j] + ils[i][j]]
    BY DEF Count
  <2>4. \A j \in ListNos : sizes[j] + ils[i][j] = UpTo(j, counted)'
    <3> HIDE DEF i
    <3> QED
      BY <1>1, <2>1, <2>2 DEF CountOK
  <2> HIDE DEF i
  <2> QED
    BY <2>3, <2>4
<1>4. PICK o \in Nat : o = Offset(i)
  <2>1. Offset(i) \in Nat
    BY <1>1, OffsetType
  <2> QED
    BY <2>1
<1>5. shift_id_offsets' = Append(shift_id_offsets, o)
  BY <1>4 DEF Count
<1>6. /\ shift_id_offsets' \in Seq(Nat) /\ Len(shift_id_offsets') = i
      /\ \A h \in 1..counted : shift_id_offsets'[h] = shift_id_offsets[h]
      /\ shift_id_offsets'[i] = o
  BY <1>1, <1>5, AppendProperties DEF CountOK
<1>7. \A h \in 1..i : shift_id_offsets'[h] = Offset(h)'
  <2> TAKE h \in 1..i
  <2>1. h > 1 => h - 1 \in 1..counted
    BY <1>1
  <2>2. Offset(h)' = Offset(h)
    <3>1. h > 1 => shift_id_offsets'[h - 1] = shift_id_offsets[h - 1]
      BY <1>6, <2>1
    <3> QED
      BY <1>1, <3>1 DEF Offset
  <2>3. CASE h = i
    BY <1>4, <1>6, <2>2, <2>3
  <2>4. CASE h # i
    <3>1. h \in 1..counted
      BY <1>1, <2>4
    <3> QED
      BY <1>1, <1>6, <2>2, <3>1 DEF CountOK
  <2> QED
    BY <2>3, <2>4
<1>8. CountOK'
  <2>1. SourcesOK'
    BY <1>1 DEF CountOK, SourcesOK
  <2> HIDE DEF i
  <2> QED
    BY <1>1, <1>3, <1>6, <1>7, <2>1 DEF CountOK
<1> QED
  BY <1>2, <1>8 DEF MergeInv

LEMMA PlaceStep ==
  ASSUME MergeInv, Place
  PROVE  MergeInv'
<1>1. CountOK /\ CountOK' /\ counted = NIl /\ counted' = NIl /\ NIl \in Nat
  <2>1. CountOK /\ UNCHANGED <<ils, counted, sizes, shift_id_offsets>>
    BY DEF MergeInv, Place
  <2> QED
    BY <2>1, CountKept, MergeAssumption DEF Place, LayOut
<1>2. AllCounted
  BY <1>1 DEF CountOK, AllCounted
<1>3. merged = [j \in ListNos |-> 0] /\ merged' = merged /\ sizes' = sizes /\ ils' = ils
  BY DEF MergeInv, NotPlaced, LeftEmpty, FilledSoFar, Place, LayOut, ListNos
<1>4. merged' \in [ListNos -> 0..NIl] /\ \A j \in ListNos : merged'[j] = 0
  BY <1>1, <1>3
<1>5. lists' = [j \in ListNos |->
                  [size |-> UpTo(j, merged[j])', capacity |-> sizes'[j],
                   offset |-> Before(sizes', j)]]
  <2>1. \A j \in ListNos : UpTo(j, merged[j])' = 0
    <3> TAKE j \in ListNos
    <3>1. UpTo(j, 0) = 0
      BY <1>2, UpToAdds DEF AllCounted
    <3>2. UpTo(j, merged[j])' = UpTo(j, 0)
      BY <1>3, <1>4 DEF UpTo, Column
    <3> QED
      BY <3>1, <3>2
  <2>2. lists' = [j \in ListNos |->
                    [size |-> 0, capacity |-> sizes[j], offset |-> Before(sizes, j)]]
    BY DEF Place, LayOut, Placed
  <2> QED
    BY <1>3, <2>1, <2>2
<1>6. file' \in [1..Total(sizes') -> Int]
  BY <1>3 DEF Place
<1>7. \A j \in ListNos : \A i \in 1..merged'[j] : FALSE
  BY <1>4
<1>8. FilledSoFar'
  BY <1>1, <1>4, <1>5, <1>6, <1>7 DEF FilledSoFar
<1> QED
  BY <1>1, <1>8 DEF MergeInv

LEMMA PlaceFailsStep ==
  ASSUME MergeInv, PlaceFails
  PROVE  MergeInv'
<1>1. CountOK /\ CountOK' /\ counted' = NIl /\ sizes' = sizes
  <2>1. CountOK /\ UNCHANGED <<ils, counted, sizes, shift_id_offsets>>
    BY DEF MergeInv, PlaceFails
  <2> QED
    BY <2>1, CountKept DEF PlaceFails, LayOut
<1>2. NotPlaced
  <2>1. DOMAIN lists = {} /\ 1 \in ListNos
    BY MergeAssumption DEF PlaceFails, LayOut, ListNos
  <2>2. ~LeftEmpty /\ ~FilledSoFar
    BY <2>1 DEF LeftEmpty, FilledSoFar
  <2> QED
    BY <2>2 DEF MergeInv
<1>3. merged' = [j \in ListNos |-> 0] /\ file' = <<>>
  BY <1>2 DEF PlaceFails, NotPlaced
<1>4. lists' = [j \in ListNos |-> Placed(j)']
  BY <1>1 DEF PlaceFails, LayOut, Placed
<1> QED
  BY <1>1, <1>3, <1>4 DEF MergeInv, LeftEmpty

\* A thread that merges a source writes the entries of that source and no
\* others: those of the other lists, and of the sources before, stay.
LEMMA MergeSourceStep ==
  ASSUME MergeInv, NEW j \in ListNos, MergeSource(j)
  PROVE  MergeInv'
<1> DEFINE i == merged[j] + 1
           n == Len(Ids(i, j))
           first == First(j, n)
<1>1. CountOK /\ CountOK'
  <2>1. CountOK /\ UNCHANGED <<ils, counted, sizes, shift_id_offsets>>
    BY DEF MergeInv, MergeSource
  <2> QED
    BY <2>1, CountKept
<1>2. FilledSoFar /\ merged[j] < NIl /\ SourcesOK
  BY <1>1 DEF MergeInv, NotPlaced, LeftEmpty, MergeSource, CountOK
<1>3. AllCounted
  BY <1>1, <1>2 DEF CountOK, AllCounted, FilledSoFar
<1>4. NIl \in Nat /\ merged[j] \in 0..NIl /\ i \in Sources /\ i - 1 = merged[j]
  BY <1>2, MergeAssumption DEF FilledSoFar, Sources
<1>5. /\ n = ils[i][j] /\ n \in Nat /\ Ids(i, j) \in [1..n -> Nat]
  <2>1. ils[i][j] \in Nat
    BY <1>2, <1>4, UpToAdds
  <2> HIDE DEF i
  <2> QED
    BY <1>2, <1>4, <2>1, IdsCount
<1>6. /\ UpTo(j, merged[j]) \in Nat /\ UpTo(j, i) = UpTo(j, merged[j]) + n
      /\ Before(sizes, j) \in Nat
  <2>1. UpTo(j, merged[j]) \in Nat /\ UpTo(j, i) = UpTo(j, i - 1) + ils[i][j]
    <3> HIDE DEF i, n
    <3> QED
      BY <1>2, <1>4, UpToAdds
  <2> HIDE DEF i, n
  <2> QED
    BY <1>3, <1>4, <1>5, <2>1, BlocksAdd
<1>7. first = Before(sizes, j) + UpTo(j, merged[j]) /\ first \in Nat
  <2>1. lists[j].offset = Before(sizes, j) /\ lists[j].size = UpTo(j, merged[j])
    BY <1>2 DEF FilledSoFar
  <2>2. first = lists[j].offset + lists[j].size
    BY DEF First
  <2> HIDE DEF first
  <2> QED
    BY <1>6, <2>1, <2>2
<1>8. \A k : At(j, i, k) = first + k
  <2> HIDE DEF i, n, first
  <2> QED
    BY <1>4, <1>7 DEF At
<1>9. /\ merged' = [merged EXCEPT ![j] = i]
      /\ lists' = [lists EXCEPT ![j].size = @ + n]
      /\ file' = [e \in DOMAIN file |->
                    IF e > first /\ e <= first + n
                    THEN Ids(i, j)[e - first] + shift_id_offsets[i] ELSE file[e]]
      /\ UNCHANGED <<ils, counted, sizes, shift_id_offsets>>
  BY DEF MergeSource
<1>10. shift_id_offsets[i] \in Nat
  <2>1. i \in 1..Len(shift_id_offsets)
    BY <1>1, <1>2, <1>4 DEF CountOK, FilledSoFar, Sources
  <2> HIDE DEF i
  <2> QED
    BY <1>1, <2>1, ElementOfSeq DEF CountOK
<1>11. merged' \in [ListNos -> 0..NIl] /\ merged'[j] = i
       /\ \A l \in ListNos : l # j => merged'[l] = merged[l]
  BY <1>2, <1>4, <1>9 DEF FilledSoFar, Sources
<1> HIDE DEF i, n, first
<1>12. /\ DOMAIN file = 1..Total(sizes) /\ \A e \in 1..Total(sizes) : file[e] \in Int
  BY <1>2 DEF FilledSoFar
<1>13. file' \in [1..Total(sizes') -> Int]
  <2>1. \A e \in 1..Total(sizes) : e > first /\ e <= first + n =>
          Ids(i, j)[e - first] + shift_id_offsets[i] \in Int
    <3> TAKE e \in 1..Total(sizes)
    <3>1. Total(sizes) \in Nat
      BY <1>3, BlocksAdd
    <3>2. e > first /\ e <= first + n => e - first \in 1..n
      BY <1>5, <1>7, <3>1
    <3>3. \A k \in 1..n : Ids(i, j)[k] \in Nat
      BY <1>5
    <3> QED
      BY <1>10, <3>2, <3>3
  <2> QED
    BY <1>9, <1>12, <2>1
<1>14. lists' = [l \in ListNos |->
                   [size |-> UpTo(l, merged[l])', capacity |-> sizes'[l],
                    offset |-> Before(sizes', l)]]
  <2>1. \A l \in ListNos : (UpTo(l, merged[l]))' = UpTo(l, merged'[l])
    BY <1>9 DEF UpTo, Column
  <2>2. lists = [l \in ListNos |-> [size |-> UpTo(l, merged[l]), capacity |-> sizes[l],
                                    offset |-> Before(sizes, l)]]
    BY <1>2 DEF FilledSoFar
  <2>3. \A l \in ListNos : l # j => lists'[l] = lists[l]
    BY <1>9, <2>2
  <2>4. lists'[j] = [size |-> UpTo(j, i), capacity |-> sizes[j],
                     offset |-> Before(sizes, j)]
    BY <1>6, <1>9, <2>2
  <2>5. DOMAIN lists' = ListNos /\ lists' = [l \in ListNos |-> lists'[l]]
    BY <1>9, <2>2
  <2>6. \A l \in ListNos : lists'[l] =
          [size |-> UpTo(l, merged'[l]), capacity |-> sizes[l], offset |-> Before(sizes, l)]
    BY <1>11, <2>2, <2>3, <2>4
  <2> QED
    BY <1>9, <2>1, <2>5, <2>6
<1>15. ASSUME NEW l \in ListNos, NEW h \in 1..merged'[l], NEW k \in 1..ils[h][l]
       PROVE  file'[At(l, h, k)] = Ids(h, l)[k] + shift_id_offsets[h]
  <2>1. h \in Sources /\ h \in Nat
    BY <1>4, <1>11 DEF Sources
  <2>2. At(l, h, k) \in 1..Total(sizes) /\ ils[h][l] \in Nat /\ At(l, h, k) \in Int
    <3>1. At(l, h, k) \in 1..Total(sizes)
      BY <1>3, <2>1, AtWithin
    <3>2. ils[h][l] \in Nat /\ Total(sizes) \in Nat
      BY <1>2, <1>3, <2>1, UpToAdds, BlocksAdd
    <3> QED
      BY <3>1, <3>2
  <2>3. CASE l = j /\ h = i
    <3>1. At(l, h, k) = first + k /\ k \in Nat /\ 1 <= k /\ k <= n
      BY <1>5, <1>8, <2>2, <2>3
    <3>2. first + k > first /\ first + k <= first + n /\ (first + k) - first = k
      BY <1>5, <1>7, <3>1
    <3>3. first + k \in DOMAIN file
      BY <1>12, <2>2, <3>1
    <3>4. file'[first + k] = Ids(i, j)[(first + k) - first] + shift_id_offsets[i]
      BY <1>9, <3>2, <3>3
    <3> QED
      BY <2>3, <3>1, <3>2, <3>4
  <2>4. CASE ~(l = j /\ h = i)
    <3>1. ASSUME At(l, h, k) > first, At(l, h, k) <= first + n PROVE FALSE
      <4>1. PICK m \in 1..n : At(l, h, k) = first + m
        <5>1. At(l, h, k) - first \in 1..n
              /\ At(l, h, k) = first + (At(l, h, k) - first)
          BY <1>5, <1>7, <2>2, <3>1
        <5> QED
          BY <5>1
      <4>2. At(l, h, k) = At(j, i, m) /\ m \in 1..ils[i][j]
        BY <1>5, <1>8, <4>1
      <4> QED
        BY <1>3, <1>4, <2>1, <2>4, <4>2, AtApart
    <3>2. h \in 1..merged[l]
      BY <1>4, <1>11, <2>1, <2>4
    <3>3. file'[At(l, h, k)] = file[At(l, h, k)]
      BY <1>9, <1>12, <2>2, <3>1
    <3> QED
      BY <1>2, <3>2, <3>3 DEF FilledSoFar
  <2> QED
    BY <2>3, <2>4
<1>16. \A l \in ListNos : \A h \in 1..merged'[l] : \A k \in 1..ils'[h][l] :
         file'[At(l, h, k)'] = Ids(h, l)'[k] + shift_id_offsets'[h]
  <2>1. \A l, h, k : At(l, h, k)' = At(l, h, k)
    BY <1>9 DEF At, UpTo, Column
  <2>2. \A l, h : Ids(h, l)' = Ids(h, l)
    BY <1>9 DEF Ids
  <2>3. ils' = ils /\ shift_id_offsets' = shift_id_offsets
    BY <1>9
  <2> QED
    BY <1>15, <2>1, <2>2, <2>3
<1>17. counted' = NIl
  BY <1>2, <1>9 DEF FilledSoFar
<1>18. FilledSoFar'
  BY <1>11, <1>13, <1>14, <1>16, <1>17 DEF FilledSoFar
<1> QED
  BY <1>1, <1>18 DEF MergeInv

LEMMA StutterMergeInv ==
  ASSUME MergeInv, UNCHANGED vars
  PROVE  MergeInv'
<1>1. CountOK'
  BY CountKept DEF MergeInv, vars
<1>2. (NotPlaced => NotPlaced') /\ (LeftEmpty => LeftEmpty')
  BY DEF vars, NotPlaced, LeftEmpty, Placed
<1>3. FilledSoFar => FilledSoFar'
  <2>1. /\ \A l : (UpTo(l, merged[l]))' = UpTo(l, merged[l])
        /\ \A l, h, k : At(l, h, k)' = At(l, h, k)
        /\ \A l, h : Ids(h, l)' = Ids(h, l)
    BY DEF vars, UpTo, Column, At, Ids
  <2> QED
    BY <2>1 DEF vars, FilledSoFar
<1> QED
  BY <1>1, <1>2, <1>3 DEF MergeInv

LEMMA NextMergeInv == MergeInv /\ [Next]_vars => MergeInv'
<1> SUFFICES ASSUME MergeInv, [Next]_vars PROVE MergeInv'
  OBVIOUS
<1>1. CASE Count
  BY <1>1, CountStep
<1>2. CASE Place
  BY <1>2, PlaceStep
<1>3. CASE PlaceFails
  BY <1>3, PlaceFailsStep
<1>4. CASE \E j \in ListNos : MergeSource(j)
  BY <1>4, MergeSourceStep
<1>5. CASE UNCHANGED vars
  BY <1>5, StutterMergeInv
<1> QED
  BY <1>1, <1>2, <1>3, <1>4, <1>5 DEF Next

LEMMA AlwaysMergeInv == Spec => []MergeInv
  BY InitMergeInv, NextMergeInv, PTL DEF Spec

-----------------------------------------------------------------------------
(* The store is made of its sources and of nothing else                    *)

\* What list j is to get from source i.
Block(i, j) == [k \in 1..ils[i][j] |-> Ids(i, j)[k] + shift_id_offsets[i]]

LEMMA BlockType ==
  ASSUME CountOK, FilledSoFar, NEW j \in ListNos, NEW i \in Sources
  PROVE  /\ Block(i, j) \in Seq(Int) /\ Len(Block(i, j)) = ils[i][j]
         /\ ils[i][j] \in Nat /\ shift_id_offsets[i] \in Nat
<1>1. PICK n \in Nat : n = ils[i][j]
  <2>1. ils[i][j] \in Nat
    BY UpToAdds DEF CountOK
  <2> QED
    BY <2>1
<1>2. shift_id_offsets[i] \in Nat
  <2>1. i \in 1..Len(shift_id_offsets)
    BY DEF CountOK, FilledSoFar, Sources
  <2> QED
    BY <2>1, ElementOfSeq DEF CountOK
<1>3. Ids(i, j) \in [1..n -> Nat]
  BY <1>1, IdsCount DEF CountOK
<1>4. PICK b \in [1..n -> Int] : b = Block(i, j)
  <2>1. \A k \in 1..n : Ids(i, j)[k] + shift_id_offsets[i] \in Int
    <3> TAKE k \in 1..n
    <3>1. Ids(i, j)[k] \in Nat
      BY <1>3
    <3> QED
      BY <1>2, <3>1
  <2> QED
    BY <1>1, <2>1 DEF Block
<1>5. b \in Seq(Int)
  BY <1>1, FunctionIsSeq
<1> QED
  BY <1>1, <1>2, <1>4, <1>5, LenProperties

\* A stretch of the file goes on with what lies behind it.
LEMMA FileAdds ==
  ASSUME NEW f, NEW t, NEW q, NEW b,
         f \in Seq(Int), t \in Seq(Int), q \in Nat, b \in Nat, q <= b,
         LiesBehind(t, f, b)
  PROVE  SubSeq(f, q + 1, b + Len(t)) = SubSeq(f, q + 1, b) \o t
  BY SubSeqAdds

LEMMA HoldsSources ==
  ASSUME CountOK, FilledSoFar, NEW j \in ListNos, NEW m \in 0..merged[j]
  PROVE  SubSeq(file, Before(sizes, j) + 1, Before(sizes, j) + UpTo(j, m))
           = FlattenSeq([i \in 1..m |-> Block(i, j)])
<1> DEFINE p == Before(sizes, j)
           Held(l) == SubSeq(file, p + 1, p + UpTo(j, l))
           Odd == {l \in 0..merged[j] : Held(l) # FlattenSeq([i \in 1..l |-> Block(i, j)])}
<1>1. merged[j] \in 0..NIl /\ NIl \in Nat
  BY MergeAssumption DEF FilledSoFar
<1>2. AllCounted /\ SourcesOK
  BY DEF CountOK, FilledSoFar, AllCounted
<1>3. /\ p \in Nat /\ sizes[j] = UpTo(j, NIl) /\ sizes[j] \in Nat
      /\ p + sizes[j] <= Total(sizes) /\ Total(sizes) \in Nat
  BY <1>2, BlocksAdd
<1>4. file \in Seq(Int) /\ Len(file) = Total(sizes) /\ DOMAIN file = 1..Total(sizes)
  <2>1. PICK n \in Nat : n = Total(sizes)
    BY <1>3
  <2>2. file \in [1..n -> Int]
    BY <2>1 DEF FilledSoFar
  <2>3. file \in Seq(Int)
    BY <2>2, FunctionIsSeq
  <2> QED
    BY <2>1, <2>2, <2>3, LenProperties
<1> HIDE DEF p
<1> SUFFICES ASSUME Odd # {} PROVE FALSE
  BY DEF p
<1>5. PICK l \in Odd : \A h \in Odd : l <= h
  <2>1. Odd \in SUBSET Nat
    BY <1>1
  <2> HIDE DEF Odd
  <2> QED
    BY <2>1, LeastNumber
<1>6. l \in 0..merged[j] /\ Held(l) # FlattenSeq([i \in 1..l |-> Block(i, j)])
  BY <1>5
<1>7. CASE l = 0
  <2>1. Held(0) = <<>>
    <3>1. UpTo(j, 0) = 0
      BY <1>2, UpToAdds
    <3>2. p + UpTo(j, 0) < p + 1
      BY <1>3, <3>1
    <3> QED
      BY <1>3, <3>1, <3>2, SubSeqEmpty, <1>4
  <2>2. FlattenSeq([i \in 1..0 |-> Block(i, j)]) = <<>>
    <3>1. [i \in 1..0 |-> Block(i, j)] = <<>>
      OBVIOUS
    <3> QED
      BY <3>1, EmptySeq DEF FlattenSeq
  <2> QED
    BY <1>6, <1>7, <2>1, <2>2
<1>8. CASE l # 0
  <2>1. PICK h \in 0..merged[j] : l = h + 1 /\ ~(l <= h) /\ h \in Nat
    <3>1. l - 1 \in 0..merged[j] /\ l = (l - 1) + 1 /\ ~(l <= l - 1) /\ l - 1 \in Nat
      BY <1>1, <1>6, <1>8
    <3> QED
      BY <3>1
  <2>2. Held(h) = FlattenSeq([i \in 1..h |-> Block(i, j)])
    <3>1. h \notin Odd
      BY <1>5, <2>1
    <3> QED
      BY <2>1, <3>1
  <2> DEFINE s == [i \in 1..(h + 1) |-> Block(i, j)]
  <2>3. l \in Sources /\ h \in 0..NIl /\ 1..(h + 1) \subseteq Sources /\ l - 1 = h /\ l \in 1..NIl
    BY <1>1, <1>6, <2>1 DEF Sources
  <2>4. s \in [1..(h + 1) -> Seq(Int)]
    <3>1. \A i \in 1..(h + 1) : Block(i, j) \in Seq(Int)
      BY <2>3, BlockType
    <3> QED
      BY <3>1
  <2>5. FlattenSeq([i \in 1..l |-> Block(i, j)])
          = FlattenSeq([i \in 1..h |-> Block(i, j)]) \o Block(l, j)
    <3>1. FlattenSeq(s) = FlattenSeq([i \in 1..h |-> s[i]]) \o s[h + 1]
      <4> HIDE DEF s
      <4> QED
        BY <2>1, <2>4, FlattenSeqAdds
    <3>2. [i \in 1..h |-> s[i]] = [i \in 1..h |-> Block(i, j)] /\ s[h + 1] = Block(h + 1, j)
      BY <2>1
    <3> QED
      BY <2>1, <3>1, <3>2
  <2>6. PICK a \in Nat, n \in Nat :
          /\ a = UpTo(j, h) /\ n = ils[l][j] /\ UpTo(j, l) = a + n
          /\ (p + a) + n <= Total(sizes)
    <3>1. /\ UpTo(j, h) \in Nat /\ ils[l][j] \in Nat
          /\ UpTo(j, l) = UpTo(j, l - 1) + ils[l][j]
      BY <1>2, <2>3, UpToAdds
    <3>2. UpTo(j, h) + ils[l][j] <= sizes[j]
      <4>1. CASE ils[l][j] = 0
        <5>1. CASE l = NIl
          BY <1>3, <2>3, <3>1, <5>1
        <5>2. CASE l # NIl
          <6>1. l < NIl /\ NIl \in 1..NIl /\ NIl \in Sources /\ NIl - 1 \in 0..NIl
            BY <1>1, <2>3, <5>2 DEF Sources
          <6>2. /\ UpTo(j, l - 1) + ils[l][j] <= UpTo(j, NIl - 1)
                /\ UpTo(j, NIl) = UpTo(j, NIl - 1) + ils[NIl][j] /\ ils[NIl][j] \in Nat
                /\ UpTo(j, NIl - 1) \in Nat
            BY <1>2, <2>3, <6>1, UpToAdds
          <6>3. PICK a, b, d, e \in Nat :
                  /\ a = UpTo(j, h) /\ b = ils[l][j]
                  /\ d = UpTo(j, NIl - 1) /\ e = ils[NIl][j]
            BY <3>1, <6>2
          <6>4. a + b <= d
            BY <2>3, <6>2, <6>3
          <6>5. sizes[j] = d + e
            BY <1>3, <6>2, <6>3
          <6>6. a + b <= d + e
            BY <6>4
          <6> QED
            BY <6>3, <6>5, <6>6
        <5> QED
          BY <5>1, <5>2
      <4>2. CASE ils[l][j] # 0
        <5>1. ils[l][j] \in 1..ils[l][j]
          BY <3>1, <4>2
        <5>2. UpTo(j, l - 1) + ils[l][j] <= sizes[j]
          BY <1>2, <2>3, <5>1, AtWithin
        <5> QED
          BY <2>3, <5>2
      <4> QED
        BY <4>1, <4>2
    <3> QED
      BY <1>3, <2>3, <3>1, <3>2
  <2>7. \A k \in 1..n : Block(l, j)[k] = file[(p + a) + k]
    <3> TAKE k \in 1..n
    <3>1. At(j, l, k) = (p + a) + k
      BY <2>3, <2>6 DEF At, p
    <3>2. l \in 1..merged[j]
      BY <1>1, <1>6, <1>8
    <3>3. file[At(j, l, k)] = Ids(l, j)[k] + shift_id_offsets[l]
      BY <2>6, <3>2 DEF FilledSoFar
    <3> QED
      BY <2>6, <3>1, <3>3 DEF Block
  <2>8. Block(l, j) \in Seq(Int) /\ Len(Block(l, j)) = n
    BY <2>3, <2>6, BlockType
  <2>9. PICK b \in Nat : b = p + a /\ p <= b /\ b + n = p + (a + n)
    <3> HIDE DEF Odd
    <3>1. p + a \in Nat /\ p <= p + a /\ (p + a) + n = p + (a + n)
      BY <1>3, <2>6
    <3> QED
      BY <3>1
  <2>10. SubSeq(file, p + 1, b + n) = SubSeq(file, p + 1, b) \o Block(l, j)
    <3> HIDE DEF Odd
    <3>1. PICK q \in Nat : q = p
      BY <1>3
    <3>2. PICK f \in Seq(Int) : f = file
      BY <1>4
    <3>3. PICK t \in Seq(Int) : t = Block(l, j)
      BY <2>8
    <3>4. b + n <= Len(f) /\ Len(t) = n /\ q <= b
      BY <1>4, <2>6, <2>8, <2>9, <3>1, <3>2, <3>3
    <3>5. \A k \in 1..n : t[k] = f[b + k]
      BY <2>7, <2>9, <3>2, <3>3
    <3>6. LiesBehind(t, f, b)
      BY <3>4, <3>5 DEF LiesBehind
    <3>7. SubSeq(f, q + 1, b + Len(t)) = SubSeq(f, q + 1, b) \o t
      BY <3>4, <3>6, FileAdds
    <3> QED
      BY <3>1, <3>2, <3>3, <3>4, <3>7
  <2> QED
    BY <1>6, <2>2, <2>5, <2>6, <2>9, <2>10
<1> QED
  BY <1>7, <1>8

LEMMA AllHoldSources == MergeInv => ListsHoldSources
<1> SUFFICES ASSUME MergeInv, NEW j \in DOMAIN lists
             PROVE  SubSeq(file, lists[j].offset + 1, lists[j].offset + lists[j].size)
                      = Wanted(j, merged[j])
  BY DEF ListsHoldSources
<1>1. CASE NotPlaced
  BY <1>1 DEF NotPlaced
<1>2. CASE LeftEmpty
  <2>1. AllCounted /\ NIl \in Nat
    BY <1>2, MergeAssumption DEF MergeInv, CountOK, LeftEmpty, AllCounted
  <2>2. j \in ListNos /\ merged[j] = 0 /\ lists[j].size = 0
        /\ lists[j].offset = Before(sizes, j)
    BY <1>2 DEF LeftEmpty, Placed
  <2>3. PICK p \in Nat : p = Before(sizes, j)
    BY <2>1, <2>2, BlocksAdd
  <2>4. SubSeq(file, lists[j].offset + 1, lists[j].offset + lists[j].size) = <<>>
    <3>1. p + 0 < p + 1 /\ p + 1 \in Int /\ p + 0 \in Int
      BY <2>3
    <3>2. file \in Seq(Int)
      BY <1>2, EmptySeq DEF LeftEmpty
    <3> QED
      BY <2>2, <2>3, <3>1, <3>2, SubSeqEmpty
  <2>5. Wanted(j, 0) = <<>>
    <3>1. \A f : [i \in 1..0 |-> f[i]] = <<>>
      OBVIOUS
    <3>2. Wanted(j, 0) = FlattenSeq(<<>>)
      BY <3>1 DEF Wanted
    <3> QED
      BY <3>2, EmptySeq DEF FlattenSeq
  <2> QED
    BY <2>2, <2>4, <2>5
<1>3. CASE FilledSoFar
  <2>1. /\ j \in ListNos /\ lists[j].offset = Before(sizes, j)
        /\ lists[j].size = UpTo(j, merged[j]) /\ merged[j] \in 0..merged[j]
    BY <1>3, MergeAssumption DEF FilledSoFar
  <2>2. SubSeq(file, Before(sizes, j) + 1, Before(sizes, j) + UpTo(j, merged[j]))
          = FlattenSeq([i \in 1..merged[j] |-> Block(i, j)])
    BY <1>3, <2>1, HoldsSources DEF MergeInv
  <2>3. Wanted(j, merged[j]) = FlattenSeq([i \in 1..merged[j] |-> Block(i, j)])
    BY DEF Wanted, Block
  <2> QED
    BY <2>1, <2>2, <2>3
<1> QED
  BY <1>1, <1>2, <1>3 DEF MergeInv

\* What is done is placed and filled.
LEMMA DoneFilled == MergeInv /\ Done => CountOK /\ FilledSoFar
<1> SUFFICES ASSUME MergeInv, Done PROVE CountOK /\ FilledSoFar
  OBVIOUS
<1>1. 1 \in ListNos /\ NIl # 0
  BY MergeAssumption DEF ListNos
<1>2. ~LeftEmpty
  BY <1>1 DEF Done, LeftEmpty
<1> QED
  BY <1>2 DEF MergeInv, NotPlaced, Done

\* Once all sources are merged, each place of the file holds an id.
LEMMA IdAt ==
  ASSUME MergeInv, Done, NEW e \in DOMAIN file
  PROVE  \E j \in ListNos, i \in Sources : \E k \in 1..ils[i][j] :
           /\ e = At(j, i, k) /\ k \in Nat /\ 1 <= k /\ k <= ils[i][j] /\ ils[i][j] \in Nat
           /\ Before(ils[i], j) \in Nat /\ shift_id_offsets[i] \in Nat
           /\ file[e] = ((Before(ils[i], j) + k) - 1) + shift_id_offsets[i]
<1>1. CountOK /\ FilledSoFar /\ AllCounted
  BY DoneFilled DEF CountOK, FilledSoFar, AllCounted
<1>2. e \in 1..Total(sizes)
  BY <1>1 DEF FilledSoFar
<1>3. PICK j \in ListNos, i \in Sources : \E k \in 1..ils[i][j] : e = At(j, i, k)
  BY <1>1, <1>2, AtCovers
<1>4. PICK k \in 1..ils[i][j] : e = At(j, i, k)
  BY <1>3
<1>5. i \in 1..merged[j]
  BY DEF Done, Sources
<1>6. file[e] = Ids(i, j)[k] + shift_id_offsets[i]
  BY <1>1, <1>4, <1>5 DEF FilledSoFar
<1>7. Ids(i, j)[k] = (Before(ils[i], j) + k) - 1 /\ Before(ils[i], j) \in Nat
  BY <1>1, IdsCount DEF CountOK
<1>8. ils[i][j] \in Nat /\ shift_id_offsets[i] \in Nat
  BY <1>1, BlockType
<1> QED
  BY <1>4, <1>6, <1>7, <1>8

LEMMA IsCompact == MergeInv => Compact
<1> SUFFICES ASSUME MergeInv, Done PROVE Compact
  BY DEF Compact
<1>1. CountOK /\ FilledSoFar
  BY DoneFilled
<1>2. ASSUME NEW j \in ListNos PROVE lists[j].size = lists[j].capacity
  BY <1>1 DEF Done, CountOK, FilledSoFar
<1>3. ASSUME NEW e \in DOMAIN file PROVE file[e] # -1
  <2>1. PICK a, b, k \in Nat : 1 <= k /\ file[e] = ((a + k) - 1) + b
    BY IdAt
  <2> QED
    BY <2>1
<1> QED
  BY <1>2, <1>3 DEF Compact

\* However the threads that fill the lists interleave, each list holds its
\* sources one after the other, no thread has written into the block of
\* another, and in the end the store is compact (merge_from_multiple,
\* update_entries, which takes no lock).
THEOREM MergedStoreIsSources == Spec => []StoreIsSources
<1>1. MergeInv => StoreIsSources
  BY AllHoldSources, IsCompact DEF StoreIsSources
<1> QED
  BY <1>1, AlwaysMergeInv, PTL

-----------------------------------------------------------------------------
(* Ids of shards that do not get smaller                                   *)

Growing == \A i \in 1..(NIl - 1) : Total(ils[i]) <= Total(ils[i + 1])

LEMMA OffsetsApart ==
  ASSUME CountOK, FilledSoFar, ShiftIds, Growing,
         NEW i \in Sources, NEW h \in Sources, i < h
  PROVE  shift_id_offsets[i] + Total(ils[i]) <= shift_id_offsets[h]
<1> DEFINE s == shift_id_offsets
           t == [m \in Sources |-> Total(ils[m])]
           Odd == {m \in Sources :
                     i < m /\ ~(t[i] <= t[m] /\ s[i] + t[i] <= s[m])}
<1>1. /\ NIl \in Nat /\ Sources = 1..NIl
      /\ \A m \in Sources : s[m] \in Nat /\ t[m] \in Nat
      /\ \A m \in Sources : m > 1 => s[m] = s[m - 1] + t[m]
      /\ \A m \in Sources : m > 1 => t[m - 1] <= t[m]
  <2>1. NIl \in Nat /\ Sources = 1..NIl /\ counted = NIl
    BY MergeAssumption DEF Sources, FilledSoFar
  <2>2. \A m \in Sources : s[m] \in Nat
    BY <2>1, ElementOfSeq DEF CountOK
  <2>3. \A m \in Sources : t[m] \in Nat
    <3> TAKE m \in Sources
    <3>1. ils[m] \in [1..NList -> Nat] /\ NList \in Nat
      BY MergeAssumption DEF CountOK, SourcesOK, ListNos
    <3>2. NList + 1 \in 1..(NList + 1)
      BY <3>1
    <3> QED
      BY <3>1, <3>2, SumsBefore
  <2>4. \A m \in Sources : m > 1 => s[m] = s[m - 1] + t[m]
    BY <2>1 DEF CountOK, Offset
  <2>5. \A m \in Sources : m > 1 => t[m - 1] <= t[m]
    <3> SUFFICES ASSUME NEW m \in Sources, m > 1 PROVE t[m - 1] <= t[m]
      OBVIOUS
    <3>1. m - 1 \in 1..(NIl - 1) /\ m - 1 \in Sources /\ (m - 1) + 1 = m
      BY <2>1
    <3>2. Total(ils[m - 1]) <= Total(ils[(m - 1) + 1])
      BY <3>1 DEF Growing
    <3> QED
      BY <3>1, <3>2
  <2> QED
    BY <2>1, <2>2, <2>3, <2>4, <2>5
<1> HIDE DEF s, t
<1> SUFFICES ASSUME Odd # {} PROVE FALSE
  BY DEF s, t
<1>2. PICK m \in Odd : \A l \in Odd : m <= l
  <2>1. Odd \in SUBSET Nat
    BY <1>1
  <2> HIDE DEF Odd
  <2> QED
    BY <2>1, LeastNumber
<1>3. m \in Sources /\ i < m /\ ~(t[i] <= t[m] /\ s[i] + t[i] <= s[m])
  BY <1>2
<1>4. PICK l \in Sources : l = m - 1 /\ ~(m <= l) /\ (l = i \/ i < l)
  <2>1. m - 1 \in Sources /\ ~(m <= m - 1) /\ (m - 1 = i \/ i < m - 1)
    BY <1>1, <1>3
  <2> QED
    BY <2>1
<1>5. /\ s[m] = s[l] + t[m] /\ t[l] <= t[m]
      /\ s[l] \in Nat /\ s[i] \in Nat /\ s[m] \in Nat
      /\ t[l] \in Nat /\ t[i] \in Nat /\ t[m] \in Nat
  <2>1. m > 1
    BY <1>1, <1>3
  <2> QED
    BY <1>1, <1>3, <1>4, <2>1
<1>6. CASE l = i
  BY <1>3, <1>5, <1>6
<1>7. CASE i < l
  <2>1. l \notin Odd
    BY <1>2, <1>4
  <2>2. t[i] <= t[l] /\ s[i] + t[i] <= s[l]
    BY <1>4, <1>7, <2>1
  <2> QED
    BY <1>3, <1>5, <2>2
<1> QED
  BY <1>4, <1>6, <1>7

\* A source of w entries numbers them below w.
LEMMA IdsBelow ==
  ASSUME SourcesOK, NEW i \in Sources,
         NEW j \in ListNos, NEW k \in 1..ils[i][j],
         NEW l \in ListNos, NEW m \in 1..ils[i][l]
  PROVE  /\ (Before(ils[i], j) + k) - 1 < Total(ils[i])
         /\ Total(ils[i]) \in Nat
         /\ Before(ils[i], j) + k = Before(ils[i], l) + m => j = l /\ k = m
<1>1. NList \in Nat /\ ils[i] \in [1..NList -> Nat]
  BY MergeAssumption DEF SourcesOK, ListNos
<1>2. PICK f \in [1..NList -> Nat] : f = ils[i]
  BY <1>1
<1>3. /\ \A p \in 1..(NList + 1) : Before(f, p) \in Nat
      /\ Total(f) = Before(f, NList + 1)
      /\ \A p \in 1..NList, q \in 1..(NList + 1) : p < q => Before(f, p) + f[p] <= Before(f, q)
  BY <1>1, SumsBefore, SumsGrow
<1>4. /\ j \in 1..NList /\ l \in 1..NList /\ NList + 1 \in 1..(NList + 1)
      /\ j < NList + 1 /\ j \in 1..(NList + 1) /\ l \in 1..(NList + 1)
  BY <1>1 DEF ListNos
<1>5. /\ Before(f, j) \in Nat /\ Before(f, l) \in Nat /\ f[j] \in Nat /\ f[l] \in Nat
      /\ Before(f, j) + f[j] <= Total(f) /\ Total(f) \in Nat
      /\ (j < l => Before(f, j) + f[j] <= Before(f, l))
      /\ (l < j => Before(f, l) + f[l] <= Before(f, j))
  BY <1>3, <1>4
<1>6. k \in Int /\ 1 <= k /\ k <= f[j] /\ m \in Int /\ 1 <= m /\ m <= f[l]
  BY <1>2, <1>5
<1>7. j \in Int /\ l \in Int
  BY <1>4
<1>8. (Before(f, j) + k) - 1 < Total(f)
  BY <1>5, <1>6
<1>9. Before(f, j) + k = Before(f, l) + m => j = l /\ k = m
  <2> SUFFICES ASSUME Before(f, j) + k = Before(f, l) + m PROVE j = l /\ k = m
    OBVIOUS
  <2>1. ~(j < l)
    BY <1>5, <1>6
  <2>2. ~(l < j)
    BY <1>5, <1>6
  <2>3. j = l
    BY <1>7, <2>1, <2>2
  <2> QED
    BY <1>5, <1>6, <2>3
<1> QED
  BY <1>2, <1>5, <1>8, <1>9

LEMMA ShardsApart == MergeInv => GrowingShardsApart
<1> SUFFICES ASSUME MergeInv, ShiftIds, Done, Growing,
                    NEW d \in DOMAIN file, NEW e \in DOMAIN file, file[d] = file[e]
             PROVE  d = e
  BY DEF GrowingShardsApart, IsInjective, Growing
<1>1. CountOK /\ FilledSoFar /\ SourcesOK
  BY DoneFilled DEF CountOK
<1>2. PICK j \in ListNos, i \in Sources : \E k \in 1..ils[i][j] :
        /\ d = At(j, i, k) /\ k \in Nat /\ 1 <= k /\ k <= ils[i][j] /\ ils[i][j] \in Nat
        /\ Before(ils[i], j) \in Nat /\ shift_id_offsets[i] \in Nat
        /\ file[d] = ((Before(ils[i], j) + k) - 1) + shift_id_offsets[i]
  BY IdAt
<1>3. PICK k \in 1..ils[i][j] :
        /\ d = At(j, i, k) /\ k \in Nat /\ 1 <= k
        /\ Before(ils[i], j) \in Nat /\ shift_id_offsets[i] \in Nat
        /\ file[d] = ((Before(ils[i], j) + k) - 1) + shift_id_offsets[i]
  BY <1>2
<1>4. PICK l \in ListNos, h \in Sources : \E m \in 1..ils[h][l] :
        /\ e = At(l, h, m) /\ m \in Nat /\ 1 <= m /\ m <= ils[h][l] /\ ils[h][l] \in Nat
        /\ Before(ils[h], l) \in Nat /\ shift_id_offsets[h] \in Nat
        /\ file[e] = ((Before(ils[h], l) + m) - 1) + shift_id_offsets[h]
  BY IdAt
<1>5. PICK m \in 1..ils[h][l] :
        /\ e = At(l, h, m) /\ m \in Nat /\ 1 <= m
        /\ Before(ils[h], l) \in Nat /\ shift_id_offsets[h] \in Nat
        /\ file[e] = ((Before(ils[h], l) + m) - 1) + shift_id_offsets[h]
  BY <1>4
<1>6. PICK v, w \in Nat : v = Total(ils[i]) /\ w = Total(ils[h])
  <2>1. Total(ils[i]) \in Nat /\ Total(ils[h]) \in Nat
    BY <1>1, IdsBelow
  <2> QED
    BY <2>1
<1>7. /\ (Before(ils[i], j) + k) - 1 < v /\ (Before(ils[h], l) + m) - 1 < w
  BY <1>1, <1>6, IdsBelow
<1>8. /\ (i < h => shift_id_offsets[i] + v <= shift_id_offsets[h])
      /\ (h < i => shift_id_offsets[h] + w <= shift_id_offsets[i])
  BY <1>1, <1>6, OffsetsApart
<1>9. PICK a, b, s, t \in Nat :
        a = Before(ils[i], j) /\ b = Before(ils[h], l)
          /\ s = shift_id_offsets[i] /\ t = shift_id_offsets[h]
  BY <1>3, <1>5
<1>10. ((a + k) - 1) + s = ((b + m) - 1) + t /\ (a + k) - 1 < v /\ (b + m) - 1 < w
       /\ (i < h => s + v <= t) /\ (h < i => t + w <= s)
  BY <1>3, <1>5, <1>7, <1>8, <1>9
<1>11. ~(i < h) /\ ~(h < i)
  BY <1>3, <1>5, <1>10
<1>12. i = h
  BY <1>11, MergeAssumption DEF Sources
<1>13. a + k = b + m
  <2>1. s = t
    BY <1>9, <1>12
  <2>2. k \in Nat /\ m \in Nat
    BY <1>3, <1>5
  <2> QED
    BY <1>10, <2>1, <2>2
<1>14. j = l /\ k = m
  BY <1>1, <1>9, <1>12, <1>13, IdsBelow
<1> QED
  BY <1>3, <1>5, <1>12, <1>14

\* With shift_ids, no two entries of the merged store have the same id when no
\* shard is smaller than the one before it (merge_from_multiple,
\* shift_id_offsets).
THEOREM MergedIdsApart == Spec => []GrowingShardsApart
<1>1. MergeInv => GrowingShardsApart
  BY ShardsApart
<1> QED
  BY <1>1, AlwaysMergeInv, PTL
=============================================================================

----------------------------- MODULE ProofLemmas -----------------------------
(***************************************************************************)
(* Lemmas about numbers and sequences that the proofs of several modules    *)
(* rest on.                                                                 *)
(***************************************************************************)
EXTENDS Integers, SequencesExt, SequenceTheorems, FiniteSetTheorems,
        WellFoundedInduction, TLAPS

\* Every non-empty set of natural numbers has a least element.  Induction on a
\* number is done with it: the least counterexample is refuted.
LEMMA LeastNumber ==
  ASSUME NEW T \in SUBSET Nat, T # {}
  PROVE  \E m \in T : \A n \in T : m <= n
<1> DEFINE F == {0..n : n \in T}
<1>1. F \subseteq FiniteSubsetsOf(Nat) /\ F # {}
  <2>1. \A n \in T : 0..n \in FiniteSubsetsOf(Nat)
    BY FS_Interval DEF FiniteSubsetsOf
  <2> QED
    BY <2>1
<1>2. PICK I \in F : \A J \in F : <<J, I>> \notin StrictSubsetOrdering(Nat)
  <2> HIDE DEF F
  <2> QED
    BY <1>1, FS_StrictSubsetOrderingWellFounded, WFMin
<1>3. PICK m \in T : I = 0..m
  BY <1>2
<1>4. ASSUME NEW n \in T, n < m
      PROVE  FALSE
  <2>1. /\ 0..n \in F /\ 0..n \in SUBSET Nat /\ 0..m \in SUBSET Nat
        /\ 0..n \subseteq 0..m /\ m \in 0..m /\ m \notin 0..n
    BY <1>4
  <2>2. <<0..n, 0..m>> \in StrictSubsetOrdering(Nat)
    BY <2>1, Zenon DEF StrictSubsetOrdering
  <2> QED
    BY <1>2, <1>3, <2>1, <2>2
<1> QED
  BY <1>3, <1>4

-----------------------------------------------------------------------------
(* Sequences                                                               *)

\* SequencesExt's RemoveAt: what follows position i moves down by one.
LEMMA RemoveAtProperties ==
  ASSUME NEW S, NEW s \in Seq(S), NEW i \in 1..Len(s)
  PROVE  /\ RemoveAt(s, i) \in Seq(S)
         /\ Len(RemoveAt(s, i)) = Len(s) - 1
         /\ \A j \in 1..(Len(s) - 1) :
              RemoveAt(s, i)[j] = IF j < i THEN s[j] ELSE s[j + 1]
<1> DEFINE a == SubSeq(s, 1, i - 1)
           b == SubSeq(s, i + 1, Len(s))
<1>0. Len(s) \in Nat /\ \A j \in 1..Len(s) : s[j] \in S
  BY LenProperties, ElementOfSeq
<1>1. /\ a \in Seq(S) /\ Len(a) = i - 1
      /\ \A j \in 1..(i - 1) : a[j] = s[j]
  BY <1>0, SubSeqProperties
<1>2. /\ b \in Seq(S) /\ Len(b) = Len(s) - i
      /\ \A j \in 1..(Len(s) - i) : b[j] = s[j + i]
  BY <1>0, SubSeqProperties
<1> HIDE DEF a, b
<1>3. /\ a \o b \in Seq(S) /\ Len(a \o b) = Len(s) - 1
      /\ \A j \in 1..(Len(s) - 1) :
           (a \o b)[j] = IF j <= i - 1 THEN a[j] ELSE b[j - (i - 1)]
  <2>1. /\ a \o b \in Seq(S) /\ Len(a \o b) = Len(a) + Len(b)
        /\ \A j \in 1..(Len(a) + Len(b)) :
             (a \o b)[j] = IF j <= Len(a) THEN a[j] ELSE b[j - Len(a)]
    BY <1>1, <1>2, ConcatProperties
  <2>2. Len(a) + Len(b) = Len(s) - 1
    BY <1>0, <1>1, <1>2
  <2> QED
    BY <1>1, <2>1, <2>2
<1>4. \A j \in 1..(Len(s) - 1) :
        (a \o b)[j] = IF j < i THEN s[j] ELSE s[j + 1]
  <2> TAKE j \in 1..(Len(s) - 1)
  <2>1. CASE j < i
    BY <1>0, <1>1, <1>3, <2>1
  <2>2. CASE j >= i
    <3>1. j - (i - 1) \in 1..(Len(s) - i) /\ (j - (i - 1)) + i = j + 1
      BY <1>0, <2>2
    <3> QED
      BY <1>0, <1>2, <1>3, <2>2, <3>1
  <2>3. j < i \/ j >= i
    BY <1>0
  <2> QED
    BY <2>1, <2>2, <2>3, Zenon
<1> QED
  BY <1>3, <1>4 DEF RemoveAt, a, b

\* SequencesExt's InsertAt: what was at position i and after moves up by one.
LEMMA InsertAtProperties ==
  ASSUME NEW S, NEW s \in Seq(S), NEW i \in 1..(Len(s) + 1), NEW e \in S
  PROVE  /\ InsertAt(s, i, e) \in Seq(S)
         /\ Len(InsertAt(s, i, e)) = Len(s) + 1
         /\ \A j \in 1..(Len(s) + 1) :
              InsertAt(s, i, e)[j] = IF j < i THEN s[j]
                                     ELSE IF j = i THEN e ELSE s[j - 1]
<1> DEFINE a == SubSeq(s, 1, i - 1)
           b == SubSeq(s, i, Len(s))
           c == a \o <<e>>
<1>0. Len(s) \in Nat /\ \A j \in 1..Len(s) : s[j] \in S
  BY LenProperties, ElementOfSeq
<1>1. /\ a \in Seq(S) /\ Len(a) = i - 1
      /\ \A j \in 1..(i - 1) : a[j] = s[j]
  BY <1>0, SubSeqProperties
<1>2. /\ b \in Seq(S) /\ Len(b) = Len(s) - i + 1
      /\ \A j \in 1..(Len(s) - i + 1) : b[j] = s[j + i - 1]
  BY <1>0, SubSeqProperties
<1> HIDE DEF a, b
<1>3. <<e>> \in Seq(S) /\ Len(<<e>>) = 1 /\ <<e>>[1] = e
  OBVIOUS
<1>4. /\ c \in Seq(S) /\ Len(c) = i
      /\ \A j \in 1..i : c[j] = IF j < i THEN s[j] ELSE e
  BY <1>0, <1>1, <1>3, ConcatProperties
<1> HIDE DEF c
<1>5. /\ c \o b \in Seq(S) /\ Len(c \o b) = Len(s) + 1
      /\ \A j \in 1..(Len(s) + 1) :
           (c \o b)[j] = IF j <= i THEN c[j] ELSE b[j - i]
  <2>1. /\ c \o b \in Seq(S)
        /\ Len(c \o b) = Len(c) + Len(b)
        /\ \A j \in 1..(Len(c) + Len(b)) :
             (c \o b)[j]
               = IF j <= Len(c) THEN c[j]
                 ELSE b[j - Len(c)]
    BY <1>2, <1>4, ConcatProperties
  <2>2. Len(c) + Len(b) = Len(s) + 1
    BY <1>0, <1>2, <1>4
  <2> QED
    BY <1>4, <2>1, <2>2
<1>6. \A j \in 1..(Len(s) + 1) :
        (c \o b)[j] = IF j < i THEN s[j]
                               ELSE IF j = i THEN e ELSE s[j - 1]
  <2> TAKE j \in 1..(Len(s) + 1)
  <2>1. CASE j <= i
    BY <1>0, <1>4, <1>5, <2>1
  <2>2. CASE j > i
    <3>1. j - i \in 1..(Len(s) - i + 1) /\ (j - i) + i - 1 = j - 1
      BY <1>0, <2>2
    <3> QED
      BY <1>0, <1>2, <1>5, <2>2, <3>1
  <2>3. j <= i \/ j > i
    BY <1>0
  <2> QED
    BY <2>1, <2>2, <2>3, Zenon
<1> QED
  BY <1>5, <1>6 DEF InsertAt, a, b, c

\* The elements of a sequence, by position.
LEMMA RangeBySequence ==
  ASSUME NEW S, NEW s \in Seq(S)
  PROVE  /\ Len(s) \in Nat /\ DOMAIN s = 1..Len(s)
         /\ Range(s) = {s[i] : i \in 1..Len(s)} /\ Range(s) \subseteq S
         /\ IsInjective(s) <=> \A i, j \in 1..Len(s) : s[i] = s[j] => i = j
<1>1. Len(s) \in Nat /\ DOMAIN s = 1..Len(s) /\ \A i \in 1..Len(s) : s[i] \in S
  BY LenProperties, ElementOfSeq
<1> QED
  BY <1>1 DEF Range, IsInjective

\* What is put at the end of a sequence.
LEMMA AppendAdds ==
  ASSUME NEW S, NEW s \in Seq(S), NEW e \in S
  PROVE  /\ Append(s, e) \in Seq(S) /\ Range(Append(s, e)) = Range(s) \cup {e}
         /\ IsInjective(s) /\ e \notin Range(s) => IsInjective(Append(s, e))
<1> DEFINE a == Append(s, e)
           n == Len(s)
<1>1. /\ a \in Seq(S) /\ Len(a) = n + 1 /\ n \in Nat
      /\ \A i \in 1..n : a[i] = s[i]
      /\ a[n + 1] = e
  BY AppendProperties, LenProperties
<1>2. /\ Range(s) = {s[i] : i \in 1..n}
      /\ IsInjective(s) <=> \A i, j \in 1..n : s[i] = s[j] => i = j
  BY RangeBySequence
<1>3. /\ Range(a) = {a[i] : i \in 1..(n + 1)}
      /\ IsInjective(a) <=> \A i, j \in 1..(n + 1) : a[i] = a[j] => i = j
  BY <1>1, RangeBySequence
<1> HIDE DEF a, n
<1>4. Range(a) = Range(s) \cup {e}
  <2>1. \A i \in 1..(n + 1) : i \in 1..n \/ i = n + 1
    BY <1>1
  <2>2. \A i \in 1..n : i \in 1..(n + 1)
    BY <1>1
  <2>3. n + 1 \in 1..(n + 1)
    BY <1>1
  <2> QED
    BY <1>1, <1>2, <1>3, <2>1, <2>2, <2>3
<1>5. ASSUME IsInjective(s), e \notin Range(s)
      PROVE  IsInjective(a)
  <2>1. \A i \in 1..n : a[i] # e
    BY <1>1, <1>2, <1>5
  <2>2. \A i, j \in 1..n : a[i] = a[j] => i = j
    BY <1>1, <1>2, <1>5
  <2>3. \A i \in 1..(n + 1) : i \in 1..n \/ i = n + 1
    BY <1>1
  <2> QED
    BY <1>1, <1>3, <2>1, <2>2, <2>3
<1> QED
  BY <1>1, <1>4, <1>5 DEF a

\* What is left of a sequence without repetitions when its head is taken.
LEMMA TailTakes ==
  ASSUME NEW S, NEW s \in Seq(S), s # <<>>, IsInjective(s)
  PROVE  /\ Tail(s) \in Seq(S) /\ Head(s) \in Range(s)
         /\ Range(Tail(s)) = Range(s) \ {Head(s)} /\ IsInjective(Tail(s))
<1> DEFINE a == Tail(s)
           n == Len(s)
<1>1. /\ a \in Seq(S) /\ Len(a) = n - 1 /\ n \in Nat /\ n > 0
      /\ Head(s) = s[1] /\ \A i \in 1..(n - 1) : a[i] = s[i + 1]
  BY HeadTailProperties, LenProperties, EmptySeq
<1>2. /\ Range(s) = {s[i] : i \in 1..n}
      /\ \A i, j \in 1..n : s[i] = s[j] => i = j
  BY RangeBySequence
<1>3. /\ Range(a) = {a[i] : i \in 1..(n - 1)}
      /\ IsInjective(a) <=> \A i, j \in 1..(n - 1) : a[i] = a[j] => i = j
  <2>1. a \in Seq(S) /\ Len(a) = n - 1
    BY <1>1
  <2> HIDE DEF a, n
  <2>2. /\ Range(a) = {a[i] : i \in 1..Len(a)}
        /\ IsInjective(a) <=> \A i, j \in 1..Len(a) : a[i] = a[j] => i = j
    BY <2>1, RangeBySequence
  <2> QED
    BY <2>1, <2>2
<1> HIDE DEF a, n
<1>4. Head(s) \in Range(s)
  <2>1. 1 \in 1..n
    BY <1>1
  <2> QED
    BY <1>1, <1>2, <2>1
<1>5. \A i \in 1..(n - 1) : i + 1 \in 1..n /\ i + 1 # 1
  BY <1>1
<1>6. IsInjective(a)
  <2>1. ASSUME NEW i \in 1..(n - 1), NEW j \in 1..(n - 1), a[i] = a[j]
        PROVE  i = j
    <3>1. s[i + 1] = s[j + 1]
      BY <1>1, <2>1
    <3>2. i + 1 = j + 1
      BY <1>2, <1>5, <3>1
    <3> QED
      BY <3>2
  <2> QED
    BY <1>3, <2>1
<1>7. Range(a) = Range(s) \ {Head(s)}
  <2>1. \A i \in 1..n : i = 1 \/ (i - 1 \in 1..(n - 1) /\ (i - 1) + 1 = i)
    BY <1>1
  <2>2. ASSUME NEW x \in Range(s) \ {Head(s)}
        PROVE  x \in Range(a)
    <3>1. PICK i \in 1..n : x = s[i]
      BY <1>2
    <3>2. i # 1
      BY <1>1, <2>2, <3>1
    <3>3. i - 1 \in 1..(n - 1) /\ a[i - 1] = x
      BY <1>1, <2>1, <3>1, <3>2
    <3> QED
      BY <1>3, <3>3
  <2>3. ASSUME NEW x \in Range(a)
        PROVE  x \in Range(s) \ {Head(s)}
    <3>1. PICK i \in 1..(n - 1) : x = a[i]
      BY <1>3
    <3>2. x = s[i + 1] /\ i + 1 \in 1..n /\ i + 1 # 1 /\ 1 \in 1..n
      BY <1>1, <1>5, <3>1
    <3>3. x # s[1]
      BY <1>2, <3>2
    <3> QED
      BY <1>1, <1>2, <3>2, <3>3
  <2> QED
    BY <2>2, <2>3
<1> QED
  BY <1>1, <1>4, <1>6, <1>7 DEF a

\* What is in one of two sequences, or the other.
LEMMA ConcatRange ==
  ASSUME NEW S, NEW s \in Seq(S), NEW r \in Seq(S)
  PROVE  Range(s \o r) = Range(s) \cup Range(r)
<1>1. /\ s \o r \in Seq(S) /\ Len(s \o r) = Len(s) + Len(r)
      /\ \A i \in 1..(Len(s) + Len(r)) :
           (s \o r)[i] = IF i <= Len(s) THEN s[i] ELSE r[i - Len(s)]
  BY ConcatProperties
<1>2. /\ Range(s) = {s[i] : i \in 1..Len(s)} /\ Range(r) = {r[i] : i \in 1..Len(r)}
      /\ Range(s \o r) = {(s \o r)[i] : i \in 1..(Len(s) + Len(r))}
      /\ Len(s) \in Nat /\ Len(r) \in Nat
  <2>1. Range(s) = {s[i] : i \in 1..Len(s)} /\ Len(s) \in Nat
    BY RangeBySequence
  <2>2. Range(r) = {r[i] : i \in 1..Len(r)} /\ Len(r) \in Nat
    BY RangeBySequence
  <2>3. Range(s \o r) = {(s \o r)[i] : i \in 1..Len(s \o r)}
    BY <1>1, RangeBySequence, Zenon
  <2> QED
    BY <1>1, <2>1, <2>2, <2>3
<1> DEFINE m == Len(s)
           n == Len(r)
<1>3. \A i \in 1..m : i \in 1..(m + n) /\ i <= m
  BY <1>2
<1>4. \A i \in 1..n : i + m \in 1..(m + n) /\ ~ (i + m <= m) /\ (i + m) - m = i
  BY <1>2
<1>5. \A i \in 1..(m + n) : (i <= m /\ i \in 1..m) \/ (~ (i <= m) /\ i - m \in 1..n)
  BY <1>2
<1> HIDE DEF m, n
<1>6. ASSUME NEW i \in 1..m
      PROVE  s[i] \in Range(s \o r)
  BY <1>1, <1>2, <1>3 DEF m, n
<1>7. ASSUME NEW i \in 1..n
      PROVE  r[i] \in Range(s \o r)
  <2>1. (s \o r)[i + m] = r[i]
    BY <1>1, <1>4 DEF m, n
  <2> QED
    BY <1>2, <1>4, <2>1 DEF m, n
<1>8. ASSUME NEW i \in 1..(m + n)
      PROVE  (s \o r)[i] \in Range(s) \cup Range(r)
  BY <1>1, <1>2, <1>5 DEF m, n
<1> QED
  BY <1>2, <1>6, <1>7, <1>8 DEF m, n

\* A function on 1..n is a sequence, also when n is negative.
LEMMA FunctionIsSeq ==
  ASSUME NEW S, NEW n \in Int, NEW f \in [1..n -> S]
  PROVE  f \in Seq(S)
<1>1. CASE n \in Nat
  BY <1>1, SeqDef
<1>2. CASE n \notin Nat
  <2>1. 1..n = 1..0
    BY <1>2
  <2> QED
    BY <2>1, SeqDef
<1> QED
  BY <1>1, <1>2

\* SetToSeq numbers the elements of a finite set, each once.
LEMMA SetToSeqProperties ==
  ASSUME NEW S, IsFiniteSet(S)
  PROVE  /\ SetToSeq(S) \in Seq(S) /\ Len(SetToSeq(S)) = Cardinality(S)
         /\ IsInjective(SetToSeq(S)) /\ Cardinality(S) \in Nat
         /\ Range(SetToSeq(S)) = S
<1> DEFINE n == Cardinality(S)
<1>1. n \in Nat /\ ExistsBijection(1..n, S)
  BY FS_CardinalityType
<1>2. \E f \in [1..n -> S] : IsInjective(f)
  BY <1>1 DEF ExistsBijection, Bijection, Injection
<1>3. SetToSeq(S) \in [1..n -> S] /\ IsInjective(SetToSeq(S))
  BY <1>2 DEF SetToSeq
<1>4. SetToSeq(S) \in Seq(S) /\ Len(SetToSeq(S)) = n
  <2>1. \A m \in Nat : \A s : s \in [1..m -> S] => s \in Seq(S) /\ Len(s) = m
    <3> TAKE m \in Nat
    <3> TAKE s
    <3> HAVE s \in [1..m -> S]
    <3>1. s \in Seq(S)
      BY SeqDef
    <3> QED
      BY <3>1, LenProperties
  <2> QED
    BY <1>1, <1>3, <2>1, Zenon
<1>5. Range(SetToSeq(S)) = S
  <2>1. IsFiniteSet(1..n) /\ Cardinality(1..n) = n
    BY <1>1, FS_Interval
  <2>2. \A f \in Injection(1..n, S) :
          Cardinality(1..n) = Cardinality(S) => f \in Surjection(1..n, S)
    BY FS_Injection
  <2>3. SetToSeq(S) \in Surjection(1..n, S)
    BY <1>3, <2>1, <2>2 DEF Injection
  <2>4. \A e \in S : \E i \in 1..n : SetToSeq(S)[i] = e
    BY <2>3 DEF Surjection
  <2>5. Range(SetToSeq(S)) \subseteq S /\ DOMAIN SetToSeq(S) = 1..n
    BY <1>3, <1>4, RangeBySequence
  <2> QED
    BY <2>4, <2>5 DEF Range
<1> QED
  BY <1>1, <1>3, <1>4, <1>5

\* Sequences put one behind the other make a sequence over the same set.
LEMMA FlattenSeqSteps ==
  ASSUME NEW S, NEW s \in Seq(Seq(S))
  PROVE  \E g \in [1..Len(s) -> Seq(S)] :
           /\ \A i \in 1..Len(s) : g[i] = IF i = 1 THEN s[i] ELSE g[i - 1] \o s[i]
           /\ FlattenSeq(s) = IF Len(s) = 0 THEN <<>> ELSE g[Len(s)]
<1> DEFINE n == Len(s)
           step(g, i) == IF i = 1 THEN s[i] ELSE g[i - 1] \o s[i]
           flatten == CHOOSE f : f = [i \in 1..n |-> step(f, i)]
           Solves(f, m) == f = [i \in 1..m |-> step(f, i)]
           Open == {m \in Nat : m <= n /\ ~ \E f : Solves(f, m)}
<1>1. n \in Nat /\ DOMAIN s = 1..n /\ \A i \in 1..n : s[i] \in Seq(S)
  BY LenProperties, ElementOfSeq
<1>2. Open = {}
  <2> SUFFICES ASSUME Open # {} PROVE FALSE
    OBVIOUS
  <2>1. PICK m \in Open : \A k \in Open : m <= k
    <3>1. Open \in SUBSET Nat
      OBVIOUS
    <3> HIDE DEF Open
    <3> QED
      BY <3>1, LeastNumber
  <2>2. m \in Nat /\ m <= n /\ ~ \E f : Solves(f, m)
    BY <2>1
  <2>3. m # 0
    <3>1. Solves([i \in 1..0 |-> <<>>], 0)
      OBVIOUS
    <3> QED
      BY <2>2, <3>1
  <2>4. m - 1 \in Nat /\ m - 1 <= n /\ ~ (m <= m - 1)
    <3> HIDE DEF Open, n
    <3> QED
      BY <1>1, <2>2, <2>3
  <2>5. m - 1 \notin Open
    <3> HIDE DEF Open
    <3> QED
      BY <2>1, <2>4
  <2>6. PICK f : Solves(f, m - 1)
    <3> HIDE DEF Solves
    <3> QED
      BY <2>4, <2>5
  <2> DEFINE g == [i \in 1..m |-> IF i < m THEN f[i] ELSE step(f, m)]
  <2>7. \A i \in 1..m : g[i] = step(g, i)
    <3> TAKE i \in 1..m
    <3>1. i = 1 \/ (i - 1 \in 1..m /\ i - 1 < m)
      BY <2>2
    <3>2. i # 1 => g[i - 1] = f[i - 1]
      BY <3>1
    <3>3. step(g, i) = step(f, i)
      <4> HIDE DEF g
      <4> QED
        BY <3>2
    <3>4. i < m => f[i] = step(f, i)
      <4>1. i < m => i \in 1..(m - 1)
        BY <2>2
      <4> HIDE DEF step
      <4> QED
        BY <2>6, <4>1
    <3>5. i = m \/ i < m
      BY <2>2
    <3> HIDE DEF step
    <3> QED
      BY <3>3, <3>4, <3>5
  <2>8. Solves(g, m)
    <3>1. g = [i \in 1..m |-> g[i]]
      OBVIOUS
    <3> HIDE DEF g, step
    <3> QED
      BY <2>7, <3>1
  <2> HIDE DEF Solves
  <2> QED
    BY <2>2, <2>8
<1>3. PICK f : Solves(f, n)
  <2> HIDE DEF Solves
  <2> QED
    BY <1>1, <1>2
<1>4. flatten = [i \in 1..n |-> step(flatten, i)]
  BY <1>3
<1> DEFINE Odd == {i \in 1..n : flatten[i] \notin Seq(S)}
<1>5. Odd = {}
  <2> SUFFICES ASSUME Odd # {} PROVE FALSE
    OBVIOUS
  <2>1. PICK m \in Odd : \A k \in Odd : m <= k
    <3>1. Odd \in SUBSET Nat
      BY <1>1
    <3> HIDE DEF Odd
    <3> QED
      BY <3>1, LeastNumber
  <2>2. flatten[m] = step(flatten, m)
    <3> HIDE DEF flatten, step
    <3> QED
      BY <1>4
  <2> HIDE DEF flatten
  <2>3. CASE m = 1
    BY <1>1, <2>1, <2>2, <2>3
  <2>4. CASE m # 1
    <3>1. m - 1 \in 1..n /\ ~ (m <= m - 1)
      BY <1>1, <2>1, <2>4
    <3>2. flatten[m - 1] \in Seq(S)
      BY <2>1, <3>1
    <3>3. flatten[m - 1] \o s[m] \in Seq(S)
      BY <1>1, <3>2, ConcatProperties
    <3> QED
      BY <2>1, <2>2, <2>4, <3>3
  <2> QED
    BY <2>3, <2>4
<1>6. n = 0 => FlattenSeq(s) = <<>>
  BY EmptySeq DEF FlattenSeq
<1>7. n # 0 => FlattenSeq(s) = flatten[n]
  BY DEF FlattenSeq
<1>8. flatten \in [1..n -> Seq(S)] /\ \A i \in 1..n : flatten[i] = step(flatten, i)
  <2>1. \A i \in 1..n : flatten[i] \in Seq(S)
    <3> HIDE DEF flatten
    <3> QED
      BY <1>5
  <2> HIDE DEF flatten, step
  <2> QED
    BY <1>4, <2>1
<1> HIDE DEF flatten
<1> QED
  BY <1>1, <1>6, <1>7, <1>8

LEMMA FlattenSeqType ==
  ASSUME NEW S, NEW s \in Seq(Seq(S))
  PROVE  FlattenSeq(s) \in Seq(S)
<1> DEFINE n == Len(s)
<1>1. PICK g \in [1..n -> Seq(S)] : FlattenSeq(s) = IF n = 0 THEN <<>> ELSE g[n]
  BY FlattenSeqSteps
<1>2. n \in Nat
  BY LenProperties
<1> HIDE DEF n
<1> QED
  BY <1>1, <1>2, EmptySeq

\* The flattening of one sequence more.
LEMMA FlattenSeqAdds ==
  ASSUME NEW S, NEW n \in Nat, NEW s \in [1..(n + 1) -> Seq(S)]
  PROVE  /\ FlattenSeq(s) = FlattenSeq([i \in 1..n |-> s[i]]) \o s[n + 1]
         /\ FlattenSeq([i \in 1..0 |-> s[i]]) = <<>>
<1> DEFINE r == [i \in 1..n |-> s[i]]
           z == [i \in 1..0 |-> s[i]]
<1>1. /\ s \in Seq(Seq(S)) /\ r \in Seq(Seq(S)) /\ z \in Seq(Seq(S))
      /\ Len(s) = n + 1 /\ Len(r) = n /\ Len(z) = 0
  <2>1. s \in [1..(n + 1) -> Seq(S)] /\ r \in [1..n -> Seq(S)] /\ z \in [1..0 -> Seq(S)]
    BY ElementOfSeq
  <2> HIDE DEF r, z
  <2>2. s \in Seq(Seq(S)) /\ r \in Seq(Seq(S)) /\ z \in Seq(Seq(S))
    BY <2>1, FunctionIsSeq
  <2> QED
    BY <2>1, <2>2, LenProperties
<1>2. PICK g \in [1..(n + 1) -> Seq(S)] :
        /\ \A i \in 1..(n + 1) : g[i] = IF i = 1 THEN s[i] ELSE g[i - 1] \o s[i]
        /\ FlattenSeq(s) = IF n + 1 = 0 THEN <<>> ELSE g[n + 1]
  <2>1. PICK g \in [1..Len(s) -> Seq(S)] :
          /\ \A i \in 1..Len(s) : g[i] = IF i = 1 THEN s[i] ELSE g[i - 1] \o s[i]
          /\ FlattenSeq(s) = IF Len(s) = 0 THEN <<>> ELSE g[Len(s)]
    BY <1>1, FlattenSeqSteps
  <2> QED
    BY <1>1, <2>1
<1>3. PICK h \in [1..n -> Seq(S)] :
        /\ \A i \in 1..n : h[i] = IF i = 1 THEN r[i] ELSE h[i - 1] \o r[i]
        /\ FlattenSeq(r) = IF n = 0 THEN <<>> ELSE h[n]
  <2> HIDE DEF r
  <2>1. PICK h \in [1..Len(r) -> Seq(S)] :
          /\ \A i \in 1..Len(r) : h[i] = IF i = 1 THEN r[i] ELSE h[i - 1] \o r[i]
          /\ FlattenSeq(r) = IF Len(r) = 0 THEN <<>> ELSE h[Len(r)]
    BY <1>1, FlattenSeqSteps
  <2> QED
    BY <1>1, <2>1
<1>4. FlattenSeq(z) = <<>>
  <2>1. PICK k : FlattenSeq(z) = IF Len(z) = 0 THEN <<>> ELSE k
    <3> HIDE DEF z
    <3> QED
      BY <1>1, FlattenSeqSteps
  <2> HIDE DEF z
  <2> QED
    BY <1>1, <2>1
<1> DEFINE Odd == {i \in 1..n : g[i] # h[i]}
<1>5. Odd = {}
  <2> SUFFICES ASSUME Odd # {} PROVE FALSE
    OBVIOUS
  <2>1. PICK m \in Odd : \A k \in Odd : m <= k
    <3>1. Odd \in SUBSET Nat
      OBVIOUS
    <3> HIDE DEF Odd
    <3> QED
      BY <3>1, LeastNumber
  <2>2. m \in 1..n /\ g[m] # h[m] /\ m \in 1..(n + 1) /\ r[m] = s[m]
    BY <2>1
  <2>3. m # 1 => m - 1 \in 1..n /\ ~(m <= m - 1)
    BY <2>2
  <2>4. m # 1 => g[m - 1] = h[m - 1]
    BY <2>1, <2>3
  <2> HIDE DEF r
  <2> QED
    BY <1>2, <1>3, <2>2, <2>4
<1>6. n + 1 \in 1..(n + 1) /\ n + 1 # 0 /\ (n # 0 => n \in 1..n /\ n + 1 # 1)
  OBVIOUS
<1>7. CASE n = 0
  <2>1. FlattenSeq(s) = s[1] /\ FlattenSeq(r) = <<>> /\ n + 1 = 1
    BY <1>2, <1>3, <1>6, <1>7
  <2>2. <<>> \o s[1] = s[1]
    <3>1. s[1] \in Seq(S)
      BY <1>7
    <3> QED
      BY <3>1, ConcatEmptySeq
  <2> QED
    BY <1>4, <2>1, <2>2
<1>8. CASE n # 0
  <2>1. g[n + 1] = g[n] \o s[n + 1]
    <3>1. PICK k \in 1..(n + 1) : k = n + 1 /\ k # 1 /\ k - 1 = n
      BY <1>6, <1>8
    <3>2. g[k] = g[k - 1] \o s[k]
      BY <1>2, <3>1
    <3> QED
      BY <3>1, <3>2
  <2>2. g[n] = h[n]
    BY <1>5, <1>6, <1>8
  <2>3. FlattenSeq(s) = g[n + 1] /\ FlattenSeq(r) = h[n]
    <3> HIDE DEF r
    <3> QED
      BY <1>2, <1>3, <1>6, <1>8
  <2> QED
    BY <1>4, <2>1, <2>2, <2>3
<1> QED
  BY <1>7, <1>8

\* Two injective sequences that share nothing are injective one after the other.
LEMMA ConcatInjective ==
  ASSUME NEW S, NEW s \in Seq(S), NEW r \in Seq(S), IsInjective(s), IsInjective(r),
         Range(s) \cap Range(r) = {}
  PROVE  IsInjective(s \o r)
<1>1. /\ s \o r \in Seq(S) /\ Len(s \o r) = Len(s) + Len(r)
      /\ \A i \in 1..(Len(s) + Len(r)) :
           (s \o r)[i] = IF i <= Len(s) THEN s[i] ELSE r[i - Len(s)]
      /\ Len(s) \in Nat /\ Len(r) \in Nat
  BY ConcatProperties, LenProperties
<1>2. /\ \A i, j \in 1..Len(s) : s[i] = s[j] => i = j
      /\ \A i, j \in 1..Len(r) : r[i] = r[j] => i = j
      /\ \A i \in 1..Len(s) : s[i] \in Range(s)
      /\ \A i \in 1..Len(r) : r[i] \in Range(r)
  BY RangeBySequence
<1>3. ASSUME NEW i \in 1..(Len(s) + Len(r)), NEW j \in 1..(Len(s) + Len(r)),
             (s \o r)[i] = (s \o r)[j]
      PROVE  i = j
  <2>1. CASE i <= Len(s) /\ j <= Len(s)
    BY <1>1, <1>2, <1>3, <2>1
  <2>2. CASE i <= Len(s) /\ ~(j <= Len(s))
    <3>1. i \in 1..Len(s) /\ j - Len(s) \in 1..Len(r)
      BY <1>1, <2>2
    <3>2. s[i] = r[j - Len(s)]
      BY <1>1, <1>3, <2>2
    <3> QED
      BY <1>2, <3>1, <3>2
  <2>3. CASE ~(i <= Len(s)) /\ j <= Len(s)
    <3>1. j \in 1..Len(s) /\ i - Len(s) \in 1..Len(r)
      BY <1>1, <2>3
    <3>2. s[j] = r[i - Len(s)]
      BY <1>1, <1>3, <2>3
    <3> QED
      BY <1>2, <3>1, <3>2
  <2>4. CASE ~(i <= Len(s)) /\ ~(j <= Len(s))
    <3>1. j - Len(s) \in 1..Len(r) /\ i - Len(s) \in 1..Len(r)
      BY <1>1, <2>4
    <3>2. r[i - Len(s)] = r[j - Len(s)]
      BY <1>1, <1>3, <2>4
    <3>3. i - Len(s) = j - Len(s)
      BY <1>2, <3>1, <3>2
    <3> QED
      BY <1>1, <3>3
  <2> QED
    BY <2>1, <2>2, <2>3, <2>4
<1> QED
  BY <1>1, <1>3, RangeBySequence

\* FlattenSeq holds what its parts hold, each thing once if they do and share
\* nothing.
LEMMA FlattenSeqHolds ==
  ASSUME NEW S, NEW s \in Seq(Seq(S))
  PROVE  /\ FlattenSeq(s) \in Seq(S)
         /\ \A e : e \in Range(FlattenSeq(s)) <=> \E i \in 1..Len(s) : e \in Range(s[i])
         /\ (\A i \in 1..Len(s) : IsInjective(s[i]))
              /\ (\A i, j \in 1..Len(s) : i # j => Range(s[i]) \cap Range(s[j]) = {})
              => IsInjective(FlattenSeq(s))
<1> DEFINE n == Len(s)
<1>1. PICK g \in [1..n -> Seq(S)] :
        /\ \A i \in 1..n : g[i] = IF i = 1 THEN s[i] ELSE g[i - 1] \o s[i]
        /\ FlattenSeq(s) = IF n = 0 THEN <<>> ELSE g[n]
  BY FlattenSeqSteps
<1>2. n \in Nat /\ \A i \in 1..n : s[i] \in Seq(S) /\ g[i] \in Seq(S)
  BY LenProperties, ElementOfSeq
<1> DEFINE Holds(i) == \A e : e \in Range(g[i]) <=> \E h \in 1..i : e \in Range(s[h])
           Spread == /\ \A i \in 1..n : IsInjective(s[i])
                     /\ \A i, j \in 1..n : i # j => Range(s[i]) \cap Range(s[j]) = {}
           Bad == {i \in 1..n : ~(Holds(i) /\ (Spread => IsInjective(g[i])))}
<1> HIDE DEF n
<1>3. ASSUME NEW i \in 1..n, i # 1, i - 1 \notin Bad
      PROVE  i \notin Bad
  <2>1. i - 1 \in 1..n /\ g[i] = g[i - 1] \o s[i]
    <3>1. g[i] = g[i - 1] \o s[i]
      BY <1>1, <1>3
    <3>2. i - 1 \in 1..n
      BY <1>2, <1>3
    <3> QED
      BY <3>1, <3>2
  <2>2. Holds(i - 1) /\ (Spread => IsInjective(g[i - 1]))
    BY <1>3, <2>1
  <2>3. Range(g[i]) = Range(g[i - 1]) \cup Range(s[i])
    BY <1>2, <2>1, ConcatRange
  <2>4. Holds(i)
    <3>1. \A h \in 1..i : h \in 1..(i - 1) \/ h = i
      OBVIOUS
    <3>2. i \in 1..i /\ \A h \in 1..(i - 1) : h \in 1..i
      OBVIOUS
    <3> QED
      BY <2>2, <2>3, <3>1, <3>2
  <2>5. ASSUME Spread PROVE IsInjective(g[i])
    <3>1. Range(g[i - 1]) \cap Range(s[i]) = {}
      <4> SUFFICES ASSUME NEW e \in Range(g[i - 1]), e \in Range(s[i]) PROVE FALSE
        OBVIOUS
      <4>1. PICK h \in 1..(i - 1) : e \in Range(s[h])
        BY <2>2
      <4>2. h \in 1..n /\ h # i
        BY <1>2
      <4> QED
        BY <2>5, <4>1, <4>2
    <3>2. IsInjective(g[i - 1]) /\ IsInjective(s[i])
      BY <2>2, <2>5
    <3>3. g[i - 1] \in Seq(S) /\ s[i] \in Seq(S)
      BY <1>2, <2>1
    <3>4. IsInjective(g[i - 1] \o s[i])
      BY <3>1, <3>2, <3>3, ConcatInjective
    <3> QED
      BY <2>1, <3>4
  <2> QED
    BY <2>4, <2>5
<1>4. 1 \notin Bad
  <2> SUFFICES ASSUME 1 \in 1..n PROVE Holds(1) /\ (Spread => IsInjective(g[1]))
    OBVIOUS
  <2>1. g[1] = s[1] /\ 1 \in 1..1 /\ \A h \in 1..1 : h = 1
    <3>1. g[1] = s[1]
      BY <1>1
    <3> QED
      BY <3>1
  <2> QED
    BY <2>1
<1>5. Bad = {}
  <2> SUFFICES ASSUME Bad # {} PROVE FALSE
    OBVIOUS
  <2>1. Bad \in SUBSET Nat
    OBVIOUS
  <2>2. PICK m \in Bad : \A k \in Bad : m <= k
    BY <2>1, LeastNumber
  <2>3. m \in 1..n /\ m # 1
    BY <1>4, <2>2
  <2>4. m - 1 \notin Bad
    <3>1. m \in Nat /\ ~(m <= m - 1)
      BY <2>3
    <3> HIDE DEF Bad
    <3> QED
      BY <2>2, <3>1
  <2> HIDE DEF Bad
  <2> QED
    BY <1>3, <2>2, <2>3, <2>4
<1>6. CASE n = 0
  <2>1. FlattenSeq(s) = <<>> /\ 1..n = {}
    BY <1>1, <1>6
  <2>2. /\ <<>> \in Seq(S) /\ Range(<<>>) = {} /\ IsInjective(<<>>)
    BY EmptySeq, RangeBySequence DEF Range, IsInjective
  <2> QED
    BY <2>1, <2>2 DEF n
<1>7. CASE n # 0
  <2>1. n \in 1..n /\ FlattenSeq(s) = g[n]
    BY <1>1, <1>2, <1>7
  <2>2. Holds(n) /\ (Spread => IsInjective(g[n]))
    BY <1>5, <2>1
  <2> QED
    BY <1>2, <2>1, <2>2 DEF n
<1> QED
  BY <1>6, <1>7

\* t stands in s behind place b.
LiesBehind(t, s, b) ==
  b + Len(t) <= Len(s) /\ \A k \in 1..Len(t) : t[k] = s[b + k]

\* A part of a sequence is the part before and what stands behind it.
LEMMA SubSeqAdds ==
  ASSUME NEW S, NEW s \in Seq(S), NEW t \in Seq(S), NEW p \in Nat, NEW b \in Nat,
         p <= b, LiesBehind(t, s, b)
  PROVE  SubSeq(s, p + 1, b + Len(t)) = SubSeq(s, p + 1, b) \o t
<1> DEFINE n == Len(t)
<1>0. n \in Nat /\ b + n <= Len(s) /\ \A k \in 1..n : t[k] = s[b + k]
  BY LenProperties DEF LiesBehind
<1> HIDE DEF n
<1>1. Len(s) \in Nat
  BY LenProperties
<1>2. SubSeq(s, p + 1, b) \o SubSeq(s, b + 1, b + n) = SubSeq(s, p + 1, b + n)
  <2>1. /\ p + 1 \in 1..(Len(s) + 1) /\ b \in ((p + 1) - 1)..Len(s)
        /\ b + n \in b..Len(s)
    BY <1>0, <1>1
  <2> QED
    BY <2>1, ConcatAdjacentSubSeq
<1> DEFINE u == SubSeq(s, b + 1, b + n)
<1>3. u = t
  <2>1. b + 1 \in Int /\ b + n \in Int /\ \A i \in (b + 1)..(b + n) : s[i] \in S
    <3>1. \A i \in (b + 1)..(b + n) : i \in 1..Len(s)
      BY <1>0, <1>1
    <3> QED
      BY <1>0, <3>1, ElementOfSeq
  <2>2. /\ u \in Seq(S) /\ Len(u) = IF b + 1 <= b + n THEN ((b + n) - (b + 1)) + 1 ELSE 0
        /\ \A i \in 1..(((b + n) - (b + 1)) + 1) : u[i] = s[((b + 1) + i) - 1]
    BY <1>0, <2>1, SubSeqProperties
  <2> HIDE DEF u
  <2>3. Len(u) = n
    BY <1>0, <2>2
  <2>4. ((b + n) - (b + 1)) + 1 = n /\ \A k \in 1..n : ((b + 1) + k) - 1 = b + k
    BY <1>0
  <2>5. \A k \in 1..n : u[k] = t[k]
    BY <1>0, <2>2, <2>4
  <2> QED
    BY <2>2, <2>3, <2>5, SeqEqual DEF n
<1> QED
  BY <1>2, <1>3 DEF n

-----------------------------------------------------------------------------
(* The greatest element of a finite set of numbers                         *)

LEMMA MaxProperties ==
  ASSUME NEW S \in SUBSET Int, IsFiniteSet(S), S # {}
  PROVE  Max(S) \in S /\ \A n \in S : n <= Max(S)
<1> DEFINE above(n) == {m \in S : n < m}
           F == {above(n) : n \in S}
<1>1. F \subseteq FiniteSubsetsOf(S) /\ F # {}
  <2>1. \A n \in S : above(n) \in SUBSET S
    OBVIOUS
  <2>2. \A n \in S : IsFiniteSet(above(n))
    BY <2>1, FS_Subset
  <2> HIDE DEF above
  <2> QED
    BY <2>1, <2>2 DEF FiniteSubsetsOf
<1>2. PICK A \in F : \A B \in F : <<B, A>> \notin StrictSubsetOrdering(S)
  <2> HIDE DEF F
  <2> QED
    BY <1>1, FS_StrictSubsetOrderingWellFounded, WFMin
<1>3. PICK n \in S : A = above(n)
  BY <1>2
<1>4. ASSUME NEW m \in S, n < m
      PROVE  FALSE
  <2>1. /\ above(m) \in F /\ above(m) \in SUBSET S /\ above(n) \in SUBSET S
        /\ above(m) \subseteq above(n) /\ m \in above(n) /\ m \notin above(m)
    <3>1. m \in Int /\ n \in Int /\ ~(m < m) /\ \A x \in S : m < x => n < x
      BY <1>4
    <3>2. above(m) \in F
      OBVIOUS
    <3> HIDE DEF F
    <3>3. m \in above(n) /\ m \notin above(m) /\ above(m) \subseteq above(n)
      BY <1>4, <3>1
    <3> QED
      BY <3>2, <3>3
  <2> HIDE DEF above, F
  <2>2. <<above(m), above(n)>> \in StrictSubsetOrdering(S)
    BY <2>1 DEF StrictSubsetOrdering
  <2> QED
    BY <2>1, <2>2, <1>2, <1>3
<1>5. \E x \in S : \A y \in S : x >= y
  BY <1>4
<1> QED
  BY <1>5 DEF Max

-----------------------------------------------------------------------------
(* Ranks                                                                   *)

\* What all elements of lower rank are in T implies for an element.
Inherits(S, d, T) ==
  \A v \in S : (\A w \in S : d[w] < d[v] => w \in T) => v \in T

\* Induction on a rank.
LEMMA RankInduction ==
  ASSUME NEW S, NEW d \in [S -> Nat], NEW T, Inherits(S, d, T)
  PROVE  S \subseteq T
<1> USE DEF Inherits
<1> DEFINE Bad == {d[v] : v \in S \ T}
<1>1. Bad \in SUBSET Nat
  OBVIOUS
<1>2. ASSUME Bad # {} PROVE FALSE
  <2>1. PICK m \in Bad : \A k \in Bad : m <= k
    <3> HIDE DEF Bad
    <3> QED
      BY <1>1, <1>2, LeastNumber
  <2>2. PICK v \in S \ T : m = d[v]
    BY <2>1
  <2>3. \A w \in S \ T : d[w] >= d[v]
    BY <2>1, <2>2
  <2>4. \A w \in S : d[w] < d[v] => w \in T
    BY <2>3
  <2> QED
    BY <2>2, <2>4
<1> QED
  BY <1>2

\* Recursion on a rank: a definition of f[v] from what f is below v has a
\* solution.
Ranked(S, X, d, n, G) ==
  /\ X # {} /\ d \in [S -> Nat] /\ n \in Nat /\ \A v \in S : d[v] < n
  /\ G \in [S \X [S -> X] -> X]
  /\ \A v \in S : \A f, g \in [S -> X] :
       (\A w \in S : d[w] < d[v] => f[w] = g[w]) => G[<<v, f>>] = G[<<v, g>>]

LEMMA RankRecursion ==
  ASSUME NEW S, NEW X, NEW d, NEW n, NEW G, Ranked(S, X, d, n, G)
  PROVE  \E f \in [S -> X] : \A v \in S : f[v] = G[<<v, f>>]
<1> USE DEF Ranked
<1> DEFINE Solves(f, m) == \A v \in S : d[v] < m => f[v] = G[<<v, f>>]
           Open == {m \in Nat : ~ \E f \in [S -> X] : Solves(f, m)}
<1>1. ASSUME Open # {} PROVE FALSE
  <2>1. PICK m \in Open : \A k \in Open : m <= k
    <3>1. Open \in SUBSET Nat
      OBVIOUS
    <3> HIDE DEF Open
    <3> QED
      BY <1>1, <3>1, LeastNumber
  <2>2. m # 0
    <3>1. PICK x \in X : TRUE
      OBVIOUS
    <3>2. [v \in S |-> x] \in [S -> X] /\ Solves([v \in S |-> x], 0)
      OBVIOUS
    <3> HIDE DEF Solves
    <3> QED
      BY <2>1, <3>2
  <2>3. m - 1 \in Nat /\ m \in Nat /\ ~(m <= m - 1)
    <3>1. m \in Nat
      BY <2>1
    <3> QED
      BY <2>2, <3>1
  <2>4. PICK f \in [S -> X] : Solves(f, m - 1)
    <3> HIDE DEF Solves
    <3> QED
      BY <2>1, <2>3
  <2> DEFINE g == [v \in S |-> G[<<v, f>>]]
  <2>5. g \in [S -> X]
    OBVIOUS
  <2>6. \A v \in S : d[v] < m - 1 => g[v] = f[v]
    BY <2>4
  <2>7. ASSUME NEW v \in S, d[v] < m PROVE g[v] = G[<<v, g>>]
    <3>1. \A w \in S : d[w] < d[v] => d[w] < m - 1
      BY <2>3, <2>7
    <3>2. \A w \in S : d[w] < d[v] => f[w] = g[w]
      BY <2>6, <3>1
    <3>3. g[v] = G[<<v, f>>]
      OBVIOUS
    <3> HIDE DEF g
    <3> QED
      BY <2>5, <3>2, <3>3
  <2> HIDE DEF g
  <2> QED
    BY <2>1, <2>5, <2>7
<1>2. PICK f \in [S -> X] : Solves(f, n)
  <2> HIDE DEF Solves
  <2> QED
    BY <1>1
<1> QED
  BY <1>2

LEMMA ImageIsFinite ==
  ASSUME NEW S, NEW T, NEW f \in [S -> T], IsFiniteSet(S)
  PROVE  IsFiniteSet({f[v] : v \in S})
<1> DEFINE R == {f[v] : v \in S}
<1>1. f \in Surjection(S, R)
  BY DEF Surjection
<1> QED
  BY <1>1, FS_Surjection

\* A rank on a finite set has a least and a greatest value.
LEMMA LeastAndGreatest ==
  ASSUME NEW S, IsFiniteSet(S), S # {}, NEW d \in [S -> Nat]
  PROVE  /\ \E v \in S : \A w \in S : d[v] <= d[w]
         /\ \E v \in S : \A w \in S : d[w] <= d[v]
<1> DEFINE R == {d[v] : v \in S}
<1>1. R \in SUBSET Nat /\ R # {} /\ IsFiniteSet(R) /\ R \in SUBSET Int
  <2>1. IsFiniteSet(R)
    BY ImageIsFinite, Zenon
  <2> QED
    BY <2>1
<1>2. \E m \in R : \A n \in R : m <= n
  <2> HIDE DEF R
  <2> QED
    BY <1>1, LeastNumber
<1>3. \E m \in R : \A n \in R : n <= m
  <2> HIDE DEF R
  <2> QED
    BY <1>1, MaxProperties
<1> QED
  BY <1>2, <1>3
-----------------------------------------------------------------------------
(* Sums                                                                    *)

\* What MapThenSumSet and FoldFunction add up, whatever the order: a number
\* that is the value of any element and the sum of the others.
LEMMA SumsAddUp ==
  ASSUME NEW S, IsFiniteSet(S), NEW f \in [S -> Nat]
  PROVE  \E sum \in [SUBSET S -> Nat] :
           /\ sum[{}] = 0
           /\ \A T \in SUBSET S : \A x \in T : sum[T] = f[x] + sum[T \ {x}]
           /\ \A T \in SUBSET S : MapThenSumSet(LAMBDA x : f[x], T) = sum[T]
           /\ FoldFunction(LAMBDA m, n : m + n, 0, f) = sum[S]
<1> DEFINE one(s) == CHOOSE x \in s : TRUE
           step(g, s) == IF s = {} THEN 0 ELSE f[one(s)] + g[s \ {one(s)}]
           iter(T) == CHOOSE g : g = [s \in SUBSET T |-> step(g, s)]
<1>1. \A T \in SUBSET S : MapThenSumSet(LAMBDA x : f[x], T) = iter(T)[T]
  BY DEF MapThenSumSet, MapThenFoldSet
<1>2. FoldFunction(LAMBDA m, n : m + n, 0, f) = iter(S)[S]
  <2>1. DOMAIN f = S
    OBVIOUS
  <2> QED
    BY <2>1 DEF FoldFunction, FoldFunctionOnSet, MapThenFoldSet
<1>3. IsFiniteSet(SUBSET S) /\ \A T \in SUBSET S : IsFiniteSet(T) /\ Cardinality(T) \in Nat
  BY FS_Subset, FS_CardinalityType, FS_SUBSET
<1>4. \A T \in SUBSET S : \A x \in T :
        T \ {x} \in SUBSET S /\ Cardinality(T \ {x}) = Cardinality(T) - 1
          /\ Cardinality(T \ {x}) < Cardinality(T)
  <2> TAKE T \in SUBSET S
  <2> TAKE x \in T
  <2>1. Cardinality(T \ {x}) = Cardinality(T) - 1
    BY <1>3, FS_RemoveElement
  <2> QED
    BY <1>3, <2>1
<1>5. \A s : s # {} => one(s) \in s
  OBVIOUS
<1> HIDE DEF one
<1>6. ASSUME NEW T \in SUBSET S
      PROVE  /\ iter(T) \in [SUBSET T -> Nat]
             /\ \A s \in SUBSET T : iter(T)[s] = step(iter(T), s)
  <2> DEFINE d == [s \in SUBSET T |-> Cardinality(s)]
             G == [p \in (SUBSET T) \X [SUBSET T -> Nat] |-> step(p[2], p[1])]
  <2>1. Ranked(SUBSET T, Nat, d, Cardinality(T) + 1, G)
    <3>1. d \in [SUBSET T -> Nat] /\ Cardinality(T) + 1 \in Nat
      BY <1>3
    <3>2. \A s \in SUBSET T : d[s] < Cardinality(T) + 1
      <4> TAKE s \in SUBSET T
      <4>1. Cardinality(s) <= Cardinality(T)
        BY <1>3, FS_Subset
      <4> QED
        BY <1>3, <4>1
    <3>3. \A s \in SUBSET T : \A g \in [SUBSET T -> Nat] : step(g, s) \in Nat
      <4> TAKE s \in SUBSET T
      <4> TAKE g \in [SUBSET T -> Nat]
      <4>1. CASE s = {}
        BY <4>1
      <4>2. CASE s # {}
        <5>1. one(s) \in S /\ s \ {one(s)} \in SUBSET T
          BY <1>5, <4>2
        <5>2. f[one(s)] \in Nat /\ g[s \ {one(s)}] \in Nat
          BY <5>1
        <5> QED
          BY <4>2, <5>2
      <4> QED
        BY <4>1, <4>2
    <3>4. G \in [(SUBSET T) \X [SUBSET T -> Nat] -> Nat]
      <4> HIDE DEF step
      <4> QED
        BY <3>3
    <3>5. ASSUME NEW s \in SUBSET T, NEW g \in [SUBSET T -> Nat], NEW h \in [SUBSET T -> Nat],
                 \A r \in SUBSET T : d[r] < d[s] => g[r] = h[r]
          PROVE  G[<<s, g>>] = G[<<s, h>>]
      <4>1. s # {} => g[s \ {one(s)}] = h[s \ {one(s)}]
        <5>1. s # {} => s \ {one(s)} \in SUBSET T /\ d[s \ {one(s)}] < d[s]
          BY <1>4, <1>5
        <5> HIDE DEF d
        <5> QED
          BY <3>5, <5>1
      <4>2. step(g, s) = step(h, s)
        BY <4>1
      <4> HIDE DEF step
      <4> QED
        BY <4>2
    <3> HIDE DEF d, G
    <3> QED
      BY <3>1, <3>2, <3>4, <3>5 DEF Ranked
  <2>2. PICK g \in [SUBSET T -> Nat] : \A s \in SUBSET T : g[s] = G[<<s, g>>]
    <3> HIDE DEF d, G
    <3> QED
      BY <2>1, RankRecursion
  <2>3. g = [s \in SUBSET T |-> step(g, s)]
    <3> HIDE DEF step
    <3> QED
      BY <2>2
  <2>4. iter(T) = [s \in SUBSET T |-> step(iter(T), s)]
    <3> HIDE DEF step
    <3> QED
      BY <2>3
  <2>5. \A s \in SUBSET T : iter(T)[s] = step(iter(T), s)
    <3> HIDE DEF step, iter
    <3> QED
      BY <2>4
  <2>6. \A h : h = [s \in SUBSET T |-> step(h, s)] => h = g
    <3> SUFFICES ASSUME NEW h, h = [s \in SUBSET T |-> step(h, s)] PROVE h = g
      OBVIOUS
    <3> DEFINE Same == {s \in SUBSET T : h[s] = g[s]}
    <3>1. \A s \in SUBSET T : h[s] = step(h, s) /\ g[s] = step(g, s)
      <4> HIDE DEF step
      <4> QED
        BY <2>3
    <3>2. Inherits(SUBSET T, d, Same)
      <4> SUFFICES ASSUME NEW s \in SUBSET T, \A r \in SUBSET T : d[r] < d[s] => r \in Same
                   PROVE  s \in Same
        BY DEF Inherits
      <4>1. s # {} => h[s \ {one(s)}] = g[s \ {one(s)}]
        <5>1. s # {} => s \ {one(s)} \in SUBSET T /\ d[s \ {one(s)}] < d[s]
          BY <1>4, <1>5
        <5> HIDE DEF d
        <5> QED
          BY <5>1
      <4>2. step(h, s) = step(g, s)
        BY <4>1
      <4> HIDE DEF step
      <4> QED
        BY <3>1, <4>2
    <3>3. d \in [SUBSET T -> Nat]
      BY <1>3
    <3>4. SUBSET T \subseteq Same
      <4> HIDE DEF d, Same
      <4> QED
        BY <3>2, <3>3, RankInduction
    <3> HIDE DEF step
    <3> QED
      BY <2>3, <3>4
  <2> HIDE DEF iter, step
  <2> QED
    BY <2>4, <2>5, <2>6
<1> HIDE DEF iter
<1> DEFINE g == iter(S)
<1>7. g \in [SUBSET S -> Nat] /\ \A s \in SUBSET S : g[s] = step(g, s)
  BY <1>6
<1>8. ASSUME NEW T \in SUBSET S PROVE iter(T)[T] = g[T]
  <2> DEFINE h == iter(T)
             d == [s \in SUBSET T |-> Cardinality(s)]
             Same == {s \in SUBSET T : h[s] = g[s]}
  <2>1. h \in [SUBSET T -> Nat] /\ \A s \in SUBSET T : h[s] = step(h, s)
    BY <1>6
  <2>2. Inherits(SUBSET T, d, Same)
    <3> SUFFICES ASSUME NEW s \in SUBSET T, \A r \in SUBSET T : d[r] < d[s] => r \in Same
                 PROVE  s \in Same
      BY DEF Inherits
    <3>1. s # {} => h[s \ {one(s)}] = g[s \ {one(s)}]
      <4>1. s # {} => s \ {one(s)} \in SUBSET T /\ d[s \ {one(s)}] < d[s]
        BY <1>4, <1>5
      <4> HIDE DEF d, g, h
      <4> QED
        BY <4>1
    <3> HIDE DEF g, h
    <3>2. step(h, s) = step(g, s)
      BY <3>1
    <3> HIDE DEF step
    <3> QED
      BY <1>7, <2>1, <3>2
  <2>3. d \in [SUBSET T -> Nat]
    BY <1>3
  <2>4. SUBSET T \subseteq Same
    <3> HIDE DEF d, Same
    <3> QED
      BY <2>2, <2>3, RankInduction
  <2> QED
    BY <2>4
<1> HIDE DEF g
<1> DEFINE Fits == {T \in SUBSET S : \A x \in T : g[T] = f[x] + g[T \ {x}]}
           d == [s \in SUBSET S |-> Cardinality(s)]
<1>9. Inherits(SUBSET S, d, Fits)
  <2> SUFFICES ASSUME NEW T \in SUBSET S, \A r \in SUBSET S : d[r] < d[T] => r \in Fits,
                      NEW x \in T
               PROVE  g[T] = f[x] + g[T \ {x}]
    BY DEF Inherits
  <2> DEFINE y == one(T)
  <2>1. y \in T /\ g[T] = f[y] + g[T \ {y}]
    <3>1. g[T] = step(g, T) /\ y \in T
      BY <1>5, <1>7
    <3> QED
      BY <3>1
  <2> HIDE DEF y
  <2>2. CASE y = x
    BY <2>1, <2>2
  <2>3. CASE y # x
    <3>1. /\ T \ {x} \in SUBSET S /\ T \ {y} \in SUBSET S
          /\ d[T \ {x}] < d[T] /\ d[T \ {y}] < d[T]
      BY <1>4, <2>1
    <3>2. T \ {x} \in Fits /\ T \ {y} \in Fits
      <4> HIDE DEF Fits, d
      <4> QED
        BY <3>1
    <3>3. g[T \ {x}] = f[y] + g[(T \ {x}) \ {y}] /\ g[T \ {y}] = f[x] + g[(T \ {y}) \ {x}]
      BY <2>1, <2>3, <3>2
    <3>4. (T \ {x}) \ {y} = (T \ {y}) \ {x} /\ (T \ {x}) \ {y} \in SUBSET S
      OBVIOUS
    <3>5. f[x] \in Nat /\ f[y] \in Nat /\ g[(T \ {x}) \ {y}] \in Nat
      BY <1>7, <2>1, <3>4
    <3>6. PICK a, b, r \in Nat : a = f[x] /\ b = f[y] /\ r = g[(T \ {x}) \ {y}]
      BY <3>5
    <3>7. g[T] = b + (a + r) /\ g[T \ {x}] = b + r
      BY <2>1, <3>3, <3>4, <3>6
    <3>8. b + (a + r) = a + (b + r)
      OBVIOUS
    <3> QED
      BY <3>6, <3>7, <3>8
  <2> QED
    BY <2>2, <2>3
<1>10. \A T \in SUBSET S : \A x \in T : g[T] = f[x] + g[T \ {x}]
  <2>1. d \in [SUBSET S -> Nat]
    BY <1>3
  <2>2. SUBSET S \subseteq Fits
    <3> HIDE DEF d, Fits
    <3> QED
      BY <1>9, <2>1, RankInduction
  <2> QED
    BY <2>2
<1>11. g[{}] = 0
  <2>1. g[{}] = step(g, {})
    <3> HIDE DEF step
    <3> QED
      BY <1>7
  <2> QED
    BY <2>1
<1>12. iter(S) = g /\ S \in SUBSET S
  BY DEF g
<1> HIDE DEF step, Fits, d
<1> QED
  BY <1>1, <1>2, <1>7, <1>8, <1>10, <1>11, <1>12
=============================================================================

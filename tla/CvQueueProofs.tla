--------------------------- MODULE CvQueueProofs ---------------------------
(***************************************************************************)
(* What the operations on a core's queue do to its entries: enqueue, the   *)
(* removal of a session's requests, and what a pump leaves.                *)
(***************************************************************************)
EXTENDS CvService, FiniteSetTheorems, SequenceTheorems, TLAPS

NoDup(q) == \A i, j \in 1..Len(q) : q[i] = q[j] => i = j

\* `w` holds entries of `q`, in their order: entry i of `w` is entry at[i] of `q`.
Picks(w, q, at) ==
  /\ at \in [1..Len(w) -> 1..Len(q)]
  /\ \A i, j \in 1..Len(w) : i < j => at[i] < at[j]
  /\ \A i \in 1..Len(w) : w[i] = q[at[i]]

\* `w` is `q` with `r` put in behind its first n entries.
Inserts(w, q, r, n) ==
  /\ \A i \in 1..n : w[i] = q[i]
  /\ w[n + 1] = r
  /\ \A i \in (n + 2)..(Len(q) + 1) : w[i] = q[i - 1]

-----------------------------------------------------------------------------
(* Sets of numbers: the least one, initial segments, ranks. *)

\* Every set of naturals that is not empty has a least element.
LEMMA LeastNat ==
  ASSUME NEW T \in SUBSET Nat, T # {}
  PROVE  \E m \in T : \A n \in T : m <= n
<1> DEFINE Below == {0..n : n \in T}
<1>1. Below \subseteq FiniteSubsetsOf(Nat) /\ Below # {}
  <2>1. ASSUME NEW n \in T PROVE 0..n \in FiniteSubsetsOf(Nat)
    <3>1. n \in Int /\ 0 \in Int
      OBVIOUS
    <3>2. IsFiniteSet(0..n)
      BY <3>1, FS_Interval
    <3> QED BY <3>2 DEF FiniteSubsetsOf
  <2> QED BY <2>1
<1>2. PICK B \in Below : \A C \in Below : ~ (<<C, B>> \in StrictSubsetOrdering(Nat))
  <2> HIDE DEF Below
  <2> QED BY <1>1, FS_StrictSubsetOrderingWellFounded, WFMin, Zenon
<1>3. PICK m \in T : B = 0..m
  OBVIOUS
<1>4. ASSUME NEW n \in T PROVE m <= n
  <2>1. ~ (<<0..n, 0..m>> \in StrictSubsetOrdering(Nat))
    BY <1>2, <1>3
  <2>2. ~ (0..n \subseteq 0..m /\ 0..n # 0..m)
    BY <2>1 DEF StrictSubsetOrdering
  <2>3. n \in Nat /\ m \in Nat
    OBVIOUS
  <2>4. ASSUME n < m PROVE FALSE
    <3>1. m \notin 0..n /\ m \in 0..m /\ 0..n \subseteq 0..m
      BY <2>3, <2>4
    <3> QED BY <2>2, <3>1
  <2> QED BY <2>3, <2>4
<1> QED BY <1>4

\* A set of numbers from 1 on that has no gaps is the segment its size names.
LEMMA InitialSegment ==
  ASSUME NEW N \in Nat, NEW A \in SUBSET (1..N),
         \A i \in A : \A j \in 1..i : j \in A
  PROVE  Cardinality(A) \in 0..N /\ A = 1..Cardinality(A)
<1> DEFINE Out == (1..(N + 1)) \ A
<1>1. PICK m \in Out : \A n \in Out : m <= n
  <2>1. Out \in SUBSET Nat /\ N + 1 \in Out
    OBVIOUS
  <2> QED BY <2>1, LeastNat
<1>2. A = 1..(m - 1)
  <2>1. m \in 1..(N + 1) /\ m \notin A
    BY <1>1
  <2>2. ASSUME NEW i \in A PROVE i \in 1..(m - 1)
    <3>1. i \in 1..N /\ ~ (m \in 1..i)
      BY <2>1
    <3> QED BY <2>1, <3>1
  <2>3. ASSUME NEW i \in 1..(m - 1) PROVE i \in A
    <3>1. i \in 1..(N + 1) /\ ~ (m <= i)
      BY <2>1
    <3> QED BY <1>1, <3>1
  <2> QED BY <2>2, <2>3
<1>3. Cardinality(A) = m - 1
  BY <1>1, <1>2, FS_Interval
<1> QED BY <1>1, <1>2, <1>3

\* The elements of a finite set of numbers, by rank: there is exactly one that has
\* n elements of the set up to it, and the ranks follow the order of the numbers.
LEMMA Ranks ==
  ASSUME NEW N \in Nat, NEW A \in SUBSET (1..N)
  PROVE  /\ Cardinality(A) \in Nat
         /\ \A n \in 1..Cardinality(A) :
              \E i \in A : Cardinality({j \in A : j <= i}) = n
         /\ \A i \in A : Cardinality({j \in A : j <= i}) \in 1..Cardinality(A)
         /\ \A i, k \in A : i < k =>
              Cardinality({j \in A : j <= i}) < Cardinality({j \in A : j <= k})
<1> DEFINE upTo(i) == {j \in A : j <= i}
           rank == [i \in A |-> Cardinality(upTo(i))]
<1>1. IsFiniteSet(A) /\ Cardinality(A) \in Nat
  <2>1. IsFiniteSet(1..N)
    BY FS_Interval
  <2> QED BY <2>1, FS_Subset, FS_CardinalityType
<1>2. ASSUME NEW i \in A
      PROVE  /\ IsFiniteSet(upTo(i)) /\ Cardinality(upTo(i)) \in 1..Cardinality(A)
             /\ rank[i] = Cardinality(upTo(i))
  <2>1. IsFiniteSet(upTo(i)) /\ Cardinality(upTo(i)) <= Cardinality(A)
    BY <1>1, FS_Subset
  <2>2. i \in upTo(i)
    OBVIOUS
  <2>3. Cardinality(upTo(i)) # 0 /\ Cardinality(upTo(i)) \in Nat
    <3> HIDE DEF upTo
    <3> QED BY <2>1, <2>2, FS_EmptySet, FS_CardinalityType
  <2> QED BY <1>1, <2>1, <2>3
<1>3. ASSUME NEW i \in A, NEW k \in A, i < k
      PROVE  rank[i] < rank[k]
  <2>1. upTo(i) \subseteq upTo(k) /\ k \in upTo(k) /\ k \notin upTo(i)
    <3>1. A \subseteq Nat /\ i \in Nat /\ k \in Nat
      OBVIOUS
    <3>2. \A j \in A : j <= i => j <= k
      BY <1>3, <3>1
    <3>3. k <= k /\ ~ (k <= i)
      BY <1>3, <3>1
    <3> QED BY <3>2, <3>3
  <2>2. IsFiniteSet(upTo(i)) /\ IsFiniteSet(upTo(k))
    BY <1>2
  <2>3. Cardinality(upTo(i)) <= Cardinality(upTo(k))
        /\ Cardinality(upTo(i)) # Cardinality(upTo(k))
    <3> HIDE DEF upTo
    <3> QED BY <2>1, <2>2, FS_Subset
  <2>4. Cardinality(upTo(i)) \in Nat /\ Cardinality(upTo(k)) \in Nat
    <3> HIDE DEF upTo
    <3> QED BY <2>2, FS_CardinalityType
  <2> QED BY <1>2, <2>3, <2>4
<1>4. \A n \in 1..Cardinality(A) : \E i \in A : rank[i] = n
  <2> DEFINE T == 1..Cardinality(A)
  <2>1. rank \in [A -> T]
    BY <1>2
  <2>2. \A i, k \in A : rank[i] = rank[k] => i = k
    <3>1. ASSUME NEW i \in A, NEW k \in A, rank[i] = rank[k] PROVE i = k
      <4>1. ~ (i < k) /\ ~ (k < i)
        <5>1. rank[i] \in T /\ rank[k] \in T
          BY <2>1
        <5> QED BY <1>1, <1>3, <3>1, <5>1
      <4>2. i \in Nat /\ k \in Nat
        OBVIOUS
      <4> QED BY <4>1, <4>2
    <3> QED BY <3>1
  <2>3. IsFiniteSet(T) /\ Cardinality(T) = Cardinality(A)
    BY <1>1, FS_Interval
  <2> HIDE DEF rank, T
  <2>4. rank \in Injection(A, T)
    BY <2>1, <2>2 DEF Injection, IsInjective
  <2>5. rank \in Surjection(A, T)
    BY <2>3, <2>4, FS_Injection
  <2> QED BY <2>5 DEF Surjection, T
<1> QED BY <1>1, <1>2, <1>3, <1>4

-----------------------------------------------------------------------------
(* The operations on a queue *)

\* enqueue puts the request behind the entries of its priority or a higher one that
\* come first, and leaves the others as they were (request_queue.cpp:20-23).
LEMMA EnqueuedAt ==
  ASSUME NEW S, NEW q \in Seq(S), NEW r \in S
  PROVE  /\ Enqueued(q, r) \in Seq(S)
         /\ Len(Enqueued(q, r)) = Len(q) + 1
         /\ \E n \in 0..Len(q) :
              /\ Inserts(Enqueued(q, r), q, r, n)
              /\ \A i \in 1..n : Ahead(q[i], r)
              /\ n < Len(q) => ~ Ahead(q[n + 1], r)
<1> DEFINE ahead == {i \in 1..Len(q) : \A j \in 1..i : Ahead(q[j], r)}
           n == Cardinality(ahead)
           front == SubSeq(q, 1, n)
           back == SubSeq(q, n + 1, Len(q))
<1>1. Len(q) \in Nat /\ \A i \in 1..Len(q) : q[i] \in S
  BY LenProperties, ElementOfSeq
<1>2. n \in 0..Len(q) /\ ahead = 1..n
  <2>1. ahead \in SUBSET (1..Len(q)) /\ \A i \in ahead : \A j \in 1..i : j \in ahead
    BY <1>1
  <2> HIDE DEF ahead
  <2> QED BY <1>1, <2>1, InitialSegment
<1>3. \A i \in 1..n : Ahead(q[i], r)
  <2>1. ASSUME NEW i \in 1..n PROVE Ahead(q[i], r)
    <3>1. i \in ahead /\ i \in 1..i
      BY <1>2
    <3> QED BY <3>1
  <2> QED BY <2>1
<1>4. n < Len(q) => ~ Ahead(q[n + 1], r)
  <2> SUFFICES ASSUME n < Len(q), Ahead(q[n + 1], r) PROVE FALSE
    OBVIOUS
  <2>1. n + 1 \in ahead
    <3> HIDE DEF n
    <3>1. n + 1 \in 1..Len(q) /\ \A j \in 1..(n + 1) : j \in 1..n \/ j = n + 1
      BY <1>1, <1>2
    <3> QED BY <1>3, <3>1
  <2>2. n + 1 \notin 1..n
    <3> HIDE DEF n
    <3> QED BY <1>2
  <2> QED BY <1>2, <2>1, <2>2
<1>5. Enqueued(q, r) = front \o <<r>> \o back
  BY DEF Enqueued
<1> HIDE DEF ahead, n
<1>6. /\ front \in Seq(S) /\ Len(front) = n
      /\ \A i \in 1..n : front[i] = q[i]
  <2>1. \A i \in 1..n : q[i] \in S
    BY <1>1, <1>2
  <2> QED BY <1>1, <1>2, <2>1, SubSeqProperties
<1>7. /\ back \in Seq(S) /\ Len(back) = Len(q) - n
      /\ \A i \in 1..(Len(q) - n) : back[i] = q[n + i]
  <2>1. \A i \in (n + 1)..Len(q) : q[i] \in S
    BY <1>1, <1>2
  <2> QED BY <1>1, <1>2, <2>1, SubSeqProperties
<1> HIDE DEF front, back
<1> DEFINE fr == front \o <<r>>
<1>8. <<r>> \in Seq(S) /\ Len(<<r>>) = 1 /\ <<r>>[1] = r
  OBVIOUS
<1>9. /\ fr \in Seq(S) /\ Len(fr) = n + 1 /\ fr[n + 1] = r
      /\ \A i \in 1..n : fr[i] = q[i]
  <2>1. /\ fr \in Seq(S) /\ Len(fr) = n + 1
        /\ \A i \in 1..(n + 1) : fr[i] = IF i <= n THEN front[i] ELSE <<r>>[i - n]
    BY <1>6, <1>8, ConcatProperties
  <2> HIDE DEF fr
  <2> QED BY <1>2, <1>6, <1>8, <2>1
<1> HIDE DEF fr
<1> DEFINE w == fr \o back
<1>10. /\ w \in Seq(S) /\ Len(w) = Len(q) + 1
       /\ \A i \in 1..(Len(q) + 1) :
            w[i] = IF i <= n + 1 THEN fr[i] ELSE back[i - (n + 1)]
  <2>1. n + 1 + (Len(q) - n) = Len(q) + 1
    BY <1>1, <1>2
  <2> QED BY <1>7, <1>9, <2>1, ConcatProperties
<1>11. Enqueued(q, r) = w
  BY <1>5 DEF fr
<1> HIDE DEF w
<1>12. \A i \in 1..n : w[i] = q[i]
  BY <1>1, <1>2, <1>9, <1>10
<1>13. w[n + 1] = r
  BY <1>1, <1>2, <1>9, <1>10
<1>14. ASSUME NEW i \in (n + 2)..(Len(q) + 1) PROVE w[i] = q[i - 1]
  <2>1. /\ i - (n + 1) \in 1..(Len(q) - n) /\ i \in 1..(Len(q) + 1) /\ ~ (i <= n + 1)
        /\ n + (i - (n + 1)) = i - 1
    BY <1>1, <1>2
  <2>2. w[i] = back[i - (n + 1)]
    BY <1>10, <2>1
  <2> QED BY <1>7, <2>1, <2>2
<1>15. Inserts(w, q, r, n)
  BY <1>12, <1>13, <1>14 DEF Inserts
<1> QED BY <1>2, <1>3, <1>4, <1>10, <1>11, <1>15

LEMMA EnqueuedElements ==
  ASSUME NEW S, NEW q \in Seq(S), NEW r \in S
  PROVE  /\ Elements(Enqueued(q, r)) = Elements(q) \cup {r}
         /\ NoDup(q) /\ r \notin Elements(q) => NoDup(Enqueued(q, r))
<1> DEFINE w == Enqueued(q, r)
<1>1. Len(q) \in Nat
  BY LenProperties
<1>a. Len(w) = Len(q) + 1 /\ \E n \in 0..Len(q) : Inserts(w, q, r, n)
  BY EnqueuedAt
<1>2. PICK n \in 0..Len(q) :
        /\ \A i \in 1..n : w[i] = q[i]
        /\ w[n + 1] = r
        /\ \A i \in (n + 2)..(Len(q) + 1) : w[i] = q[i - 1]
  BY <1>a DEF Inserts
<1> HIDE DEF w
<1> DEFINE from(i) == IF i <= n THEN i ELSE i - 1
<1>3. ASSUME NEW i \in 1..Len(w), i # n + 1
      PROVE  from(i) \in 1..Len(q) /\ w[i] = q[from(i)]
  BY <1>a, <1>1, <1>2, <1>3
<1>4. ASSUME NEW i \in 1..Len(q)
      PROVE  \E j \in 1..Len(w) : w[j] = q[i]
  <2>1. CASE i <= n
    BY <1>a, <1>1, <1>2, <2>1
  <2>2. CASE i > n
    <3>1. i + 1 \in (n + 2)..(Len(q) + 1) /\ (i + 1) - 1 = i /\ i + 1 \in 1..Len(w)
      BY <1>a, <1>1, <2>2
    <3>2. w[i + 1] = q[(i + 1) - 1]
      BY <1>2, <3>1
    <3> QED BY <3>1, <3>2
  <2> QED BY <2>1, <2>2
<1>5. n + 1 \in 1..Len(w)
  BY <1>a, <1>1
<1>6. Elements(w) = Elements(q) \cup {r}
  <2>1. ASSUME NEW x \in Elements(w) PROVE x \in Elements(q) \cup {r}
    <3>1. PICK i \in 1..Len(w) : x = w[i]
      BY DEF Elements
    <3> QED BY <1>2, <1>3, <3>1 DEF Elements
  <2>2. ASSUME NEW x \in Elements(q) PROVE x \in Elements(w)
    <3>1. PICK i \in 1..Len(q) : x = q[i]
      BY DEF Elements
    <3> QED BY <1>4, <3>1 DEF Elements
  <2>3. r \in Elements(w)
    BY <1>2, <1>5 DEF Elements
  <2> QED BY <2>1, <2>2, <2>3
<1>7. ASSUME NoDup(q), r \notin Elements(q), NEW i \in 1..Len(w), NEW j \in 1..Len(w),
             w[i] = w[j]
      PROVE  i = j
  <2>1. ASSUME NEW m \in 1..Len(w), m # n + 1 PROVE w[m] # r
    BY <1>3, <1>7, <2>1 DEF Elements
  <2>2. CASE i = n + 1 \/ j = n + 1
    BY <1>2, <1>7, <2>1, <2>2
  <2>3. CASE i # n + 1 /\ j # n + 1
    <3>1. from(i) = from(j)
      <4>1. /\ from(i) \in 1..Len(q) /\ w[i] = q[from(i)]
            /\ from(j) \in 1..Len(q) /\ w[j] = q[from(j)]
        BY <1>3, <2>3
      <4> HIDE DEF from
      <4> QED BY <1>7, <4>1 DEF NoDup
    <3> QED BY <1>1, <2>3, <3>1
  <2> QED BY <2>2, <2>3
<1> QED BY <1>6, <1>7 DEF w, NoDup

\* The removal of a session's requests leaves the others in their order
\* (request_queue.cpp:58-72).
LEMMA WithoutPicks ==
  ASSUME NEW S, NEW q \in Seq(S), NEW removed
  PROVE  /\ Without(q, removed) \in Seq(S)
         /\ Elements(Without(q, removed)) = Elements(q) \ removed
         /\ \E at : Picks(Without(q, removed), q, at)
<1> DEFINE left == {i \in 1..Len(q) : q[i] \notin removed}
           rank(i) == Cardinality({j \in left : j <= i})
           at == [n \in 1..Cardinality(left) |-> CHOOSE i \in left : rank(i) = n]
           w == Without(q, removed)
<1>1. Len(q) \in Nat /\ \A i \in 1..Len(q) : q[i] \in S
  BY LenProperties, ElementOfSeq
<1>2. /\ Cardinality(left) \in Nat
      /\ \A n \in 1..Cardinality(left) : \E i \in left : rank(i) = n
      /\ \A i \in left : rank(i) \in 1..Cardinality(left)
      /\ \A i, k \in left : i < k => rank(i) < rank(k)
  <2>1. left \in SUBSET (1..Len(q))
    OBVIOUS
  <2> HIDE DEF left
  <2> QED BY <1>1, <2>1, Ranks
<1>3. w = [n \in 1..Cardinality(left) |-> q[at[n]]]
  BY DEF Without
<1>4. \A i \in left : i \in 1..Len(q) /\ q[i] \notin removed
  OBVIOUS
<1>5. \A i \in 1..Len(q) : q[i] \notin removed => i \in left
  OBVIOUS
<1> HIDE DEF left, rank, w
<1>6. ASSUME NEW n \in 1..Cardinality(left)
      PROVE  at[n] \in left /\ rank(at[n]) = n
  BY <1>2
<1>7. at = [n \in 1..Cardinality(left) |-> at[n]]
  OBVIOUS
<1> HIDE DEF at
<1>8. w \in Seq(S) /\ Len(w) = Cardinality(left)
      /\ \A n \in 1..Cardinality(left) : w[n] = q[at[n]]
  <2>1. \A n \in 1..Cardinality(left) : q[at[n]] \in S
    BY <1>1, <1>4, <1>6
  <2> QED BY <1>2, <1>3, <2>1
<1>9. Picks(w, q, at)
  <2>1. at \in [1..Len(w) -> 1..Len(q)]
    BY <1>4, <1>6, <1>7, <1>8
  <2>2. ASSUME NEW i \in 1..Len(w), NEW j \in 1..Len(w), i < j
        PROVE  at[i] < at[j]
    <3>1. /\ at[i] \in left /\ rank(at[i]) = i /\ at[j] \in left /\ rank(at[j]) = j
          /\ at[i] \in Nat /\ at[j] \in Nat /\ i \in Nat /\ j \in Nat
      BY <1>4, <1>6, <1>8
    <3>2. ~ (at[j] < at[i]) /\ at[j] # at[i]
      BY <1>2, <2>2, <3>1
    <3> QED BY <3>1, <3>2
  <2> QED BY <1>8, <2>1, <2>2 DEF Picks
<1>10. Elements(w) = Elements(q) \ removed
  <2>1. ASSUME NEW x \in Elements(w) PROVE x \in Elements(q) \ removed
    BY <1>4, <1>6, <1>8 DEF Elements
  <2>2. ASSUME NEW i \in 1..Len(q), q[i] \notin removed PROVE q[i] \in Elements(w)
    <3>1. i \in left /\ rank(i) \in 1..Cardinality(left)
      BY <1>2, <1>5, <2>2
    <3>2. at[rank(i)] \in left /\ rank(at[rank(i)]) = rank(i)
      BY <1>6, <3>1
    <3>3. at[rank(i)] = i
      <4>1. i \in Nat /\ at[rank(i)] \in Nat /\ rank(i) \in Nat
        <5>1. rank(i) \in Nat
          BY <1>2, <3>1
        <5>2. i \in 1..Len(q) /\ at[rank(i)] \in 1..Len(q)
          BY <1>4, <3>1, <3>2
        <5> QED BY <5>1, <5>2
      <4>2. ~ (i < at[rank(i)]) /\ ~ (at[rank(i)] < i)
        BY <1>2, <3>1, <3>2, <4>1
      <4> QED BY <4>1, <4>2
    <3> QED BY <1>8, <3>1, <3>3 DEF Elements
  <2> QED BY <2>1, <2>2 DEF Elements
<1> QED BY <1>8, <1>9, <1>10 DEF w

\* What is left of a queue behind its first n entries.
LEMMA RestOf ==
  ASSUME NEW S, NEW q \in Seq(S), NEW n \in 0..Len(q)
  PROVE  /\ SubSeq(q, n + 1, Len(q)) \in Seq(S)
         /\ Len(SubSeq(q, n + 1, Len(q))) = Len(q) - n
         /\ \A i \in 1..(Len(q) - n) : SubSeq(q, n + 1, Len(q))[i] = q[i + n]
         /\ Elements(SubSeq(q, n + 1, Len(q))) = {q[i] : i \in (n + 1)..Len(q)}
         /\ NoDup(q) => NoDup(SubSeq(q, n + 1, Len(q)))
<1> DEFINE w == SubSeq(q, n + 1, Len(q))
<1>1. Len(q) \in Nat /\ \A i \in 1..Len(q) : q[i] \in S
  BY LenProperties, ElementOfSeq
<1>2. /\ w \in Seq(S) /\ Len(w) = Len(q) - n
      /\ \A i \in 1..(Len(q) - n) : w[i] = q[i + n]
  <2>1. \A i \in (n + 1)..Len(q) : q[i] \in S
    BY <1>1
  <2>2. /\ w \in Seq(S)
        /\ Len(w) = IF n + 1 <= Len(q) THEN Len(q) - (n + 1) + 1 ELSE 0
        /\ \A i \in 1..(Len(q) - (n + 1) + 1) : w[i] = q[n + 1 + i - 1]
    BY <1>1, <2>1, SubSeqProperties
  <2> HIDE DEF w
  <2> QED BY <1>1, <2>2
<1> HIDE DEF w
<1>3. Elements(w) = {q[i] : i \in (n + 1)..Len(q)}
  <2>1. ASSUME NEW i \in 1..Len(w) PROVE w[i] \in {q[j] : j \in (n + 1)..Len(q)}
    BY <1>1, <1>2
  <2>2. ASSUME NEW j \in (n + 1)..Len(q) PROVE q[j] \in Elements(w)
    <3>1. j - n \in 1..(Len(q) - n) /\ (j - n) + n = j
      BY <1>1
    <3>2. w[j - n] = q[j]
      BY <1>2, <3>1
    <3> QED BY <1>2, <3>1, <3>2 DEF Elements
  <2> QED BY <2>1, <2>2 DEF Elements
<1>4. ASSUME NoDup(q), NEW i \in 1..Len(w), NEW j \in 1..Len(w), w[i] = w[j]
      PROVE  i = j
  <2>1. i + n \in 1..Len(q) /\ j + n \in 1..Len(q) /\ q[i + n] = q[j + n]
    BY <1>1, <1>2, <1>4
  <2>2. i + n = j + n
    BY <1>4, <2>1 DEF NoDup
  <2> QED BY <2>2
<1> QED BY <1>2, <1>3, <1>4 DEF w, NoDup

\* The pump comes to a next request only when it has not failed the whole queue.
LEMMA FateType ==
  ASSUME NEW S, NEW q \in Seq(S), NEW k, NEW f \in Fates(k, q)
  PROVE  /\ f.failed \in 0..Len(q) /\ f.then \in {"start", "BUSY", "stop"}
         /\ f.then # "stop" => f.failed + 1 \in 1..Len(q) /\ ~ Busy(k)
         /\ f.then # "stop" => NextOf(q, f) = q[f.failed + 1] /\ NextOf(q, f) \in S
<1>1. /\ f.failed \in 0..MaxRequests /\ f.then \in {"start", "BUSY", "stop"}
      /\ f.failed <= Len(q)
      /\ f.then = "stop" <=> Busy(k) \/ f.failed = Len(q)
  BY DEF Fates
<1>2. Len(q) \in Nat /\ MaxRequests \in Nat
  BY LenProperties, CvAssumption
<1>3. f.failed \in 0..Len(q)
  BY <1>1, <1>2
<1>4. f.then # "stop" => f.failed + 1 \in 1..Len(q) /\ ~ Busy(k)
  BY <1>1, <1>2
<1> QED BY <1>1, <1>3, <1>4, ElementOfSeq DEF NextOf

\* The queue of a core after the pump has come to it (dispatcher.cpp:38-54).
LEMMA QueueAfterIs ==
  ASSUME NEW S, NEW q \in Seq(S), NEW k, NEW f \in Fates(k, q)
  PROVE  /\ f.then = "stop" => QueueAfter(q, f) = SubSeq(q, f.failed + 1, Len(q))
         /\ f.then = "start" =>
              QueueAfter(q, f) = SubSeq(q, (f.failed + 1) + 1, Len(q))
         /\ f.then = "BUSY" =>
              QueueAfter(q, f) = Enqueued(SubSeq(q, (f.failed + 1) + 1, Len(q)), NextOf(q, f))
<1> DEFINE n == f.failed
           rest == SubSeq(q, n + 1, Len(q))
<1>1. f.then # "stop" => n + 1 \in 1..Len(q) /\ NextOf(q, f) = q[n + 1]
  BY FateType
<1>2. ASSUME f.then # "stop"
      PROVE  Head(rest) = q[n + 1] /\ Tail(rest) = SubSeq(q, (n + 1) + 1, Len(q))
  <2>1. n + 1 \in 1..Len(q) /\ Len(q) \in (n + 1)..Len(q)
    BY <1>1, <1>2, LenProperties
  <2> HIDE DEF n
  <2> QED BY <2>1, HeadTailOfSubSeq
<1>3. QueueAfter(q, f) = CASE f.then = "stop" -> rest
                           [] f.then = "start" -> Tail(rest)
                           [] f.then = "BUSY" -> Enqueued(Tail(rest), Head(rest))
  BY DEF QueueAfter
<1> HIDE DEF n, rest
<1>4. CASE f.then = "stop"
  BY <1>3, <1>4 DEF n, rest
<1>5. CASE f.then = "start"
  BY <1>2, <1>3, <1>5 DEF n
<1>6. CASE f.then = "BUSY"
  BY <1>1, <1>2, <1>3, <1>6 DEF n
<1> QED BY <1>4, <1>5, <1>6

\* Under a pump an entry of the queue fails, starts or stays, and stays once.
LEMMA QueueAfterElements ==
  ASSUME NEW S, NEW q \in Seq(S), NoDup(q), NEW k, NEW f \in Fates(k, q)
  PROVE  LET failed == {q[i] : i \in 1..f.failed}
             started == IF f.then = "start" THEN {NextOf(q, f)} ELSE {}
         IN /\ QueueAfter(q, f) \in Seq(S)
            /\ NoDup(QueueAfter(q, f))
            /\ Elements(QueueAfter(q, f)) = Elements(q) \ (failed \cup started)
            /\ failed \subseteq Elements(q) /\ started \subseteq Elements(q)
            /\ failed \cap started = {}
<1> DEFINE n == f.failed
           failed == {q[i] : i \in 1..n}
           started == IF f.then = "start" THEN {NextOf(q, f)} ELSE {}
           rest(m) == SubSeq(q, m + 1, Len(q))
<1>1. Len(q) \in Nat /\ n \in 0..Len(q) /\ f.then \in {"start", "BUSY", "stop"}
  BY LenProperties, FateType
<1>2. f.then # "stop" => /\ n + 1 \in 1..Len(q)
                         /\ NextOf(q, f) = q[n + 1] /\ NextOf(q, f) \in S
  BY FateType
<1>3. ASSUME NEW m \in 0..Len(q)
      PROVE  /\ rest(m) \in Seq(S) /\ NoDup(rest(m))
             /\ Elements(rest(m)) = {q[i] : i \in (m + 1)..Len(q)}
  BY RestOf
<1>4. ASSUME NEW m \in 0..Len(q)
      PROVE  {q[i] : i \in (m + 1)..Len(q)} = Elements(q) \ {q[i] : i \in 1..m}
  <2>1. \A i \in 1..Len(q) : i \in 1..m \/ i \in (m + 1)..Len(q)
    BY <1>1
  <2>2. \A i \in (m + 1)..Len(q), j \in 1..m : i \in 1..Len(q) /\ j \in 1..Len(q) /\ i # j
    BY <1>1
  <2> QED BY <2>1, <2>2 DEF Elements, NoDup
<1>5. /\ f.then = "stop" => QueueAfter(q, f) = rest(n)
      /\ f.then = "start" => QueueAfter(q, f) = rest(n + 1)
      /\ f.then = "BUSY" => QueueAfter(q, f) = Enqueued(rest(n + 1), NextOf(q, f))
  BY QueueAfterIs
<1>6. failed \subseteq Elements(q)
  BY <1>1 DEF Elements
<1>7. f.then # "stop" => /\ NextOf(q, f) \in Elements(q) /\ NextOf(q, f) \notin failed
                         /\ {q[i] : i \in 1..(n + 1)} = failed \cup {NextOf(q, f)}
  <2> SUFFICES ASSUME f.then # "stop"
               PROVE  /\ NextOf(q, f) \in Elements(q) /\ NextOf(q, f) \notin failed
                      /\ {q[i] : i \in 1..(n + 1)} = failed \cup {NextOf(q, f)}
    OBVIOUS
  <2>1. \A i \in 1..n : i \in 1..Len(q) /\ i # n + 1 /\ i \in 1..(n + 1)
    BY <1>1
  <2>2. \A i \in 1..(n + 1) : i \in 1..n \/ i = n + 1
    BY <1>1
  <2>3. n + 1 \in 1..(n + 1)
    BY <1>1
  <2> HIDE DEF n
  <2> QED BY <1>2, <2>1, <2>2, <2>3 DEF Elements, NoDup
<1> HIDE DEF n, failed, rest
<1>8. CASE f.then = "stop"
  <2>1. Elements(rest(n)) = Elements(q) \ failed
    BY <1>1, <1>3, <1>4 DEF failed
  <2> QED BY <1>1, <1>3, <1>5, <1>6, <1>8, <2>1 DEF n, failed
<1>9. CASE f.then # "stop"
  <2>1. n + 1 \in 0..Len(q)
    BY <1>1, <1>2, <1>9
  <2>2. /\ rest(n + 1) \in Seq(S) /\ NoDup(rest(n + 1))
        /\ Elements(rest(n + 1)) = Elements(q) \ (failed \cup {NextOf(q, f)})
    BY <1>3, <1>4, <1>7, <1>9, <2>1
  <2>3. CASE f.then = "start"
    BY <1>5, <1>6, <1>7, <2>2, <2>3 DEF n, failed
  <2>4. CASE f.then = "BUSY"
    <3>1. /\ QueueAfter(q, f) \in Seq(S) /\ NoDup(QueueAfter(q, f))
          /\ Elements(QueueAfter(q, f)) = Elements(rest(n + 1)) \cup {NextOf(q, f)}
      <4>1. NextOf(q, f) \in S /\ NextOf(q, f) \notin Elements(rest(n + 1))
        BY <1>2, <2>2, <2>4
      <4>2. QueueAfter(q, f) = Enqueued(rest(n + 1), NextOf(q, f))
        BY <1>5, <2>4
      <4>3. Enqueued(rest(n + 1), NextOf(q, f)) \in Seq(S)
        BY <2>2, <4>1, EnqueuedAt
      <4> QED BY <2>2, <4>1, <4>2, <4>3, EnqueuedElements
    <3>2. Elements(QueueAfter(q, f)) = Elements(q) \ failed
      BY <1>7, <2>2, <2>4, <3>1
    <3> QED BY <1>6, <2>4, <3>1, <3>2 DEF n, failed
  <2> QED BY <1>1, <1>9, <2>3, <2>4
<1> QED BY <1>8, <1>9

LEMMA PicksKeepNoDup ==
  ASSUME NEW S, NEW w \in Seq(S), NEW q \in Seq(S), NEW at, Picks(w, q, at), NoDup(q)
  PROVE  NoDup(w)
<1> SUFFICES ASSUME NEW i \in 1..Len(w), NEW j \in 1..Len(w), w[i] = w[j]
             PROVE  i = j
  BY DEF NoDup
<1>1. at[i] \in 1..Len(q) /\ at[j] \in 1..Len(q) /\ q[at[i]] = q[at[j]]
  BY DEF Picks
<1>2. at[i] = at[j] /\ at[i] \in Nat
  BY <1>1 DEF NoDup
<1>3. ~ (i < j) /\ ~ (j < i)
  BY <1>2 DEF Picks
<1>4. i \in Nat /\ j \in Nat
  BY LenProperties
<1> QED BY <1>3, <1>4

-----------------------------------------------------------------------------
(* The order of a queue: by priority, and inside a priority by arrival, but *)
(* for what the block pushed back.                                          *)

\* `a` may stand before `b`, when the requests arrived as in `arr` and were last
\* pushed back when `pb` of them had.
Before(arr, pb, a, b) ==
  \/ req[a].priority > req[b].priority
  \/ /\ req[a].priority = req[b].priority
     /\ \A m, n \in 1..Len(arr) : arr[m] = a /\ arr[n] = b => m < n \/ m <= pb[b]

InOrder(q, arr, pb) == \A i, j \in 1..Len(q) : i < j => Before(arr, pb, q[i], q[j])

LEMMA InsertKeepsOrder ==
  ASSUME NEW q, NEW w, NEW r, Len(q) \in Nat, Len(w) = Len(q) + 1,
         NEW n \in 0..Len(q), Inserts(w, q, r, n),
         NEW arr, NEW pb, InOrder(q, arr, pb),
         \A i \in 1..n : Before(arr, pb, q[i], r),
         \A i \in (n + 1)..Len(q) : Before(arr, pb, r, q[i])
  PROVE  InOrder(w, arr, pb)
<1> SUFFICES ASSUME NEW i \in 1..Len(w), NEW j \in 1..Len(w), i < j
             PROVE  Before(arr, pb, w[i], w[j])
  BY DEF InOrder
<1>1. /\ \A x \in 1..n : w[x] = q[x]
      /\ w[n + 1] = r
      /\ \A x \in (n + 2)..(Len(q) + 1) : w[x] = q[x - 1]
  BY DEF Inserts
<1>2. CASE j <= n
  <2>1. i \in 1..n /\ j \in 1..n /\ i \in 1..Len(q) /\ j \in 1..Len(q)
    BY <1>2
  <2> QED BY <1>1, <2>1 DEF InOrder
<1>3. CASE j = n + 1
  <2>1. i \in 1..n
    BY <1>3
  <2> QED BY <1>1, <1>3, <2>1
<1>4. CASE j > n + 1
  <2>1. j \in (n + 2)..(Len(q) + 1) /\ j - 1 \in (n + 1)..Len(q) /\ j - 1 \in 1..Len(q)
    BY <1>4
  <2>2. CASE i <= n
    <3>1. i \in 1..n /\ i \in 1..Len(q) /\ i < j - 1
      BY <1>4, <2>2
    <3> QED BY <1>1, <2>1, <3>1 DEF InOrder
  <2>3. CASE i = n + 1
    BY <1>1, <2>1, <2>3
  <2>4. CASE i > n + 1
    <3>1. i \in (n + 2)..(Len(q) + 1) /\ i - 1 \in 1..Len(q) /\ i - 1 < j - 1
      BY <2>4
    <3> QED BY <1>1, <2>1, <3>1 DEF InOrder
  <2> QED BY <2>2, <2>3, <2>4
<1> QED BY <1>2, <1>3, <1>4

\* enqueue keeps the order, if the new entry may stand behind those of its priority.
LEMMA EnqueueKeepsOrder ==
  ASSUME NEW S, NEW q \in Seq(S), NEW r \in S, \A x \in S : req[x].priority \in Nat,
         NEW arr, NEW pb, InOrder(q, arr, pb),
         \A x \in Elements(q) : req[x].priority = req[r].priority => Before(arr, pb, x, r)
  PROVE  InOrder(Enqueued(q, r), arr, pb)
<1>1. Len(q) \in Nat /\ Len(Enqueued(q, r)) = Len(q) + 1
      /\ \A i \in 1..Len(q) : q[i] \in S /\ q[i] \in Elements(q)
  BY LenProperties, ElementOfSeq, EnqueuedAt DEF Elements
<1>2. PICK n \in 0..Len(q) :
        /\ Inserts(Enqueued(q, r), q, r, n)
        /\ \A i \in 1..n : Ahead(q[i], r)
        /\ n < Len(q) => ~ Ahead(q[n + 1], r)
  BY EnqueuedAt
<1>3. ASSUME NEW i \in 1..n PROVE Before(arr, pb, q[i], r)
  <2>1. i \in 1..Len(q) /\ Ahead(q[i], r)
    BY <1>1, <1>2
  <2>2. q[i] \in S /\ q[i] \in Elements(q) /\ req[q[i]].priority >= req[r].priority
    BY <1>1, <2>1 DEF Ahead
  <2>3. req[q[i]].priority \in Nat /\ req[r].priority \in Nat
    BY <2>2
  <2> QED BY <2>2, <2>3 DEF Before
<1>4. ASSUME NEW i \in (n + 1)..Len(q) PROVE Before(arr, pb, r, q[i])
  <2>1. n < Len(q) /\ n + 1 \in 1..Len(q) /\ i \in 1..Len(q)
    BY <1>1
  <2>2. ~ (req[q[n + 1]].priority >= req[r].priority)
    BY <1>2, <2>1 DEF Ahead
  <2>3. /\ req[q[n + 1]].priority \in Nat /\ req[r].priority \in Nat
        /\ req[q[i]].priority \in Nat
    BY <1>1, <2>1
  <2>4. req[q[n + 1]].priority >= req[q[i]].priority
    <3>1. CASE i = n + 1
      BY <2>3, <3>1
    <3>2. CASE i # n + 1
      <4>1. n + 1 < i
        BY <1>1, <3>2
      <4>2. Before(arr, pb, q[n + 1], q[i])
        BY <2>1, <4>1 DEF InOrder
      <4> QED BY <2>3, <4>2 DEF Before
    <3> QED BY <3>1, <3>2
  <2> QED BY <2>2, <2>3, <2>4 DEF Before
<1> QED BY <1>1, <1>2, <1>3, <1>4, InsertKeepsOrder

LEMMA PicksKeepOrder ==
  ASSUME NEW w, NEW q, NEW at, Picks(w, q, at), NEW arr, NEW pb, InOrder(q, arr, pb)
  PROVE  InOrder(w, arr, pb)
BY DEF Picks, InOrder

LEMMA RestKeepsOrder ==
  ASSUME NEW S, NEW q \in Seq(S), NEW n \in 0..Len(q), NEW arr, NEW pb, InOrder(q, arr, pb)
  PROVE  InOrder(SubSeq(q, n + 1, Len(q)), arr, pb)
<1> DEFINE rest == SubSeq(q, n + 1, Len(q))
<1>1. Len(q) \in Nat /\ Len(rest) = Len(q) - n /\ \A i \in 1..(Len(q) - n) : rest[i] = q[i + n]
  BY RestOf, LenProperties
<1> HIDE DEF rest
<1>2. ASSUME NEW i \in 1..Len(rest), NEW j \in 1..Len(rest), i < j
      PROVE  Before(arr, pb, rest[i], rest[j])
  <2>1. /\ i + n \in 1..Len(q) /\ j + n \in 1..Len(q) /\ i + n < j + n
        /\ i \in 1..(Len(q) - n) /\ j \in 1..(Len(q) - n)
    BY <1>1, <1>2
  <2> QED BY <1>1, <2>1 DEF InOrder
<1> QED BY <1>2 DEF InOrder, rest

\* A pump keeps the order: what it puts back goes behind everything of its priority
\* that had arrived by then, and this is noted.
LEMMA QueueAfterKeepsOrder ==
  ASSUME NEW S, NEW q \in Seq(S), \A x \in S : req[x].priority \in Nat,
         NEW k, NEW f \in Fates(k, q), NEW arr, Len(arr) \in Nat, NEW pb, NEW pbNow,
         InOrder(q, arr, pb),
         \A x \in S : pbNow[x] = pb[x] \/ pbNow[x] = Len(arr),
         f.then = "BUSY" => pbNow[NextOf(q, f)] = Len(arr)
  PROVE  InOrder(QueueAfter(q, f), arr, pbNow)
<1>1. /\ Len(q) \in Nat /\ f.failed \in 0..Len(q) /\ f.then \in {"start", "BUSY", "stop"}
      /\ f.then # "stop" => f.failed + 1 \in 0..Len(q) /\ NextOf(q, f) \in S
  BY LenProperties, FateType
<1>2. ASSUME NEW a, NEW b \in S, Before(arr, pb, a, b)
      PROVE  Before(arr, pbNow, a, b)
  <2>1. pbNow[b] = pb[b] \/ \A m \in 1..Len(arr) : m <= pbNow[b]
    OBVIOUS
  <2> QED BY <1>2, <2>1 DEF Before
<1>3. InOrder(q, arr, pbNow)
  <2>1. \A j \in 1..Len(q) : q[j] \in S
    BY ElementOfSeq
  <2> QED BY <1>2, <2>1 DEF InOrder
<1>4. /\ f.then = "stop" => QueueAfter(q, f) = SubSeq(q, f.failed + 1, Len(q))
      /\ f.then = "start" => QueueAfter(q, f) = SubSeq(q, (f.failed + 1) + 1, Len(q))
      /\ f.then = "BUSY" =>
           QueueAfter(q, f) = Enqueued(SubSeq(q, (f.failed + 1) + 1, Len(q)), NextOf(q, f))
  BY QueueAfterIs
<1>5. ASSUME NEW n \in 0..Len(q)
      PROVE  SubSeq(q, n + 1, Len(q)) \in Seq(S) /\ InOrder(SubSeq(q, n + 1, Len(q)), arr, pbNow)
  BY <1>3, RestOf, RestKeepsOrder
<1>6. CASE f.then = "stop"
  BY <1>1, <1>4, <1>5, <1>6
<1>7. CASE f.then # "stop"
  <2> DEFINE rest == SubSeq(q, (f.failed + 1) + 1, Len(q))
             r == NextOf(q, f)
  <2>1. rest \in Seq(S) /\ InOrder(rest, arr, pbNow) /\ r \in S
    BY <1>1, <1>5, <1>7
  <2>2. CASE f.then = "start"
    BY <1>4, <2>1, <2>2
  <2>3. CASE f.then = "BUSY"
    <3>1. \A x \in Elements(rest) :
            req[x].priority = req[r].priority => Before(arr, pbNow, x, r)
      BY <2>3 DEF Before
    <3>2. QueueAfter(q, f) = Enqueued(rest, r)
      BY <1>4, <2>3
    <3> HIDE DEF rest, r
    <3> QED BY <2>1, <3>1, <3>2, EnqueueKeepsOrder
  <2> QED BY <1>1, <1>7, <2>2, <2>3
<1> QED BY <1>6, <1>7
=============================================================================

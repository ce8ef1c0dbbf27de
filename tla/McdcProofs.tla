----------------------------- MODULE McdcProofs -----------------------------
(* The report of the MC/DC loop is true for every program: all decisions, all
instantiations, every evaluation that fits EvaluationAssumption; and so is what
experiments/mcdc.py says of its test sets, for paths that fit PathAssumption.   *)
EXTENDS Mcdc, FiniteSetTheorems, WellFoundedInduction, TLAPS

\* What the report counts as covered is shown by the executions it was made from.
IInv == TypeOK /\ CoveredIsShown

-----------------------------------------------------------------------------
\* What the assumption says of one evaluation

LEMMA VectorFields ==
  ASSUME NEW d \in Decision, NEW e \in AllVectors(d)
  PROVE  /\ e.values \in [Conditions(d) -> Value \cup {Unasked}]
         /\ e.outcome \in Value
  BY EvaluationAssumption DEF EvaluationAssumption, AllVectors

\* The inputs of a test that takes the values of an evaluation produce it again.
LEMMA TestReproduces ==
  ASSUME NEW d \in Decision, NEW e \in AllVectors(d), NEW b \in Inputs(d), Takes(b, e)
  PROVE  Evaluation[d][b] = e
<1>1. PICK a \in Inputs(d) : e = Evaluation[d][a]
  BY DEF AllVectors
<1> QED
  BY <1>1, EvaluationAssumption DEF EvaluationAssumption

\* The rule of pairs_for is the rule of experiments/README.md.
LEMMA SameRule ==
  ASSUME NEW d \in Decision, NEW E, E \subseteq AllVectors(d), NEW i \in Conditions(d)
  PROVE  Shown(i, E) <=> Paired(i, E)
<1> DEFINE Diff(u, v) == {j \in DOMAIN u.values : /\ u.values[j] # Unasked /\ v.values[j] # Unasked
                                                  /\ u.values[j] # v.values[j]}
<1>1. ASSUME NEW u \in E, NEW v \in E
      PROVE  PairsFor(i, u, v) <=> u.outcome # v.outcome /\ Diff(u, v) = {i}
  <2>1. DOMAIN u.values = Conditions(d)
    BY VectorFields
  <2>2. PairsFor(i, u, v) => u.outcome # v.outcome /\ Diff(u, v) = {i}
    BY <2>1 DEF PairsFor
  <2>3. ASSUME u.outcome # v.outcome, Diff(u, v) = {i} PROVE PairsFor(i, u, v)
    <3>1. i \in Diff(u, v) /\ \A j \in DOMAIN u.values \ {i} : j \notin Diff(u, v)
      BY <2>3
    <3> QED
      BY <3>1, <2>3 DEF PairsFor
  <2> QED
    BY <2>2, <2>3
<1> QED
  BY <1>1 DEF Shown, Paired

\* Merging the instantiations: what one of them shows, all of them together show.
LEMMA CoveredByAll ==
  ASSUME NEW d \in Decision, NEW profile
  PROVE  Covered(d, profile) = {i \in Conditions(d) : Paired(i, Executed(profile))}
<1>1. ASSUME NEW k \in Instance[d] PROVE OfInstance(profile, k) \subseteq Executed(profile)
  BY DEF OfInstance, Executed
<1>2. ASSUME NEW k \in Instance[d], NEW i, Paired(i, OfInstance(profile, k))
      PROVE  Paired(i, Executed(profile))
  BY <1>1, <1>2 DEF Paired
<1> QED
  BY <1>2 DEF Covered, LlvmCovered

-----------------------------------------------------------------------------
LEMMA InitIInv == Init => IInv
  BY DEF Init, IInv, TypeOK, CoveredIsShown, NoReport

LEMMA TestStep ==
  ASSUME TypeOK, NEW a \in Inputs(decision), RunTest(a)
  PROVE  runs' \subseteq Instance[decision] \X AllVectors(decision)
<1>1. Evaluation[decision][a] \in AllVectors(decision)
  BY DEF AllVectors
<1>2. PICK k \in Instance[decision] : runs' = runs \cup {<<k, Evaluation[decision][a]>>}
  BY DEF RunTest
<1> QED
  BY <1>1, <1>2 DEF TypeOK

LEMMA StepIInv == IInv /\ [Next]_vars => IInv'
<1> SUFFICES ASSUME IInv, [Next]_vars PROVE IInv'
  OBVIOUS
<1> USE DEF IInv
<1>0. decision \in Decision /\ Feasible[decision] \subseteq Inputs(decision)
  BY EvaluationAssumption DEF TypeOK, EvaluationAssumption
<1>1. ASSUME NEW a \in Inputs(decision), RunTest(a), UNCHANGED <<decision, report>> PROVE IInv'
  <2>1. TypeOK'
    BY <1>1, TestStep DEF TypeOK, AllVectors, Inputs, Conditions
  <2>2. CoveredIsShown'
    BY <1>1 DEF CoveredIsShown, Conditions, Shown
  <2> QED
    BY <2>1, <2>2
<1>2. CASE OtherTest
  BY <1>0, <1>1, <1>2 DEF OtherTest
<1>3. CASE FollowReport
  BY <1>0, <1>1, <1>3 DEF FollowReport, Follow
<1>4. CASE Import
  <2>1. Executed(runs) \subseteq AllVectors(decision)
    BY DEF Executed, TypeOK
  <2>2. Covered(decision, runs) = {i \in Conditions(decision) : Shown(i, Executed(runs))}
    BY <1>0, <2>1, CoveredByAll, SameRule
  <2>3. TypeOK'
    BY <1>4, <2>1, <2>2 DEF Import, TypeOK, AllVectors, Inputs, Conditions
  <2>4. CoveredIsShown'
    BY <1>4, <2>2 DEF Import, CoveredIsShown, Conditions, Shown
  <2> QED
    BY <2>3, <2>4
<1>5. CASE UNCHANGED vars
  BY <1>5 DEF vars, TypeOK, CoveredIsShown, AllVectors, Inputs, Conditions, Shown
<1> QED
  BY <1>2, <1>3, <1>4, <1>5 DEF Next

LEMMA Invariant == Spec => []IInv
<1> QED
  BY InitIInv, StepIInv, PTL DEF Spec

-----------------------------------------------------------------------------
\* A suggested vector is one the decision can produce.
LEMMA SuggestionsTyped ==
  ASSUME TypeOK, NEW i \in Missing, NEW s \in Suggestions(i)
  PROVE  /\ s \subseteq AllVectors(decision)
         /\ Paired(i, report.executed \cup s)
<1>1. CASE s \in OneMore(i)
  <2>1. PICK x \in AllVectors(decision) \ report.executed :
          s = {x} /\ \E u \in report.executed : PairsFor(i, u, x)
    BY <1>1 DEF OneMore
  <2> QED
    BY <2>1 DEF Paired
<1>2. CASE s \in TwoMore(i)
  <2>1. s \subseteq AllVectors(decision) /\ Paired(i, s)
    BY <1>2 DEF TwoMore
  <2> QED
    BY <2>1 DEF Paired
<1> QED
  BY <1>1, <1>2 DEF Suggestions

LEMMA SuggestionsWork == TypeOK => SuggestionCompletes
<1> SUFFICES ASSUME TypeOK, NEW i \in Missing, NEW s \in Suggestions(i),
                    NEW test \in [s -> Inputs(decision)],
                    \A e \in s : Takes(test[e], e)
             PROVE  Shown(i, report.executed \cup {Evaluation[decision][test[e]] : e \in s})
  BY DEF SuggestionCompletes
<1>1. decision \in Decision /\ report.executed \subseteq AllVectors(decision)
  BY DEF TypeOK
<1>2. s \subseteq AllVectors(decision) /\ Paired(i, report.executed \cup s)
  BY SuggestionsTyped
<1>3. ASSUME NEW e \in s PROVE Evaluation[decision][test[e]] = e
  <2>1. test[e] \in Inputs(decision) /\ Takes(test[e], e) /\ e \in AllVectors(decision)
    BY <1>2
  <2> QED
    BY <1>1, <2>1, TestReproduces
<1>4. {Evaluation[decision][test[e]] : e \in s} = s
  BY <1>3
<1>5. i \in Conditions(decision)
  BY DEF Missing
<1>6. Shown(i, report.executed \cup s)
  BY <1>1, <1>2, <1>5, SameRule
<1> QED
  BY <1>4, <1>6

\* The report is true at all times: a condition counts as covered exactly when two of
\* the executions it was made from show it, and a suggested test completes its pair
\* whatever value it gives to the conditions that are not evaluated.
THEOREM ReportAlwaysTrue == Spec => []ReportTrue
<1>1. IInv => ReportTrue
  BY SuggestionsWork DEF IInv, ReportTrue
<1> QED
  BY <1>1, Invariant, PTL

-----------------------------------------------------------------------------
(* The smallest test set.  A set of evaluations shows fewer conditions than it has
members, so the search need not look below the size it starts with.              *)

\* The conditions that W shows.
ShownIn(d, W) == {i \in Conditions(d) : ShownBy(i, W)}

\* Every set of natural numbers that is not empty has a least element.
LEMMA LeastNat ==
  ASSUME NEW N \in SUBSET Nat, N # {}
  PROVE  \E n \in N : \A m \in N : n <= m
<1> DEFINE Below == {0..n : n \in N}
<1>1. Below # {} /\ Below \subseteq FiniteSubsetsOf(Nat)
  <2>1. \A n \in N : 0..n \in SUBSET Nat /\ IsFiniteSet(0..n)
    BY FS_Interval
  <2> QED BY <2>1 DEF FiniteSubsetsOf
<1>2. PICK B \in Below : \A C \in Below : ~ (<<C, B>> \in StrictSubsetOrdering(Nat))
  <2> HIDE DEF Below
  <2> QED BY <1>1, FS_StrictSubsetOrderingWellFounded, WFMin, Zenon
<1>3. PICK n \in N : B = 0..n
  BY <1>2
<1>4. ASSUME NEW m \in N PROVE n <= m
  <2>1. ~ (<<0..m, 0..n>> \in StrictSubsetOrdering(Nat))
    BY <1>2, <1>3
  <2>2. SUFFICES ASSUME m < n PROVE FALSE
    OBVIOUS
  <2>3. 0..m \subseteq 0..n /\ n \in 0..n /\ n \notin 0..m
    BY <2>2
  <2> QED BY <2>1, <2>3 DEF StrictSubsetOrdering
<1> QED BY <1>4

\* Two paths that differ first at condition i were both asked it, so the rest of the
\* set splits there.
LEMMA FirstDifference ==
  ASSUME NEW d \in Decision, NEW W \in SUBSET Paths[d],
         NEW x \in W, NEW y \in W, x.values # y.values
  PROVE  \E i \in Conditions(d) :
           /\ \A u \in W : u.values[i] \in Value
           /\ \E u \in W : u.values[i] = "T"
           /\ \E u \in W : u.values[i] = "F"
<1> DEFINE N == {i \in Conditions(d) : \E u, v \in W : u.values[i] # v.values[i]}
<1>0. Size[d] \in Nat
  BY EvaluationAssumption DEF EvaluationAssumption
<1>1. \A u \in W : u.values \in [Conditions(d) -> Value \cup {Unasked}]
  BY PathAssumption DEF PathAssumption
<1>2. N # {} /\ N \in SUBSET Nat
  BY <1>0, <1>1 DEF Conditions
<1>3. PICK i \in N : \A j \in N : i <= j
  <2> HIDE DEF N
  <2> QED BY <1>2, LeastNat
<1>4. i \in Conditions(d) /\ i \in 1..Size[d]
  BY DEF Conditions
<1>5. \A u, v \in W : \A j \in 1..(i - 1) : u.values[j] = v.values[j]
  <2> SUFFICES ASSUME NEW u \in W, NEW v \in W, NEW j \in 1..(i - 1),
                      u.values[j] # v.values[j]
               PROVE  FALSE
    OBVIOUS
  <2>1. j \in Conditions(d) /\ j < i
    BY <1>0, <1>4 DEF Conditions
  <2>2. j \in N
    BY <2>1
  <2> QED BY <1>0, <1>3, <1>4, <2>1, <2>2
<1>6. \A u, v \in W : u.values[i] = Unasked <=> v.values[i] = Unasked
  BY <1>4, <1>5, PathAssumption DEF PathAssumption
<1>7. \A u \in W : u.values[i] \in Value \cup {Unasked}
  BY <1>1, <1>4
<1>8. PICK u \in W, v \in W : u.values[i] # v.values[i]
  BY <1>3
<1>9. \A w \in W : w.values[i] \in Value
  BY <1>6, <1>7, <1>8
<1> QED
  BY <1>4, <1>8, <1>9 DEF Value

\* MC/DC takes one evaluation more than it shows conditions.  By induction over the
\* set: its members part at one condition, a pair with a member on each side shows
\* nothing else, and any other pair lies on one side.
THEOREM OneMoreThanShown ==
  ASSUME NEW d \in Decision, NEW E \in SUBSET Paths[d], E # {}
  PROVE  /\ IsFiniteSet(ShownIn(d, E))
         /\ Cardinality(ShownIn(d, E)) + 1 <= Cardinality(E)
<1> DEFINE Fine(W) == Cardinality(ShownIn(d, W)) + 1 <= Cardinality(W)
           Bad == {W \in SUBSET Paths[d] : W # {} /\ ~Fine(W)}
<1>1. \A W \in SUBSET Paths[d] : IsFiniteSet(W) /\ Cardinality(W) \in Nat
  BY PathAssumption, FS_Subset, FS_CardinalityType DEF PathAssumption
<1>2. \A W : IsFiniteSet(ShownIn(d, W)) /\ Cardinality(ShownIn(d, W)) \in Nat
  <2>1. IsFiniteSet(Conditions(d))
    BY EvaluationAssumption, FS_Interval DEF EvaluationAssumption, Conditions
  <2>2. \A W : ShownIn(d, W) \in SUBSET Conditions(d)
    BY DEF ShownIn
  <2> QED BY <2>1, <2>2, FS_Subset, FS_CardinalityType
<1>3. SUFFICES ASSUME Bad # {} PROVE FALSE
  <2>1. E \notin Bad => Fine(E)
    OBVIOUS
  <2> QED BY <1>2, <2>1
<1>4. PICK W \in Bad : \A V \in Bad : ~ (<<V, W>> \in StrictSubsetOrdering(Paths[d]))
  <2>1. Bad \subseteq FiniteSubsetsOf(Paths[d])
    BY <1>1 DEF FiniteSubsetsOf
  <2> HIDE DEF Bad
  <2> QED BY <1>3, <2>1, FS_StrictSubsetOrderingWellFounded, WFMin, Zenon
<1>5. W \in SUBSET Paths[d] /\ W # {} /\ ~Fine(W)
  BY <1>4
<1>6. ASSUME NEW V \in SUBSET W, V # {}, V # W PROVE Fine(V)
  <2>1. V \in SUBSET Paths[d] /\ <<V, W>> \in StrictSubsetOrdering(Paths[d])
    BY <1>5, <1>6 DEF StrictSubsetOrdering
  <2>2. V \notin Bad
    BY <1>4, <2>1
  <2> QED BY <1>6, <2>1, <2>2
<1>7. CASE \A x, y \in W : x.values = y.values
  <2>1. \A i : ~ ShownBy(i, W)
    BY <1>7 DEF ShownBy, Independent, Differing
  <2>2. ShownIn(d, W) = {}
    BY <2>1 DEF ShownIn
  <2>3. Cardinality(ShownIn(d, W)) = 0 /\ Cardinality(W) # 0
    BY <1>1, <1>5, <2>2, FS_EmptySet
  <2>4. Cardinality(W) \in Nat
    BY <1>1, <1>5
  <2> QED BY <1>5, <2>3, <2>4
<1>8. CASE \E x, y \in W : x.values # y.values
  <2>1. PICK i \in Conditions(d) : /\ \A u \in W : u.values[i] \in Value
                                   /\ \E u \in W : u.values[i] = "T"
                                   /\ \E u \in W : u.values[i] = "F"
    BY <1>5, <1>8, FirstDifference
  <2> DEFINE L == {u \in W : u.values[i] = "T"}
             R == {u \in W : u.values[i] = "F"}
  <2>2. /\ L \in SUBSET W /\ L # {} /\ L # W
        /\ R \in SUBSET W /\ R # {} /\ R # W
        /\ L \cup R = W /\ L \cap R = {}
    BY <2>1 DEF Value
  <2>3. ShownIn(d, W) \subseteq (ShownIn(d, L) \cup ShownIn(d, R)) \cup {i}
    <3> SUFFICES ASSUME NEW j \in Conditions(d), NEW u \in W, NEW v \in W, Independent(j, u, v),
                        j # i
                 PROVE  ShownBy(j, L) \/ ShownBy(j, R)
      BY DEF ShownIn, ShownBy
    <3>1. i \in DOMAIN u.values
      BY <1>5, PathAssumption DEF PathAssumption
    <3>2. i \notin Differing(u, v)
      BY DEF Independent
    <3>3. u.values[i] = v.values[i]
      BY <2>1, <3>1, <3>2 DEF Differing, Value, Unasked
    <3> QED BY <2>1, <3>3 DEF ShownBy, Value
  <2>4. Fine(L) /\ Fine(R)
    BY <1>6, <2>2
  <2> DEFINE l == Cardinality(L)  r == Cardinality(R)  sl == Cardinality(ShownIn(d, L))
             sr == Cardinality(ShownIn(d, R))
             s == Cardinality(ShownIn(d, W))  w == Cardinality(W)
             both == ShownIn(d, L) \cup ShownIn(d, R)
  <2>5. l \in Nat /\ r \in Nat /\ w \in Nat /\ sl \in Nat /\ sr \in Nat /\ s \in Nat
    BY <1>1, <1>2, <1>5, <2>2
  <2>6. w = l + r
    <3>1. IsFiniteSet(L) /\ IsFiniteSet(R)
      BY <1>1, <1>5, <2>2
    <3>2. w = l + r - Cardinality(L \cap R)
      BY <2>2, <3>1, FS_Union
    <3>3. Cardinality(L \cap R) = 0
      BY <2>2, FS_EmptySet
    <3> HIDE DEF l, r, w
    <3> QED BY <2>5, <3>2, <3>3
  <2>7. IsFiniteSet(both) /\ Cardinality(both) \in Nat /\ Cardinality(both) <= sl + sr
    <3>1. /\ IsFiniteSet(both)
          /\ Cardinality(both) = sl + sr - Cardinality(ShownIn(d, L) \cap ShownIn(d, R))
      BY <1>2, FS_Union
    <3>2. Cardinality(ShownIn(d, L) \cap ShownIn(d, R)) \in Nat /\ Cardinality(both) \in Nat
      BY <1>2, <3>1, FS_Intersection, FS_CardinalityType
    <3> QED BY <2>5, <3>1, <3>2
  <2>8. s <= Cardinality(both) + 1
    <3>1. IsFiniteSet(both \cup {i}) /\ Cardinality(both \cup {i}) \in Nat
          /\ Cardinality(both \cup {i}) <= Cardinality(both) + 1
      <4> HIDE DEF both
      <4>1. /\ IsFiniteSet(both \cup {i})
            /\ Cardinality(both \cup {i}) = IF i \in both THEN Cardinality(both)
                                             ELSE Cardinality(both) + 1
        BY <2>7, FS_AddElement
      <4> QED BY <2>7, <4>1
    <3>2. s <= Cardinality(both \cup {i})
      BY <2>3, <3>1, FS_Subset
    <3> QED BY <2>5, <2>7, <3>1, <3>2
  <2>9. sl + 1 <= l /\ sr + 1 <= r
    BY <2>4
  <2>10. ~(s + 1 <= w)
    BY <1>5
  <2> HIDE DEF l, r, sl, sr, s, w, both
  <2> QED BY <2>5, <2>6, <2>7, <2>8, <2>9, <2>10
<1> QED BY <1>7, <1>8

-----------------------------------------------------------------------------
\* Only what the decision can evaluate to is ever executed.
LEMMA StepExecuted ==
  ASSUME TypeOK, Executed(runs) \subseteq Paths[decision], [Next]_vars
  PROVE  Executed(runs)' \subseteq Paths[decision]'
<1>1. ASSUME NEW a \in Feasible[decision], RunTest(a), UNCHANGED decision
      PROVE  Executed(runs)' \subseteq Paths[decision]'
  <2>1. Evaluation[decision][a] \in Paths[decision]
    BY PathAssumption DEF PathAssumption, TypeOK
  <2>2. PICK k \in Instance[decision] : runs' = runs \cup {<<k, Evaluation[decision][a]>>}
    BY <1>1 DEF RunTest
  <2>3. Executed(runs)' \subseteq Executed(runs) \cup {Evaluation[decision][a]}
    BY <2>2 DEF Executed
  <2> QED BY <1>1, <2>1, <2>3
<1>2. CASE OtherTest
  BY <1>1, <1>2 DEF OtherTest
<1>3. CASE FollowReport
  BY <1>1, <1>3 DEF FollowReport, Follow
<1>4. CASE Import \/ UNCHANGED vars
  BY <1>4 DEF Import, vars, Executed
<1> QED BY <1>2, <1>3, <1>4 DEF Next

\* What the search finds is a smallest set: no set of paths that shows every condition
\* is smaller.
LEMMA SmallestIsSmallest ==
  ASSUME NEW d \in Decision, NEW S \in MinimalSets[d]
  PROVE  /\ \A i \in Need[d] : ShownBy(i, S)
         /\ \A E \in SUBSET Paths[d] :
              (\A i \in Need[d] : ShownBy(i, E)) => Cardinality(E) >= Cardinality(S)
<1> DEFINE need == Need[d]
           vecs == Paths[d]
           sizes == {k \in FirstSize(need, vecs)..Cardinality(vecs) : Covers(k, need, vecs) # {}}
<1>1. S \in SmallestSets(need, vecs) /\ need = Needed(Conditions(d), vecs)
  BY DEF MinimalSets, Need
<1>2. \A W \in SUBSET vecs : /\ IsFiniteSet(W) /\ Cardinality(W) \in Nat
                             /\ Cardinality(W) <= Cardinality(vecs)
  BY PathAssumption, FS_Subset, FS_CardinalityType DEF PathAssumption
<1>3. CASE need = {}
  <2>1. S = {}
    BY <1>1, <1>3 DEF SmallestSets
  <2>2. Cardinality(S) = 0
    BY <2>1, FS_EmptySet
  <2> QED BY <1>2, <1>3, <2>2
<1>4. CASE need # {}
  <2>1. IsFiniteSet(need) /\ Cardinality(need) \in Nat
    <3>1. IsFiniteSet(Conditions(d)) /\ need \in SUBSET Conditions(d)
      BY <1>1, EvaluationAssumption, FS_Interval DEF EvaluationAssumption, Conditions, Needed
    <3> QED BY <3>1, FS_Subset, FS_CardinalityType
  <2>2. Cardinality(vecs) \in Nat
    BY <1>2
  <2>3. FirstSize(need, vecs) \in Nat /\ FirstSize(need, vecs) <= Cardinality(need) + 1
    <3> HIDE DEF need, vecs
    <3> QED BY <2>1, <2>2 DEF FirstSize
  <2>4. ASSUME NEW E \in SUBSET vecs, \A i \in need : ShownBy(i, E)
        PROVE  Cardinality(E) \in sizes /\ Cardinality(E) \in Nat
    <3>1. E # {}
      BY <1>4, <2>4 DEF ShownBy
    <3>2. need \in SUBSET ShownIn(d, E)
      BY <1>1, <2>4 DEF ShownIn, Needed
    <3>3. /\ IsFiniteSet(ShownIn(d, E)) /\ Cardinality(ShownIn(d, E)) \in Nat
          /\ Cardinality(ShownIn(d, E)) + 1 <= Cardinality(E)
      BY <3>1, OneMoreThanShown, FS_CardinalityType
    <3>4. Cardinality(need) <= Cardinality(ShownIn(d, E))
      BY <3>2, <3>3, FS_Subset
    <3>5. E \in Covers(Cardinality(E), need, vecs)
      BY <2>4 DEF Covers, kSubset
    <3>6. Cardinality(E) \in Nat /\ Cardinality(E) <= Cardinality(vecs)
      BY <1>2
    <3>7. FirstSize(need, vecs) <= Cardinality(E)
      <4> DEFINE e == Cardinality(E)  n == Cardinality(need)  s == Cardinality(ShownIn(d, E))
                 f == FirstSize(need, vecs)
      <4>1. e \in Nat /\ n \in Nat /\ s \in Nat /\ f \in Nat /\ f <= n + 1 /\ n <= s /\ s + 1 <= e
        BY <2>1, <2>3, <3>3, <3>4, <3>6
      <4>2. f <= e
        <5> HIDE DEF e, n, s, f
        <5> QED BY <4>1
      <4> QED BY <4>2
    <3>8. Cardinality(E) \in FirstSize(need, vecs)..Cardinality(vecs)
      BY <2>2, <2>3, <3>6, <3>7
    <3> HIDE DEF need, vecs
    <3> QED BY <3>5, <3>6, <3>8
  <2>5. Covers(Min(sizes), need, vecs) = SmallestSets(need, vecs)
    BY <1>4 DEF SmallestSets
  <2>6. /\ \A i \in need : ShownBy(i, S)
        /\ Cardinality(S) = Min(sizes)
    BY <1>1, <2>5 DEF Covers, kSubset
  <2>7. sizes \in SUBSET Nat
    BY <2>2, <2>3
  <2>8. \A k \in sizes : Min(sizes) <= k
    <3> SUFFICES ASSUME NEW k \in sizes PROVE Min(sizes) <= k
      OBVIOUS
    <3> HIDE DEF sizes
    <3>1. \E m \in sizes : \A n \in sizes : m <= n
      BY <2>7, LeastNat
    <3> QED BY <3>1 DEF Min
  <2>9. ASSUME NEW E \in SUBSET vecs, \A i \in need : ShownBy(i, E)
        PROVE  Cardinality(E) >= Cardinality(S)
    <3>1. Cardinality(E) \in sizes
      BY <2>4, <2>9
    <3>2. Min(sizes) <= Cardinality(E)
      BY <2>8, <3>1
    <3> QED BY <2>6, <3>2
  <2> QED BY <2>6, <2>9
<1> QED BY <1>3, <1>4

\* Tests that include a test set of experiments/mcdc.py show every condition that can
\* be shown, and no tests show them all with fewer different evaluations.
THEOREM TestSetAlwaysMinimal == Spec => []TestSetIsMinimal
<1> DEFINE Possibly == TypeOK /\ Executed(runs) \subseteq Paths[decision]
<1>1. Init => Possibly
  BY InitIInv DEF Init, IInv, Executed
<1>2. Possibly /\ IInv /\ [Next]_vars => Possibly'
  BY StepExecuted, StepIInv DEF IInv
<1>3. Possibly => TestSetIsMinimal
  <2> SUFFICES ASSUME Possibly, NEW S \in MinimalSets[decision]
               PROVE  /\ S \subseteq Executed(runs) => \A i \in Need[decision] : ShownBy(i, Executed(runs))
                      /\ (\A i \in Need[decision] : ShownBy(i, Executed(runs)))
                           => Cardinality(Executed(runs)) >= Cardinality(S)
    BY DEF TestSetIsMinimal
  <2>1. decision \in Decision /\ Executed(runs) \in SUBSET Paths[decision]
    BY DEF TypeOK
  <2>2. /\ \A i \in Need[decision] : ShownBy(i, S)
        /\ \A E \in SUBSET Paths[decision] :
             (\A i \in Need[decision] : ShownBy(i, E)) => Cardinality(E) >= Cardinality(S)
    BY <2>1, SmallestIsSmallest
  <2>3. S \subseteq Executed(runs) => \A i \in Need[decision] : ShownBy(i, Executed(runs))
    BY <2>2 DEF ShownBy
  <2> QED BY <2>1, <2>2, <2>3
<1> HIDE DEF Possibly
<1> QED BY <1>1, <1>2, <1>3, Invariant, PTL DEF Spec
=============================================================================

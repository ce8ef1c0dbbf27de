-------------------------------- MODULE Mcdc --------------------------------
(* The loop that raises the MC/DC of one decision (codeindex/mcdc.py, coverage.py,
tools/llvm-mcdc.md): tests run, `cov-import --llvm` merges what llvm-cov recorded
for the instantiations of the decision, works out which conditions are shown
independent and, for each that is not, the test that would complete a pair;
somebody writes that test; the next import measures again.

Left out: decisions whose text holds more than conditions, && || ! and
parentheses or that have compile-time constants (no test is suggested for them),
more than six conditions (clang 18 does not measure them), the place in the source
under which a decision is filed, and the wording of the gap lines.              *)
EXTENDS TestSets

CONSTANTS Decision,     \* the decisions of the program
          Size,           \* how many conditions each has
          Instance,       \* its template instantiations
          Evaluation,     \* what an execution with given values of the conditions records
          Feasible,       \* the values its conditions can have together
          Paths,          \* the evaluations that experiments/mcdc.py finds possible
          MaxOther        \* bound: tests other than those the report asked for

VARIABLES decision,       \* the one looked at
          runs,           \* the profile: <<instantiation, evaluation>> of every test
          report          \* coverage.json

vars == <<decision, runs, report>>

Conditions(d) == 1..Size[d]
Inputs(d) == [Conditions(d) -> Value]

\* A test that gives every condition the value named ("not evaluated": any value).
Takes(a, e) == \A i \in DOMAIN e.values : e.values[i] \in {Unasked, a[i]}

\* Short-circuit evaluation: a condition that is asked has its value, and conditions
\* that are not asked have no influence.
EvaluationAssumption ==
  /\ Size \in [Decision -> Nat]
  /\ \A d \in Decision :
       /\ Feasible[d] \subseteq Inputs(d)
       /\ \A a \in Inputs(d) :
            LET e == Evaluation[d][a]
            IN  /\ e \in [values : [Conditions(d) -> Value \cup {Unasked}], outcome : Value]
                /\ Takes(a, e)
                /\ \A b \in Inputs(d) : Takes(b, e) => Evaluation[d][b] = e
ASSUME EvaluationAssumption

\* The paths are the ways through the decision from left to right: whether a condition
\* is asked follows from the values of those before it.  What can happen is among them.
PathAssumption ==
  \A d \in Decision :
    /\ Paths[d] \subseteq [values : [Conditions(d) -> Value \cup {Unasked}], outcome : Value]
    /\ IsFiniteSet(Paths[d])
    /\ {Evaluation[d][a] : a \in Feasible[d]} \subseteq Paths[d]
    /\ \A u, v \in Paths[d] : \A i \in Conditions(d) :
         (\A j \in 1..(i - 1) : u.values[j] = v.values[j])
           => (u.values[i] = Unasked <=> v.values[i] = Unasked)
ASSUME PathAssumption

\* solve: the conditions that some pair of paths shows, and the smallest test sets.
Need == [d \in Decision |-> Needed(Conditions(d), Paths[d])]
MinimalSets == [d \in Decision |-> SmallestSets(Need[d], Paths[d])]

\* all_vectors: what the decision can produce.
AllVectors(d) == {Evaluation[d][a] : a \in Inputs(d)}

\* Mutant: the outcome need not differ.
PairsForAnyOutcome(i, u, v) ==
  /\ u.values[i] # Unasked /\ v.values[i] # Unasked
  /\ u.values[i] # v.values[i]
  /\ \A j \in DOMAIN u.values \ {i} :
       u.values[j] = v.values[j] \/ u.values[j] = Unasked \/ v.values[j] = Unasked

\* pairs_for: the condition and the outcome differ; every other condition is equal or
\* not evaluated in one of the two.
PairsFor(i, u, v) ==
  /\ u.values[i] # Unasked /\ v.values[i] # Unasked
  /\ u.values[i] # v.values[i]
  /\ u.outcome # v.outcome
  /\ \A j \in DOMAIN u.values \ {i} :
       u.values[j] = v.values[j] \/ u.values[j] = Unasked \/ v.values[j] = Unasked

Paired(i, E) == \E u, v \in E : PairsFor(i, u, v)

\* show_vectors merges the vectors of the instantiations.
Executed(profile) == {r[2] : r \in profile}
OfInstance(profile, k) == {r[2] : r \in {x \in profile : x[1] = k}}

\* What llvm-cov's export counts as covered, one record per instantiation.
LlvmCovered(d, profile, k) == {i \in Conditions(d) : Paired(i, OfInstance(profile, k))}

\* from_llvm: the records merged, and the pairs that span two instantiations.
Covered(d, profile) ==
  (UNION {LlvmCovered(d, profile, k) : k \in Instance[d]})
    \cup {i \in Conditions(d) : Paired(i, Executed(profile))}

NoReport == [measured |-> FALSE, executed |-> {}, covered |-> {}]

Missing == {i \in Conditions(decision) : report.measured /\ i \notin report.covered}

\* suggest: a new vector that pairs with an executed one; when there is none, two
\* new vectors.  The code prints the first it finds.
OneMore(i) ==
  {{v} : v \in {x \in AllVectors(decision) \ report.executed :
                  \E u \in report.executed : PairsFor(i, u, x)}}
TwoMore(i) ==
  {{u, v} : u, v \in AllVectors(decision)} \cap
  {s \in SUBSET AllVectors(decision) : Paired(i, s)}

\* Mutant: only one new test is ever suggested.
SuggestOneMore(i) == OneMore(i)
Suggestions(i) == IF OneMore(i) # {} THEN OneMore(i) ELSE TwoMore(i)

-----------------------------------------------------------------------------
Init ==
  /\ decision \in Decision
  /\ runs = {}
  /\ report = NoReport

RunTest(a) ==
  \E k \in Instance[decision] : runs' = runs \cup {<<k, Evaluation[decision][a]>>}

\* Any test of the suite, old or new.
OtherTest ==
  /\ Cardinality(runs) < MaxOther
  /\ \E a \in Feasible[decision] : RunTest(a)
  /\ UNCHANGED <<decision, report>>

\* cov-import --llvm.
Import ==
  /\ report' = [measured |-> TRUE, executed |-> Executed(runs),
                covered |-> Covered(decision, runs)]
  /\ UNCHANGED <<decision, runs>>

\* A test (or one of the two) that a gap line asks for.  The report may be old.
Follow(i) ==
  /\ \E s \in Suggestions(i) : \E e \in s :
       \E a \in Feasible[decision] : Takes(a, e) /\ RunTest(a)
  /\ UNCHANGED <<decision, report>>

FollowReport == \E i \in Missing : Follow(i)

Next == OtherTest \/ Import \/ FollowReport

Spec == Init /\ [][Next]_vars /\ WF_vars(Import) /\ WF_vars(FollowReport)

-----------------------------------------------------------------------------
TypeOK ==
  /\ decision \in Decision
  /\ runs \subseteq Instance[decision] \X AllVectors(decision)
  /\ report \in [measured : BOOLEAN, executed : SUBSET AllVectors(decision),
                 covered : SUBSET Conditions(decision)]

\* The rule of experiments/README.md:93-99: the condition differs, the outcome
\* differs, every other condition evaluated in both has the same value.
Shown(i, E) ==
  \E u, v \in E :
    /\ u.outcome # v.outcome
    /\ {j \in DOMAIN u.values : /\ u.values[j] # Unasked /\ v.values[j] # Unasked
                                /\ u.values[j] # v.values[j]} = {i}

\* A condition is reported as shown exactly when two of the merged executions show
\* it, whichever instantiations they were in.
CoveredIsShown ==
  IF report.measured
  THEN report.covered = {i \in Conditions(decision) : Shown(i, report.executed)}
  ELSE report.covered = {}

\* tools/llvm-mcdc.md: the suggested test (or the two) completes the pair, whatever
\* value it gives to the conditions "not evaluated".
SuggestionCompletes ==
  \A i \in Missing : \A s \in Suggestions(i) :
    \A test \in [s -> Inputs(decision)] :
      (\A e \in s : Takes(test[e], e)) =>
        Shown(i, report.executed \cup {Evaluation[decision][test[e]] : e \in s})

\* The report tells the truth about what has been tested and what is left to test.
ReportTrue == CoveredIsShown /\ SuggestionCompletes

\* experiments/mcdc.py:4, "a minimal set of test vectors that achieves MC/DC": tests
\* that include it show every condition that can be shown, and no suite shows them
\* all with fewer different evaluations.
TestSetIsMinimal ==
  LET E == Executed(runs)
      all == \A i \in Need[decision] : ShownBy(i, E)
  IN  \A S \in MinimalSets[decision] :
        /\ S \subseteq E => all
        /\ all => Cardinality(E) >= Cardinality(S)

\* Writing the tests the report asks for, and measuring again, ends with every
\* condition shown, for a decision whose conditions can take all values.
EveryConditionShown ==
  Feasible[decision] = Inputs(decision) => <>[](report.measured /\ Missing = {})
=============================================================================

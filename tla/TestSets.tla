------------------------------ MODULE TestSets ------------------------------
(* The test sets of experiments/mcdc.py: which conditions a set of evaluations shows
to decide the outcome alone, and the search for the smallest set that shows them all.

An evaluation is the value each condition had, "-" for a condition that was not
asked, and the outcome.  The limits on the number of conditions, paths and
combinations are left out.                                                         *)
EXTENDS Naturals, FiniteSets, FiniteSetsExt

Value == {"T", "F"}
Unasked == "-"

\* The conditions both evaluations asked and found different.
Differing(u, v) ==
  {i \in DOMAIN u.values : /\ u.values[i] # Unasked /\ v.values[i] # Unasked
                           /\ u.values[i] # v.values[i]}

\* u and v show that condition i decides the outcome alone.
Independent(i, u, v) == u.outcome # v.outcome /\ Differing(u, v) = {i}

ShownBy(i, S) == \E u, v \in S : Independent(i, u, v)

\* The conditions that some pair of evaluations shows.
Needed(conditions, vecs) == {i \in conditions : ShownBy(i, vecs)}

\* Mutant: it starts with two more.
FirstSizeTwoMore(need, vecs) ==
  IF Cardinality(need) + 2 < Cardinality(vecs) THEN Cardinality(need) + 2 ELSE Cardinality(vecs)

\* The search of _min_cover starts with one test more than there are conditions.
FirstSize(need, vecs) ==
  IF Cardinality(need) + 1 < Cardinality(vecs) THEN Cardinality(need) + 1 ELSE Cardinality(vecs)

\* The sets of k evaluations that show every condition.
Covers(k, need, vecs) == {S \in kSubset(k, vecs) : \A i \in need : ShownBy(i, S)}

\* The smallest test sets it finds (the code keeps the first of them).
SmallestSets(need, vecs) ==
  IF need = {} THEN {{}}
  ELSE LET sizes == {k \in FirstSize(need, vecs)..Cardinality(vecs) : Covers(k, need, vecs) # {}}
       IN  Covers(Min(sizes), need, vecs)
=============================================================================

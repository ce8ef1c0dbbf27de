------------------------------- MODULE MCMcdc -------------------------------
(* Decisions of two to four conditions, evaluated as the code evaluates them. *)
EXTENDS Mcdc
SC == INSTANCE ShortCircuit

A(t, u) == SC!And(t, u)
O(t, u) == SC!Or(t, u)
c1 == SC!C(1)
c2 == SC!C(2)
c3 == SC!C(3)
c4 == SC!C(4)

\* tree, number of conditions, groups of conditions that are the same expression,
\* values that exclude each other, number of instantiations
D(tree, n, coupled, never, inst) ==
  [tree |-> tree, n |-> n, coupled |-> coupled, never |-> never, inst |-> inst]

Plain(tree, n, inst) == D(tree, n, {}, {}, inst)

MCDecision ==
  {Plain(A(c1, c2), 2, 2), Plain(O(c1, SC!Not(c2)), 2, 2),
   Plain(O(A(c1, c2), c3), 3, 2), Plain(A(c1, O(c2, c3)), 3, 2),
   Plain(A(SC!Not(O(c1, c2)), c3), 3, 2), Plain(O(c1, O(c2, c3)), 3, 2),
   Plain(A(O(c1, c2), O(c3, c4)), 4, 1), Plain(O(c1, A(c2, O(c3, c4))), 4, 1),
   \* bytes == 0 || bytes > poolBytes_
   D(O(c1, c2), 2, {}, {<<"T", "T">>}, 2),
   \* (a && b) || (!a && c)
   D(O(A(c1, c2), A(SC!Not(c3), c4)), 4, {{1, 3}}, {}, 1)}

MCSize == [d \in MCDecision |-> d.n]
MCInstance == [d \in MCDecision |-> 1..d.inst]
MCEvaluation ==
  [d \in MCDecision |-> [a \in [1..d.n -> Value] |-> SC!Evaluate(d.tree, a)]]
MCFeasible ==
  [d \in MCDecision |->
     {a \in [1..d.n -> Value] : a \notin d.never /\ \A g \in d.coupled : \A i, j \in g : a[i] = a[j]}]

MCPaths == [d \in MCDecision |-> SC!Possible(d.tree, d.n, d.coupled)]
=============================================================================

---------------------------- MODULE ShortCircuit ----------------------------
(* How the two tools with MC/DC evaluate a decision, on its tree.  codeindex/mcdc.py
evaluates it under every value of its conditions and notes which conditions were
asked; experiments/mcdc.py walks the evaluation paths.

A tree is a condition [op, cond], a negation [op, arg] or an && or || [op, left,
right].  Bitwise operators (an option of experiments) are left out.                *)
EXTENDS TestSets

C(i) == [op |-> "cond", cond |-> i]
Not(t) == [op |-> "not", arg |-> t]
And(t, u) == [op |-> "and", left |-> t, right |-> u]
Or(t, u) == [op |-> "or", left |-> t, right |-> u]

Flip(b) == IF b = "T" THEN "F" ELSE "T"

\* The value of the left operand that settles an && or ||.
Settles(t) == IF t.op = "or" THEN "T" ELSE "F"

\* Python's "eval": the conditions asked and the result.
RECURSIVE Ask(_, _)
Ask(t, a) ==
  CASE t.op = "cond" -> [seen |-> {t.cond}, out |-> a[t.cond]]
    [] t.op = "not"  -> [Ask(t.arg, a) EXCEPT !.out = Flip(@)]
    [] OTHER         -> LET l == Ask(t.left, a)
                            r == Ask(t.right, a)
                        IN  IF l.out = Settles(t) THEN l
                            ELSE [seen |-> l.seen \cup r.seen, out |-> r.out]

Evaluate(t, a) ==
  LET e == Ask(t, a)
  IN  [values |-> [i \in DOMAIN a |-> IF i \in e.seen THEN a[i] ELSE Unasked],
       outcome |-> e.out]

\* Every evaluation that begins with the values v.
RECURSIVE PathsFrom(_, _)
PathsFrom(t, v) ==
  CASE t.op = "cond" -> {[values |-> [v EXCEPT ![t.cond] = b], outcome |-> b] : b \in Value}
    [] t.op = "not"  -> {[p EXCEPT !.outcome = Flip(@)] : p \in PathsFrom(t.arg, v)}
    [] OTHER         -> UNION {IF p.outcome = Settles(t) THEN {p}
                               ELSE PathsFrom(t.right, p.values) : p \in PathsFrom(t.left, v)}

Evaluations(t, n) == PathsFrom(t, [i \in 1..n |-> Unasked])

\* Those in which conditions that are the same expression have the same value.
Possible(t, n, coupled) ==
  {p \in Evaluations(t, n) :
     \A g \in coupled : \A i, j \in g :
        p.values[i] # Unasked /\ p.values[j] # Unasked => p.values[i] = p.values[j]}
=============================================================================

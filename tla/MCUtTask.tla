------------------------------ MODULE MCUtTask ------------------------------
(* A small instance of UtTask: two modules with their tests and a mock. *)
EXTENDS UtTask, TLC

MCFileOrder == <<"a.c", "a_test.c", "b.c", "b_test.c", "mock_b.c">>
MCTestFileOf == [f \in Range(MCFileOrder) |->
                   CASE f \in {"a.c", "a_test.c"} -> "a_test.c" [] OTHER -> "b_test.c"]

MCTechnique == [n \in {"access"} |-> {"A1", "A2"}]
MCDetected == [n \in {"access"} |-> "A2"]

\* Two changed functions of a with more cases than one task holds, and one that
\* is gone; or a type that a mock includes and one that nothing includes, an
\* interface of b with its mock, a production bug and a module changed before.
Changed ==
  << [Item(1, "a.c", "f", "changed", "B") EXCEPT !.tests = 1, !.home = "a_test.c", !.cases = 7],
     [Item(2, "a.c", "g", "changed", "B") EXCEPT !.cases = 7, !.hidden = TRUE],
     Item(3, "b.c", "gone", "deleted", "A") >>
Retyped ==
  << [Item(1, "b.h", "T", "type", "B") EXCEPT !.includers = <<"mock_b.c">>],
     Item(2, "b.h", "U", "type", "B"),
     [Item(3, "b.c", "h", "changed", "C") EXCEPT !.tests = 1, !.mocks = {"mock_b.c"}],
     Item(4, "a.c", "f", "changed", "I"), Item(5, "a.c", "g", "changed", "H") >>
MCFindings == {Changed, Retyped}
MCCoverage == {<<[Item(0, "b.c", "h", "gap", "G") EXCEPT !.gaps = 2],
                 [Item(0, "b.c", "m", "gap", "G") EXCEPT !.gaps = 2]>>}
MCProblems == {<<[file |-> "a_test.c", stage |-> "build"],
                 [file |-> "b_test.c", stage |-> "test"]>>}

MCTurn == [c \in Commands |->
             CASE c = "init" -> 1 [] c = "baseline" -> 2 [] c = "kb" -> 3 [] c = "discover" -> 4
               [] c = "coverage" -> 5 [] c = "scope" -> 6 [] c = "seams" -> 0 [] OTHER -> 7]
MCUses == [c \in Commands |-> CASE c \in {"run", "plan"} -> 2 [] OTHER -> 1]
=============================================================================

------------------------------ MODULE MCBoard ------------------------------
(* Small instances of Board. *)
EXTENDS Board, TLC

CONSTANTS m1, m2, j1, j2, e1, e2, e3

\* Applicants are interchangeable: no definition tells them apart.
Applicants == Permutations(Applicant)
=============================================================================

---------------------------- MODULE MCCvService ----------------------------
(* Small instances of CvService. *)
EXTENDS CvService, TLC

CONSTANTS c1, c2, k1, k2

\* As in the demo, the second client's priority is higher.
Priorities == [c \in Client |-> IF c = c2 THEN 1 ELSE 0]

\* The first client posts two requests, the second one.
Posts == [c \in Client |-> IF c = c1 THEN 2 ELSE 1]
=============================================================================

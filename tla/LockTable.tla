----------------------------- MODULE LockTable -----------------------------
(***************************************************************************)
(* What team/LOCKING.md promises to the agents: a table of path locks in   *)
(* which one call takes all of its paths or none of them, a lock on a      *)
(* directory covers everything inside it, and two owners never hold paths  *)
(* that overlap.  PathLock.tla models the script that implements it.       *)
(***************************************************************************)
CONSTANTS Owner,   \* lock owners (agent ids)
          Path,    \* canonical absolute paths
          Below    \* <<d, p>> \in Below: p lies inside directory d

VARIABLE granted   \* granted[o]: the paths owner o holds

\* A lock on a covers b: the same path, or a directory that contains b.
Covers(a, b) == a = b \/ <<a, b>> \in Below

\* Two locks exclude each other in both directions.
Conflict(a, b) == Covers(a, b) \/ Covers(b, a)

Init == granted = [o \in Owner |-> {}]

\* One call takes every path of P, when no other owner holds an overlapping one.
Take(o, P) ==
  /\ \A x \in Owner \ {o} : \A q \in granted[x], c \in P : ~Conflict(q, c)
  /\ granted' = [granted EXCEPT ![o] = @ \cup P]

\* Paths are given up by their owner, or taken from it by reap or break.
Drop(o, P) == granted' = [granted EXCEPT ![o] = @ \ P]

Next == \E o \in Owner, P \in SUBSET Path : Take(o, P) \/ Drop(o, P)

Spec == Init /\ [][Next]_granted

-----------------------------------------------------------------------------
TypeOK == granted \in [Owner -> SUBSET Path]

\* LOCKING.md: "Two writers on the same path corrupt it": two owners never hold
\* the same path, nor a directory and a path inside it.
Exclusive ==
  \A o, x \in Owner : o # x =>
    \A p \in granted[o], q \in granted[x] : ~Conflict(p, q)
=============================================================================

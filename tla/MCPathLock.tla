----------------------------- MODULE MCPathLock -----------------------------
(* Small instances of PathLock: a directory, a file inside it, and one other path. *)
EXTENDS PathLock, TLC

CONSTANTS p1, p2, A, B, dir, file, other

\* Two agents, one invocation each.
TwoAgents == p1 :> A @@ p2 :> B

\* file lies inside dir.
Inside == {<<dir, file>>}

\* One call locks the directory, one the file inside it and the other path.
Lists == {{dir}, {file, other}}

\* One lock is enough where the paths do not matter.
FileOnly == {{file}}
=============================================================================

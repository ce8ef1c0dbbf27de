------------------------------ MODULE WavePlan ------------------------------
(***************************************************************************)
(* What a plan of the ut tool promises of the order of its work: tasks     *)
(* come in waves, a wave ends with a checkpoint of the whole build and all *)
(* tests, and work on a wave starts only after every earlier wave passed   *)
(* its checkpoint.  UtTask shows that the tool keeps the promise through   *)
(* the file it saves its state in.                                         *)
(***************************************************************************)
EXTENDS Integers

VARIABLES
  tasks,   \* the plan's tasks, a sequence
  checks   \* the results of the checkpoints, by wave

vars == <<tasks, checks>>

Ended == {"DONE", "PARTIAL", "BLOCKED"}
Over == Ended \cup {"DROPPED"}

\* A task is a record of its wave, what it depends on and its status.
Set(i, s) == [tasks EXCEPT ![i] = [wave |-> @.wave, depends |-> @.depends, status |-> s]]
WaveOver(w) == \A i \in DOMAIN tasks : tasks[i].wave = w => tasks[i].status \in Over

Ready(i) ==
  /\ tasks[i].status = "TODO"
  /\ \A d \in tasks[i].depends \cap DOMAIN tasks :
       tasks[d].status \in {"DONE", "PARTIAL", "DROPPED"}
  /\ \A j \in DOMAIN tasks :
       tasks[j].wave < tasks[i].wave =>
         tasks[j].wave \in DOMAIN checks /\ checks[tasks[j].wave] = "PASSED"

\* A new plan replaces the old one and its checkpoints.
Adopt ==
  /\ \A i \in DOMAIN tasks' : tasks'[i].status = "TODO"
  /\ checks' = <<>>

Start(i) ==
  /\ Ready(i)
  /\ tasks' = Set(i, "IN_PROGRESS")
  /\ UNCHANGED checks

\* A task ends with a result, or is put back (a dry run only writes its prompt).
End(i) ==
  /\ tasks[i].status = "IN_PROGRESS"
  /\ \E s \in Ended \cup {"TODO"} : tasks' = Set(i, s)
  /\ UNCHANGED checks

Check(w) ==
  /\ w \notin DOMAIN checks
  /\ WaveOver(w)
  /\ \E result \in {"PASSED", "FAILED"} :
       checks' = [v \in DOMAIN checks \cup {w} |-> IF v = w THEN result ELSE checks[v]]
  /\ UNCHANGED tasks

Init == tasks = <<>> /\ checks = <<>>

Next ==
  \/ Adopt
  \/ \E i \in DOMAIN tasks : Start(i) \/ End(i)
  \/ \E i \in DOMAIN tasks : Check(tasks[i].wave)

Spec == Init /\ [][Next]_vars

\* A task that was ever started (or is over) has every earlier wave over and
\* passed behind it.
WavesInOrder ==
  \A i, j \in DOMAIN tasks :
    tasks[i].status # "TODO" /\ tasks[j].wave < tasks[i].wave =>
      /\ tasks[j].status \in Over
      /\ tasks[j].wave \in DOMAIN checks
      /\ checks[tasks[j].wave] = "PASSED"
=============================================================================

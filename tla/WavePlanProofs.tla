--------------------------- MODULE WavePlanProofs ---------------------------
(***************************************************************************)
(* The order that WavePlan promises, for every plan: a task that was       *)
(* started has every earlier wave over and passed behind it.  The promise  *)
(* alone is not inductive: a checkpoint must also stay true of its wave,   *)
(* which holds because only a TODO task is started and a wave with one is  *)
(* not over.                                                               *)
(***************************************************************************)
EXTENDS WavePlan, TLAPS

\* A wave is checked only when it is over, and stays over.
CheckedIsOver == \A w \in DOMAIN checks : WaveOver(w)

IInv == CheckedIsOver /\ WavesInOrder

\* What Set changes of the tasks: the status of one.
LEMMA SetChangesStatus ==
  ASSUME NEW i \in DOMAIN tasks, NEW s, tasks' = Set(i, s)
  PROVE  /\ DOMAIN tasks' = DOMAIN tasks
         /\ tasks'[i].status = s
         /\ \A k \in DOMAIN tasks : tasks'[k].wave = tasks[k].wave
         /\ \A k \in DOMAIN tasks \ {i} : tasks'[k].status = tasks[k].status
  BY DEF Set

\* A task that is TODO or worked on is of a wave that no checkpoint has seen.
LEMMA UnfinishedIsUnchecked ==
  ASSUME CheckedIsOver, NEW i \in DOMAIN tasks, tasks[i].status \in {"TODO", "IN_PROGRESS"}
  PROVE  tasks[i].wave \notin DOMAIN checks
  BY DEF CheckedIsOver, WaveOver, Over, Ended

LEMMA InitEstablishes == Init => IInv
  BY DEF Init, IInv, CheckedIsOver, WavesInOrder

LEMMA AdoptKeeps ==
  ASSUME IInv, Adopt
  PROVE  IInv'
  BY DEF Adopt, IInv, CheckedIsOver, WavesInOrder

LEMMA StartKeeps ==
  ASSUME IInv, NEW i \in DOMAIN tasks, Start(i)
  PROVE  IInv'
<1>1. tasks' = Set(i, "IN_PROGRESS") /\ checks' = checks /\ Ready(i)
  BY DEF Start
<1>2. tasks[i].wave \notin DOMAIN checks
  BY <1>1, UnfinishedIsUnchecked DEF IInv, Ready
<1>3. CheckedIsOver'
  BY <1>1, <1>2, SetChangesStatus DEF IInv, CheckedIsOver, WaveOver
<1>4. ASSUME NEW k \in DOMAIN tasks', NEW j \in DOMAIN tasks',
             tasks'[k].status # "TODO", tasks'[j].wave < tasks'[k].wave
      PROVE  /\ tasks'[j].status \in Over
             /\ tasks'[j].wave \in DOMAIN checks' /\ checks'[tasks'[j].wave] = "PASSED"
  <2>1. k \in DOMAIN tasks /\ j \in DOMAIN tasks /\ tasks[j].wave < tasks[k].wave
    BY <1>1, <1>4, SetChangesStatus
  <2>2. /\ tasks[j].status \in Over
        /\ tasks[j].wave \in DOMAIN checks /\ checks[tasks[j].wave] = "PASSED"
    <3>1. CASE k = i
      BY <3>1, <1>1, <2>1 DEF Ready, IInv, CheckedIsOver, WaveOver
    <3>2. CASE k # i
      BY <3>2, <1>1, <1>4, <2>1, SetChangesStatus DEF IInv, WavesInOrder
    <3> QED BY <3>1, <3>2
  <2>3. j # i
    BY <2>2, <1>2
  <2> QED
    BY <1>1, <2>1, <2>2, <2>3, SetChangesStatus
<1> QED
  BY <1>3, <1>4 DEF IInv, WavesInOrder

LEMMA EndKeeps ==
  ASSUME IInv, NEW i \in DOMAIN tasks, End(i)
  PROVE  IInv'
<1>1. PICK s \in Ended \cup {"TODO"} : tasks' = Set(i, s)
  BY DEF End
<1>2. checks' = checks /\ tasks[i].status = "IN_PROGRESS"
  BY DEF End
<1>3. tasks[i].wave \notin DOMAIN checks
  BY <1>2, UnfinishedIsUnchecked DEF IInv
<1>4. CheckedIsOver'
  BY <1>1, <1>2, <1>3, SetChangesStatus DEF IInv, CheckedIsOver, WaveOver
<1>5. ASSUME NEW k \in DOMAIN tasks', NEW j \in DOMAIN tasks',
             tasks'[k].status # "TODO", tasks'[j].wave < tasks'[k].wave
      PROVE  /\ tasks'[j].status \in Over
             /\ tasks'[j].wave \in DOMAIN checks' /\ checks'[tasks'[j].wave] = "PASSED"
  <2>1. k \in DOMAIN tasks /\ j \in DOMAIN tasks /\ tasks[j].wave < tasks[k].wave
    BY <1>1, <1>5, SetChangesStatus
  <2>2. tasks[k].status # "TODO"
    BY <1>1, <1>2, <1>5, <2>1, SetChangesStatus
  <2>3. /\ tasks[j].status \in Over
        /\ tasks[j].wave \in DOMAIN checks /\ checks[tasks[j].wave] = "PASSED"
    BY <2>1, <2>2 DEF IInv, WavesInOrder
  <2>4. j # i
    BY <2>3, <1>3
  <2> QED
    BY <1>1, <1>2, <2>1, <2>3, <2>4, SetChangesStatus
<1> QED
  BY <1>4, <1>5 DEF IInv, WavesInOrder

LEMMA CheckKeeps ==
  ASSUME IInv, NEW w, Check(w)
  PROVE  IInv'
<1>1. PICK result \in {"PASSED", "FAILED"} :
        checks' = [v \in DOMAIN checks \cup {w} |-> IF v = w THEN result ELSE checks[v]]
  BY DEF Check
<1>2. tasks' = tasks /\ WaveOver(w) /\ w \notin DOMAIN checks
  BY DEF Check
<1>3. CheckedIsOver'
  BY <1>1, <1>2 DEF IInv, CheckedIsOver, WaveOver
<1>4. WavesInOrder'
  BY <1>1, <1>2 DEF IInv, WavesInOrder
<1> QED
  BY <1>3, <1>4 DEF IInv

LEMMA NextKeeps == IInv /\ [Next]_vars => IInv'
<1> SUFFICES ASSUME IInv, [Next]_vars PROVE IInv'
  OBVIOUS
<1>1. CASE Adopt
  BY <1>1, AdoptKeeps
<1>2. CASE \E i \in DOMAIN tasks : Start(i) \/ End(i)
  BY <1>2, StartKeeps, EndKeeps
<1>3. CASE \E i \in DOMAIN tasks : Check(tasks[i].wave)
  BY <1>3, CheckKeeps
<1>4. CASE UNCHANGED vars
  BY <1>4 DEF vars, IInv, CheckedIsOver, WaveOver, WavesInOrder
<1> QED
  BY <1>1, <1>2, <1>3, <1>4 DEF Next

\* Work on a wave starts only behind waves that are over and passed their
\* checkpoint (run.py:210-212, 259-271), whatever the plan.
THEOREM WavesAlwaysInOrder == Spec => []WavesInOrder
<1>1. Spec => []IInv
  BY InitEstablishes, NextKeeps, PTL DEF Spec
<1>2. IInv => WavesInOrder
  BY DEF IInv
<1> QED
  BY <1>1, <1>2, PTL
=============================================================================

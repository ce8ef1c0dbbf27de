---------------------------- MODULE UtTaskProofs ----------------------------
(***************************************************************************)
(* A task of the ut tool keeps the order that WavePlan promises, for every *)
(* repository, plan, agent and bound: every step of UtTask is, on what     *)
(* state.json says of the tasks, a step of WavePlan or none at all.  The   *)
(* argument rests on what a command knows: between its load and its saves  *)
(* nobody else writes state.json, so what it holds is what the file says,  *)
(* but for the one task it has a result for.                               *)
(***************************************************************************)
EXTENDS UtTask, TLAPS, FiniteSetTheorems, SequenceTheorems

Statuses == {"TODO", "IN_PROGRESS"} \cup Final

\* The fields that the argument needs.
StateOk(st) ==
  /\ {"ready", "problems", "items", "tasks", "checks"} \subseteq DOMAIN st
  /\ \A i \in DOMAIN st.tasks :
       /\ {"wave", "depends", "status"} \subseteq DOMAIN st.tasks[i]
       /\ st.tasks[i].status \in Statuses

SessOk ==
  /\ {"cmd", "pc", "st", "kb", "dry", "work"} \subseteq DOMAIN sess
  /\ {"task", "attempt", "partial", "before"} \subseteq DOMAIN sess.work

\* One state has the plan of another; its plan is new.
SamePlan(st, new) == new.tasks = st.tasks /\ new.checks = st.checks
Fresh(st) ==
  /\ \A i \in DOMAIN st.tasks : st.tasks[i].status = "TODO"
  /\ st.checks = <<>>

\* One state is another with a status for task i.
Marked(st, new, i, s) ==
  /\ new.checks = st.checks
  /\ DOMAIN new.tasks = DOMAIN st.tasks
  /\ \A k \in DOMAIN st.tasks :
       /\ new.tasks[k].wave = st.tasks[k].wave
       /\ new.tasks[k].depends = st.tasks[k].depends
       /\ new.tasks[k].status = IF k = i THEN s ELSE st.tasks[k].status

\* What the command holds, by how far it is.
Holds ==
  CASE sess.pc = "idle" -> TRUE
    [] sess.pc \in {"work", "save", "pick", "end"} -> SamePlan(disk, sess.st)
    [] sess.pc \in {"access", "approve"} -> Fresh(sess.st)
    [] sess.pc \in {"agent", "judge"} ->
         /\ SamePlan(disk, sess.st)
         /\ sess.work.task \in DOMAIN disk.tasks
         /\ disk.tasks[sess.work.task].status = "IN_PROGRESS"
    [] sess.pc = "record" ->
         /\ sess.work.task \in DOMAIN disk.tasks
         /\ disk.tasks[sess.work.task].status = "IN_PROGRESS"
         /\ \E s \in Final : Marked(disk, sess.st, sess.work.task, s)
    [] sess.pc = "checkpoint" ->
         /\ SamePlan(disk, sess.st)
         /\ sess.work.task \in DOMAIN disk.tasks
    [] OTHER -> FALSE

Idling == sess.cmd = "none" => sess.pc = "idle"

IInv == StateOk(disk) /\ StateOk(sess.st) /\ SessOk /\ Idling /\ Holds

-----------------------------------------------------------------------------
\* What the operators of UtTask do to a state

LEMMA NoStateOk == StateOk(NoState) /\ NoState.tasks = <<>> /\ NoState.checks = <<>>
  BY DEF StateOk, NoState

LEMMA ItemsKeepPlan ==
  ASSUME NEW st, StateOk(st), NEW x
  PROVE  /\ StateOk([st EXCEPT !.items = x]) /\ SamePlan(st, [st EXCEPT !.items = x])
         /\ StateOk([st EXCEPT !.ready = x]) /\ SamePlan(st, [st EXCEPT !.ready = x])
         /\ StateOk([st EXCEPT !.problems = x]) /\ SamePlan(st, [st EXCEPT !.problems = x])
  BY DEF StateOk, SamePlan

LEMMA ReplannedIsFresh ==
  ASSUME NEW st, StateOk(st)
  PROVE  StateOk(Replanned(st)) /\ Fresh(Replanned(st))
<1> DEFINE plan == MakePlan(st.items)
           items == [i \in DOMAIN st.items |-> AfterPlanning(st.items[i])]
<1>1. \A i \in DOMAIN plan : /\ {"wave", "depends", "status"} \subseteq DOMAIN plan[i]
                             /\ plan[i].status = "TODO"
  BY DEF MakePlan, InWaves, Todo
<1>2. Replanned(st) = [st EXCEPT !.tasks = plan, !.checks = <<>>, !.items = items]
  BY DEF Replanned
<1> HIDE DEF plan, items
<1>3. /\ DOMAIN Replanned(st) = DOMAIN st
      /\ Replanned(st).tasks = plan /\ Replanned(st).checks = <<>>
  BY <1>2 DEF StateOk
<1> QED
  BY <1>1, <1>3 DEF StateOk, Fresh, Statuses

LEMMA WithStatusMarks ==
  ASSUME NEW st, StateOk(st), NEW i \in DOMAIN st.tasks, NEW s \in Statuses
  PROVE  StateOk(WithStatus(st, i, s)) /\ Marked(st, WithStatus(st, i, s), i, s)
<1> DEFINE new == WithStatus(st, i, s)
<1>1. /\ DOMAIN new = DOMAIN st /\ new.checks = st.checks
      /\ new.tasks = [st.tasks EXCEPT ![i] = [st.tasks[i] EXCEPT !.status = s]]
  BY DEF WithStatus, StateOk
<1> HIDE DEF new
<1>2. \A k \in DOMAIN st.tasks :
        new.tasks[k] = IF k = i THEN [st.tasks[i] EXCEPT !.status = s] ELSE st.tasks[k]
  BY <1>1
<1>3. /\ DOMAIN [st.tasks[i] EXCEPT !.status = s] = DOMAIN st.tasks[i]
      /\ [st.tasks[i] EXCEPT !.status = s].status = s
      /\ [st.tasks[i] EXCEPT !.status = s].wave = st.tasks[i].wave
      /\ [st.tasks[i] EXCEPT !.status = s].depends = st.tasks[i].depends
  BY DEF StateOk
<1>4. DOMAIN new.tasks = DOMAIN st.tasks
  BY <1>1
<1>5. StateOk(new)
  BY <1>1, <1>2, <1>3, <1>4 DEF StateOk
<1>6. Marked(st, new, i, s)
  BY <1>1, <1>2, <1>3, <1>4 DEF Marked
<1> QED
  BY <1>5, <1>6 DEF new

LEMMA CheckedAdds ==
  ASSUME NEW st, StateOk(st), NEW w, NEW result
  PROVE  /\ StateOk(Checked(st, w, result))
         /\ Checked(st, w, result).tasks = st.tasks
         /\ Checked(st, w, result).checks =
              [v \in DOMAIN st.checks \cup {w} |-> IF v = w THEN result ELSE st.checks[v]]
  BY DEF StateOk, Checked

-----------------------------------------------------------------------------
\* What a step of state.json is to WavePlan

LEMMA SamePlanStutters ==
  ASSUME SamePlan(disk, disk')
  PROVE  UNCHANGED Waves!vars
  BY DEF SamePlan, Waves!vars, Outline

LEMMA FreshAdopts ==
  ASSUME Fresh(disk')
  PROVE  Waves!Next
<1>1. Waves!Adopt
  BY DEF Fresh, Waves!Adopt, Outline
<1> QED
  BY <1>1 DEF Waves!Next

LEMMA MarkedIsSet ==
  ASSUME NEW i \in DOMAIN disk.tasks, NEW s, Marked(disk, disk', i, s)
  PROVE  /\ Outline(disk.tasks)' = Waves!Set(i, s)
         /\ disk'.checks = disk.checks
  BY DEF Marked, Outline, Waves!Set

\* To start a ready task, to end one that is worked on, and to check a wave.
LEMMA PickStarts ==
  ASSUME NEW i \in DOMAIN disk.tasks, Ready(disk, i), Marked(disk, disk', i, "IN_PROGRESS")
  PROVE  Waves!Next
<1>1. Waves!Ready(i)
  BY DEF Ready, Waves!Ready, Outline
<1>2. Waves!Start(i)
  BY <1>1, MarkedIsSet DEF Waves!Start
<1> QED
  BY <1>2 DEF Waves!Next, Outline

LEMMA ResultEnds ==
  ASSUME NEW i \in DOMAIN disk.tasks, disk.tasks[i].status = "IN_PROGRESS",
         NEW s \in Final \cup {"TODO"}, Marked(disk, disk', i, s)
  PROVE  Waves!Next
<1>1. Waves!End(i)
  BY MarkedIsSet DEF Waves!End, Waves!Ended, Final, Outline
<1> QED
  BY <1>1 DEF Waves!Next, Outline

LEMMA CheckpointChecks ==
  ASSUME StateOk(disk), NEW i \in DOMAIN disk.tasks, NEW w, w = disk.tasks[i].wave,
         ~WaveOpen(disk, w), w \notin DOMAIN disk.checks,
         NEW result \in {"PASSED", "FAILED"},
         disk'.tasks = disk.tasks,
         disk'.checks = [v \in DOMAIN disk.checks \cup {w} |-> IF v = w THEN result ELSE disk.checks[v]]
  PROVE  Waves!Next
<1>1. Waves!WaveOver(w)
  BY DEF StateOk, Statuses, WaveOpen, Waves!WaveOver, Waves!Over, Waves!Ended, Final, Outline
<1>2. Outline(disk.tasks)' = Outline(disk.tasks)
  BY DEF Outline
<1>3. Waves!Check(w)
  BY <1>1, <1>2 DEF Waves!Check
<1>4. Waves!Check(Outline(disk.tasks)[i].wave) /\ i \in DOMAIN Outline(disk.tasks)
  BY <1>3 DEF Outline
<1> QED
  BY <1>4 DEF Waves!Next

-----------------------------------------------------------------------------
\* Every step keeps the invariant and is a step of WavePlan, or none

Good == IInv' /\ [Waves!Next]_(Waves!vars)

LEMMA InitIsGood == Init => IInv /\ Waves!Init
<1> SUFFICES ASSUME Init PROVE IInv /\ Waves!Init
  OBVIOUS
<1>1. disk = NoState /\ sess = Idle
  BY DEF Init
<1>2. SessOk /\ sess.st = NoState /\ sess.pc = "idle"
  BY <1>1 DEF SessOk, Idle, NoWork
<1>3. IInv
  BY <1>1, <1>2, NoStateOk DEF IInv, Idling, Holds
<1>4. Waves!Init
  BY <1>1, NoStateOk DEF Waves!Init, Outline
<1> QED
  BY <1>3, <1>4

\* A session that comes to its end, and one that begins.
LEMMA EndsIdle ==
  ASSUME StateOk(disk)', sess' = Idle
  PROVE  IInv'
<1>1. SessOk' /\ sess'.st = NoState /\ sess'.pc = "idle"
  BY DEF SessOk, Idle, NoWork
<1> QED
  BY <1>1, NoStateOk DEF IInv, Idling, Holds

LEMMA BeginsWith ==
  ASSUME NEW cmd, NEW pc, NEW st, NEW know, NEW dry,
         sess' = [Idle EXCEPT !.cmd = cmd, !.pc = pc, !.st = st, !.kb = know, !.dry = dry]
  PROVE  SessOk' /\ sess'.cmd = cmd /\ sess'.pc = pc /\ sess'.st = st
  BY DEF SessOk, Idle, NoWork

LEMMA BeginGood ==
  ASSUME IInv, UNCHANGED disk, NEW cmd, NEW pc \in {"work", "pick"}, cmd # "none", NEW dry,
         sess' = [Idle EXCEPT !.cmd = cmd, !.pc = pc, !.st = disk, !.kb = kb, !.dry = dry]
  PROVE  Good
<1>1. SessOk' /\ sess'.cmd = cmd /\ sess'.pc = pc /\ sess'.st = disk
  BY BeginsWith
<1>2. IInv'
  BY <1>1 DEF IInv, Idling, Holds, SamePlan
<1>3. UNCHANGED Waves!vars
  BY SamePlanStutters DEF SamePlan
<1> QED
  BY <1>2, <1>3 DEF Good

LEMMA InOneSaveGood ==
  ASSUME IInv, sess.cmd = "none", UNCHANGED sess, StateOk(disk'), SamePlan(disk, disk')
  PROVE  Good
<1>1. IInv'
  BY DEF IInv, Idling, Holds, StateOk, SessOk
<1> QED
  BY <1>1, SamePlanStutters DEF Good

LEMMA QuickCommandsGood ==
  ASSUME IInv, cmd_init \/ cmd_discover \/ cmd_scope \/ cmd_seams
  PROVE  Good
<1>1. CASE cmd_init
  BY <1>1, InOneSaveGood, ItemsKeepPlan DEF cmd_init, InOneSave, IInv
<1>2. CASE cmd_discover
  <2>1. PICK items : disk' = [disk EXCEPT !.items = items] /\ sess.cmd = "none" /\ UNCHANGED sess
    BY <1>2 DEF cmd_discover, InOneSave
  <2> QED
    BY <2>1, InOneSaveGood, ItemsKeepPlan DEF IInv
<1>3. CASE cmd_scope
  <2>1. PICK items : disk' = [disk EXCEPT !.items = items] /\ sess.cmd = "none" /\ UNCHANGED sess
    BY <1>3 DEF cmd_scope, InOneSave
  <2> QED
    BY <2>1, InOneSaveGood, ItemsKeepPlan DEF IInv
<1>4. CASE cmd_seams
  <2>1. UNCHANGED <<disk, sess>>
    BY <1>4 DEF cmd_seams
  <2>2. IInv'
    BY <2>1 DEF IInv, Idling, Holds, StateOk, SessOk
  <2> QED
    BY <2>1, <2>2, SamePlanStutters DEF Good, SamePlan
<1> QED
  BY <1>1, <1>2, <1>3, <1>4

LEMMA StartsGood ==
  ASSUME IInv, StartBaseline \/ StartKb \/ StartCoverage \/ StartRun
  PROVE  Good
<1>1. UNCHANGED disk
  BY DEF StartBaseline, StartKb, StartCoverage, StartRun
<1>2. CASE StartBaseline \/ StartKb \/ StartCoverage
  <2>1. PICK cmd \in {"baseline", "kb", "coverage"} :
          sess' = [Idle EXCEPT !.cmd = cmd, !.pc = "work", !.st = disk, !.kb = kb]
    BY <1>2 DEF StartBaseline, StartKb, StartCoverage, Begin
  <2>2. sess' = [Idle EXCEPT !.cmd = cmd, !.pc = "work", !.st = disk, !.kb = kb, !.dry = Idle.dry]
    BY <2>1 DEF Idle
  <2> QED
    BY <1>1, <2>2, BeginGood
<1>3. CASE StartRun
  BY <1>1, <1>3, BeginGood DEF StartRun
<1> QED
  BY <1>2, <1>3

LEMMA WorkGood ==
  ASSUME IInv, BaselineRan \/ KnowledgeBuilt \/ CoverageImported
  PROVE  Good
<1>1. /\ sess.pc = "work" /\ sess.cmd # "none" /\ UNCHANGED disk
      /\ SamePlan(disk, sess.st)
  BY DEF BaselineRan, KnowledgeBuilt, CoverageImported, SaveKb, IInv, Holds
<1>2. PICK st : /\ sess' = [sess EXCEPT !.st = st, !.pc = "save"]
                /\ StateOk(st) /\ SamePlan(sess.st, st)
  <2>1. CASE BaselineRan
    BY <2>1, ItemsKeepPlan DEF BaselineRan, SaveKb, IInv
  <2>2. CASE KnowledgeBuilt
    BY <2>2 DEF KnowledgeBuilt, SaveKb, IInv, SamePlan
  <2>3. CASE CoverageImported
    <3>1. PICK gaps : sess' = [sess EXCEPT !.st = Coverage(sess.st, gaps), !.pc = "save"]
      BY <2>3 DEF CoverageImported, SaveKb
    <3>2. PICK items : Coverage(sess.st, gaps) = [sess.st EXCEPT !.items = items]
      BY DEF Coverage
    <3> QED
      BY <3>1, <3>2, ItemsKeepPlan DEF IInv
  <2> QED
    BY <2>1, <2>2, <2>3
<1>3. /\ SessOk' /\ sess'.st = st /\ sess'.pc = "save" /\ sess'.cmd = sess.cmd
  BY <1>2 DEF IInv, SessOk
<1>4. IInv'
  BY <1>1, <1>2, <1>3 DEF IInv, Idling, Holds, SamePlan, StateOk
<1> QED
  BY <1>1, <1>4, SamePlanStutters DEF Good, SamePlan

LEMMA SaveGood ==
  ASSUME IInv, Save \/ EndRun
  PROVE  Good
<1>1. SamePlan(disk, sess.st) /\ disk' = sess.st /\ sess' = Idle
  BY DEF Save, EndRun, IInv, Holds
<1>2. IInv'
  BY <1>1, EndsIdle DEF IInv
<1> QED
  BY <1>1, <1>2, SamePlanStutters DEF Good

LEMMA PlanGood ==
  ASSUME IInv, StartPlan \/ decide_access \/ Approve
  PROVE  Good
<1>1. CASE StartPlan
  <2> DEFINE st == Replanned(disk)
  <2>1. PICK pc \in {"access", "approve"} :
          sess' = [Idle EXCEPT !.cmd = "plan", !.pc = pc, !.st = st, !.kb = kb]
    BY <1>1 DEF StartPlan
  <2>2. sess' = [Idle EXCEPT !.cmd = "plan", !.pc = pc, !.st = st, !.kb = kb, !.dry = Idle.dry]
    BY <2>1 DEF Idle
  <2>3. StateOk(st) /\ Fresh(st)
    BY ReplannedIsFresh DEF IInv
  <2> HIDE DEF st
  <2>4. SessOk' /\ sess'.cmd = "plan" /\ sess'.pc = pc /\ sess'.st = st
    BY <2>2, BeginsWith
  <2>5. UNCHANGED disk
    BY <1>1 DEF StartPlan
  <2>6. IInv'
    BY <2>1, <2>3, <2>4, <2>5 DEF IInv, Idling, Holds
  <2> QED
    BY <2>5, <2>6, SamePlanStutters DEF Good, SamePlan
<1>2. CASE decide_access
  <2>1. /\ sess.cmd = "plan" /\ sess.pc = "access" /\ UNCHANGED disk
        /\ sess' = [sess EXCEPT !.pc = "approve"]
    BY <1>2 DEF decide_access
  <2>2. SessOk' /\ sess'.cmd = "plan" /\ sess'.pc = "approve" /\ sess'.st = sess.st
    BY <2>1 DEF IInv, SessOk
  <2>3. IInv'
    BY <2>1, <2>2 DEF IInv, Idling, Holds
  <2> QED
    BY <2>1, <2>3, SamePlanStutters DEF Good, SamePlan
<1>3. CASE Approve
  <2>1. sess' = Idle /\ Fresh(sess.st) /\ StateOk(sess.st) /\ StateOk(disk)
    BY <1>3 DEF Approve, IInv, Holds
  <2>2. CASE disk' = sess.st
    BY <2>1, <2>2, EndsIdle, FreshAdopts DEF Good
  <2>3. CASE UNCHANGED disk
    BY <2>1, <2>3, EndsIdle, SamePlanStutters DEF Good, SamePlan
  <2> QED
    BY <1>3, <2>2, <2>3 DEF Approve
<1> QED
  BY <1>1, <1>2, <1>3

LEMMA PickGood ==
  ASSUME IInv, Pick
  PROVE  Good
<1>1. sess.cmd = "run" /\ SamePlan(disk, sess.st) /\ StateOk(sess.st)
  BY DEF Pick, IInv, Holds
<1>2. PICK i \in DOMAIN sess.st.tasks :
        /\ Ready(sess.st, i)
        /\ disk' = WithStatus(sess.st, i, "IN_PROGRESS")
        /\ \E before :
             sess' = [sess EXCEPT !.st = disk', !.pc = "agent",
                        !.work = [task |-> i, attempt |-> 1, partial |-> FALSE, before |-> before]]
  BY DEF Pick, IsNext
<1>3. StateOk(disk') /\ Marked(sess.st, disk', i, "IN_PROGRESS")
  BY <1>1, <1>2, WithStatusMarks DEF Statuses
<1>4. Marked(disk, disk', i, "IN_PROGRESS") /\ i \in DOMAIN disk.tasks /\ Ready(disk, i)
  BY <1>1, <1>2, <1>3 DEF Marked, SamePlan, Ready
<1>5. /\ SessOk' /\ sess'.st = disk' /\ sess'.pc = "agent" /\ sess'.cmd = "run"
      /\ sess'.work.task = i
  BY <1>1, <1>2 DEF IInv, SessOk
<1>6. i \in DOMAIN disk'.tasks /\ disk'.tasks[i].status = "IN_PROGRESS"
  BY <1>4 DEF Marked
<1>7. IInv'
  BY <1>3, <1>5, <1>6 DEF IInv, Idling, Holds, SamePlan
<1> QED
  BY <1>4, <1>7, PickStarts DEF Good

\* What holds while the agent works on a task, and after.
LEMMA Working ==
  ASSUME IInv, sess.pc \in {"agent", "judge"}
  PROVE  /\ SamePlan(disk, sess.st) /\ StateOk(sess.st) /\ StateOk(disk) /\ SessOk
         /\ sess.work.task \in DOMAIN disk.tasks /\ sess.work.task \in DOMAIN sess.st.tasks
         /\ disk.tasks[sess.work.task].status = "IN_PROGRESS"
  BY DEF IInv, Holds, SamePlan

LEMMA DryRunGood ==
  ASSUME IInv, DryRun
  PROVE  Good
<1> DEFINE i == sess.work.task
<1>1. /\ sess.cmd = "run" /\ sess.pc = "agent"
      /\ disk' = WithStatus(sess.st, i, "TODO")
      /\ sess' = [sess EXCEPT !.st = disk', !.pc = "end"]
  BY DEF DryRun
<1>2. StateOk(disk') /\ Marked(sess.st, disk', i, "TODO")
  BY <1>1, Working, WithStatusMarks DEF Statuses
<1>3. Marked(disk, disk', i, "TODO")
  BY <1>1, <1>2, Working DEF Marked, SamePlan
<1>4. SessOk' /\ sess'.st = disk' /\ sess'.pc = "end" /\ sess'.cmd = "run"
  BY <1>1 DEF IInv, SessOk
<1>5. IInv'
  BY <1>2, <1>4 DEF IInv, Idling, Holds, SamePlan
<1> QED
  BY <1>1, <1>3, <1>5, Working, ResultEnds DEF Good

LEMMA AgentGood ==
  ASSUME IInv, call_agent \/ Fails
  PROVE  Good
<1>1. sess.cmd = "run" /\ sess.pc \in {"agent", "judge"} /\ UNCHANGED disk
  BY DEF call_agent, Fails
<1>2. /\ SessOk' /\ sess'.st = sess.st /\ sess'.pc \in {"agent", "judge"} /\ sess'.cmd = "run"
      /\ sess'.work.task = sess.work.task
  BY <1>1 DEF call_agent, Fails, IInv, SessOk
<1>3. IInv'
  BY <1>1, <1>2, Working DEF IInv, Idling, Holds
<1> QED
  BY <1>1, <1>3, SamePlanStutters DEF Good, SamePlan

LEMMA JudgeGood ==
  ASSUME IInv, Passes \/ Blocks
  PROVE  Good
<1> DEFINE i == sess.work.task
<1>1. PICK s \in Final :
        /\ sess.cmd = "run" /\ sess.pc = "judge" /\ UNCHANGED disk
        /\ sess' = [sess EXCEPT !.pc = "record", !.st = WithStatus(sess.st, i, s)]
  BY DEF Passes, Blocks, Final
<1>2. StateOk(WithStatus(sess.st, i, s)) /\ Marked(sess.st, WithStatus(sess.st, i, s), i, s)
  BY <1>1, Working, WithStatusMarks DEF Statuses
<1>3. /\ SessOk' /\ sess'.st = WithStatus(sess.st, i, s) /\ sess'.pc = "record"
      /\ sess'.cmd = "run" /\ sess'.work.task = i
  BY <1>1 DEF IInv, SessOk
<1>4. Marked(disk, sess'.st, i, s)
  BY <1>1, <1>2, <1>3, Working DEF Marked, SamePlan
<1>5. IInv'
  BY <1>1, <1>2, <1>3, <1>4, Working DEF IInv, Idling, Holds
<1> QED
  BY <1>1, <1>5, SamePlanStutters DEF Good, SamePlan

LEMMA RecordGood ==
  ASSUME IInv, Record
  PROVE  Good
<1> DEFINE i == sess.work.task
<1>1. PICK s \in Final : Marked(disk, sess.st, i, s)
  BY DEF Record, IInv, Holds
<1>2. /\ i \in DOMAIN disk.tasks /\ disk.tasks[i].status = "IN_PROGRESS"
      /\ disk' = sess.st /\ StateOk(sess.st) /\ sess.cmd = "run"
      /\ sess' = [sess EXCEPT !.pc = "checkpoint"]
  BY DEF Record, IInv, Holds
<1>3. /\ SessOk' /\ sess'.st = sess.st /\ sess'.pc = "checkpoint" /\ sess'.cmd = "run"
      /\ sess'.work.task = i
  BY <1>2 DEF IInv, SessOk
<1>4. IInv'
  BY <1>1, <1>2, <1>3 DEF IInv, Idling, Holds, SamePlan, Marked
<1> QED
  BY <1>1, <1>2, <1>4, ResultEnds DEF Good

LEMMA CheckpointGood ==
  ASSUME IInv, checkpoint
  PROVE  Good
<1> DEFINE i == sess.work.task
           w == sess.st.tasks[i].wave
<1>1. /\ SamePlan(disk, sess.st) /\ StateOk(sess.st) /\ StateOk(disk) /\ i \in DOMAIN disk.tasks
      /\ sess.cmd = "run"
  BY DEF checkpoint, IInv, Holds
<1>2. CASE sess' = [sess EXCEPT !.pc = "pick", !.work = NoWork] /\ UNCHANGED disk
  <2>1. SessOk' /\ sess'.st = sess.st /\ sess'.pc = "pick" /\ sess'.cmd = "run"
    BY <1>1, <1>2 DEF IInv, SessOk, NoWork
  <2>2. IInv'
    BY <1>1, <1>2, <2>1 DEF IInv, Idling, Holds
  <2> QED
    BY <1>2, <2>2, SamePlanStutters DEF Good, SamePlan
<1>3. CASE \E result \in {"PASSED", "FAILED"} :
             /\ ~WaveOpen(sess.st, w) /\ w \notin DOMAIN sess.st.checks
             /\ disk' = Checked(sess.st, w, result)
             /\ sess' = [sess EXCEPT !.st = disk', !.pc = "pick", !.work = NoWork]
  <2>1. PICK result \in {"PASSED", "FAILED"} :
             /\ ~WaveOpen(sess.st, w) /\ w \notin DOMAIN sess.st.checks
             /\ disk' = Checked(sess.st, w, result)
             /\ sess' = [sess EXCEPT !.st = disk', !.pc = "pick", !.work = NoWork]
    BY <1>3
  <2>2. /\ StateOk(disk') /\ disk'.tasks = sess.st.tasks
        /\ disk'.checks = [v \in DOMAIN sess.st.checks \cup {w} |->
                             IF v = w THEN result ELSE sess.st.checks[v]]
    BY <1>1, <2>1, CheckedAdds
  <2>3. SessOk' /\ sess'.st = disk' /\ sess'.pc = "pick" /\ sess'.cmd = "run"
    BY <1>1, <2>1 DEF IInv, SessOk, NoWork
  <2>4. IInv'
    BY <2>2, <2>3 DEF IInv, Idling, Holds, SamePlan
  <2>5. ~WaveOpen(disk, w) /\ w = disk.tasks[i].wave
    BY <1>1, <2>1 DEF WaveOpen, SamePlan
  <2>6. Waves!Next
    BY <1>1, <2>1, <2>2, <2>5, CheckpointChecks DEF SamePlan
  <2> QED
    BY <2>4, <2>6 DEF Good
<1> QED
  BY <1>2, <1>3 DEF checkpoint

LEMMA NothingReadyGood ==
  ASSUME IInv, NothingReady
  PROVE  Good
<1>1. /\ sess.cmd = "run" /\ SamePlan(disk, sess.st) /\ UNCHANGED disk
      /\ sess' = [sess EXCEPT !.pc = "end"]
  BY DEF NothingReady, IInv, Holds
<1>2. SessOk' /\ sess'.st = sess.st /\ sess'.pc = "end" /\ sess'.cmd = "run"
  BY <1>1 DEF IInv, SessOk
<1>3. IInv'
  BY <1>1, <1>2 DEF IInv, Idling, Holds
<1> QED
  BY <1>1, <1>3, SamePlanStutters DEF Good, SamePlan

LEMMA DieGood ==
  ASSUME IInv, Die
  PROVE  Good
<1>1. UNCHANGED disk /\ sess' = Idle
  BY DEF Die
<1>2. IInv'
  BY <1>1, EndsIdle DEF IInv
<1> QED
  BY <1>1, <1>2, SamePlanStutters DEF Good, SamePlan

LEMMA NextGood ==
  IInv /\ [Next]_vars => Good
<1> SUFFICES ASSUME IInv, [Next]_vars PROVE Good
  OBVIOUS
<1>1. CASE UNCHANGED vars
  <2>1. UNCHANGED <<disk, sess>>
    BY <1>1 DEF vars
  <2>2. IInv'
    BY <2>1 DEF IInv, Idling, Holds, StateOk, SessOk
  <2> QED
    BY <2>1, <2>2, SamePlanStutters DEF Good, SamePlan
<1>2. CASE RunSteps
  BY <1>2, PickGood, DryRunGood, AgentGood, JudgeGood, RecordGood, CheckpointGood,
     NothingReadyGood, SaveGood DEF RunSteps
<1>3. CASE CommandSteps
  BY <1>2, <1>3, WorkGood, SaveGood, PlanGood DEF CommandSteps
<1>4. CASE Next
  BY <1>3, <1>4, QuickCommandsGood, StartsGood, PlanGood, DieGood DEF Next
<1> QED
  BY <1>1, <1>4

\* What a command holds is what state.json says, but for the result it is about
\* to save (run.py:216, 255; state.py:38-41).
THEOREM CommandsHoldTheFile == Spec => []IInv
<1>1. Init => IInv
  BY InitIsGood
<1>2. IInv /\ [Next]_vars => IInv'
  BY NextGood DEF Good
<1> QED
  BY <1>1, <1>2, PTL DEF Spec

\* The executor, its saves, its deaths and every other command keep the order
\* of the waves (run.py:207-271).
THEOREM TaskKeepsWaves == Spec => WavesKept
<1>1. Init => Waves!Init
  BY InitIsGood
<1>2. IInv /\ [Next]_vars => [Waves!Next]_(Waves!vars)
  BY NextGood DEF Good
<1> QED
  BY <1>1, <1>2, CommandsHoldTheFile, PTL DEF Spec, WavesKept, Waves!Spec

-----------------------------------------------------------------------------
\* Unfinished attempts: what is kept of the files before a task holds none that
\* a dead command did not leave, so what is written back holds none either

Clean == \A f \in Files : tree[f] = "attempt" => f \in lost

Kept ==
  sess.pc \in {"agent", "judge"} =>
    /\ sess.dry => Clean
    /\ DOMAIN sess.work.before = sess.st.tasks[sess.work.task].touches
    /\ \A f \in DOMAIN sess.work.before : sess.work.before[f] = "attempt" /\ f \in Files => f \in lost

AInv == IInv /\ Kept /\ OnlyTheDeadLeaveAttempts

LEMMA InitAttempts == Init => AInv
<1> SUFFICES ASSUME Init PROVE AInv
  OBVIOUS
<1>1. sess = Idle /\ \A f \in Files : tree[f] # "attempt"
  BY DEF Init
<1>2. sess.pc = "idle"
  BY <1>1 DEF Idle
<1> QED
  BY <1>1, <1>2, InitIsGood DEF AInv, Kept, OnlyTheDeadLeaveAttempts

\* A step outside the work on a task that leaves the files alone.
LEMMA ElsewhereAttempts ==
  ASSUME AInv, IInv', sess.pc \notin {"agent", "judge"}, sess'.pc \notin {"agent", "judge"},
         UNCHANGED tree, lost \subseteq lost'
  PROVE  AInv'
  BY DEF AInv, Kept, OnlyTheDeadLeaveAttempts

LEMMA PickAttempts ==
  ASSUME AInv, IInv', Pick
  PROVE  AInv'
<1>1. PICK i \in DOMAIN sess.st.tasks :
        LET st == WithStatus(sess.st, i, "IN_PROGRESS")
        IN  sess' = [sess EXCEPT !.st = st, !.pc = "agent",
                       !.work = [task |-> i, attempt |-> 1, partial |-> FALSE,
                                 before |-> [f \in st.tasks[i].touches |-> tree[f]]]]
  BY DEF Pick
<1>2. UNCHANGED <<tree, lost>> /\ sess.pc = "pick"
  BY DEF Pick
<1> DEFINE st == WithStatus(sess.st, i, "IN_PROGRESS")
           before == [f \in st.tasks[i].touches |-> tree[f]]
<1>3. sess' = [sess EXCEPT !.st = st, !.pc = "agent",
                 !.work = [task |-> i, attempt |-> 1, partial |-> FALSE, before |-> before]]
  BY <1>1
<1>4. DOMAIN before = st.tasks[i].touches /\ \A f \in DOMAIN before : before[f] = tree[f]
  OBVIOUS
<1> HIDE DEF st, before
<1>5. sess'.st = st /\ sess'.pc = "agent" /\ sess'.work.task = i /\ sess'.work.before = before
  BY <1>3 DEF AInv, IInv, SessOk
<1>6. Clean /\ Clean'
  BY <1>2 DEF AInv, OnlyTheDeadLeaveAttempts, Clean
<1>7. Kept'
  BY <1>2, <1>4, <1>5, <1>6 DEF Kept, Clean
<1> QED
  BY <1>6, <1>7 DEF AInv, OnlyTheDeadLeaveAttempts, Clean

LEMMA AgentAttempts ==
  ASSUME AInv, IInv', call_agent
  PROVE  AInv'
<1>1. PICK written \in SUBSET sess.st.tasks[sess.work.task].touches, partial \in BOOLEAN :
        /\ tree' = [f \in Files |-> IF f \in written THEN "attempt" ELSE tree[f]]
        /\ sess' = [sess EXCEPT !.pc = "judge", !.work.partial = partial]
  BY DEF call_agent
<1>2. sess.pc = "agent" /\ ~sess.dry /\ UNCHANGED lost
  BY DEF call_agent
<1>3. /\ sess'.st = sess.st /\ sess'.pc = "judge" /\ sess'.work.task = sess.work.task
      /\ sess'.work.before = sess.work.before /\ sess'.dry = sess.dry
  BY <1>1 DEF AInv, IInv, SessOk
<1>4. Kept'
  BY <1>2, <1>3 DEF AInv, Kept
<1>5. ASSUME NEW f \in Files, tree'[f] = "attempt"
      PROVE  f \in lost' \/ f \in DOMAIN sess'.work.before
  BY <1>1, <1>2, <1>3, <1>5 DEF AInv, Kept, OnlyTheDeadLeaveAttempts
<1> QED
  BY <1>3, <1>4, <1>5 DEF AInv, OnlyTheDeadLeaveAttempts

LEMMA FailsAttempts ==
  ASSUME AInv, IInv', Fails
  PROVE  AInv'
<1>1. sess.pc = "judge" /\ UNCHANGED <<lost, tree>>
  BY DEF Fails
<1>2. /\ sess'.st = sess.st /\ sess'.pc = "agent" /\ sess'.work.task = sess.work.task
      /\ sess'.work.before = sess.work.before /\ sess'.dry = sess.dry
  BY DEF Fails, AInv, IInv, SessOk
<1> QED
  BY <1>1, <1>2 DEF AInv, Kept, Clean, OnlyTheDeadLeaveAttempts

\* Passes leaves no attempt in the task's files, Blocks writes back what was kept.
LEMMA JudgeAttempts ==
  ASSUME AInv, IInv', Passes \/ Blocks
  PROVE  AInv'
<1> DEFINE before == sess.work.before
<1>1. sess.pc = "judge" /\ UNCHANGED lost
  BY DEF Passes, Blocks
<1>2. sess'.pc = "record"
  BY DEF Passes, Blocks, AInv, IInv, SessOk
<1>3. ASSUME NEW f \in Files, tree'[f] = "attempt"
      PROVE  f \in lost
  <2>1. CASE Passes
    BY <1>1, <1>3, <2>1 DEF Passes, AInv, OnlyTheDeadLeaveAttempts
  <2>2. CASE Blocks
    <3>1. tree' = [g \in Files |-> IF g \in DOMAIN before THEN before[g] ELSE tree[g]]
      BY <2>2 DEF Blocks
    <3>2. CASE f \in DOMAIN before
      BY <1>1, <1>3, <3>1, <3>2 DEF AInv, Kept
    <3>3. CASE f \notin DOMAIN before
      BY <1>1, <1>3, <3>1, <3>3 DEF AInv, OnlyTheDeadLeaveAttempts
    <3> QED
      BY <3>2, <3>3
  <2> QED
    BY <2>1, <2>2
<1> QED
  BY <1>1, <1>2, <1>3 DEF AInv, Kept, OnlyTheDeadLeaveAttempts

LEMMA DryRunAttempts ==
  ASSUME AInv, IInv', DryRun
  PROVE  AInv'
<1>1. Clean /\ UNCHANGED <<tree, lost>>
  BY DEF DryRun, AInv, Kept
<1>2. sess'.pc = "end"
  BY DEF DryRun, AInv, IInv, SessOk
<1> QED
  BY <1>1, <1>2 DEF AInv, Kept, Clean, OnlyTheDeadLeaveAttempts

LEMMA DieAttempts ==
  ASSUME AInv, IInv', Die
  PROVE  AInv'
<1>1. sess'.pc = "idle" /\ UNCHANGED tree
  BY DEF Die, Idle
<1>2. lost' = IF sess.pc \in {"agent", "judge"} THEN lost \cup DOMAIN sess.work.before ELSE lost
  BY DEF Die
<1> QED
  BY <1>1, <1>2 DEF AInv, Kept, OnlyTheDeadLeaveAttempts

LEMMA NextAttempts == AInv /\ [Next]_vars => AInv'
<1> SUFFICES ASSUME AInv, [Next]_vars PROVE AInv'
  OBVIOUS
<1>1. IInv'
  BY NextGood DEF AInv, Good
<1>2. CASE UNCHANGED vars
  BY <1>1, <1>2 DEF vars, AInv, Kept, Clean, OnlyTheDeadLeaveAttempts
<1>3. CASE cmd_init \/ cmd_discover \/ cmd_scope \/ cmd_seams
  <2>1. UNCHANGED <<sess, tree, lost>>
    BY <1>3 DEF cmd_init, cmd_discover, cmd_scope, cmd_seams, InOneSave
  <2> QED
    BY <1>1, <2>1 DEF AInv, Kept, Clean, OnlyTheDeadLeaveAttempts
<1>4. CASE StartBaseline \/ StartKb \/ StartCoverage \/ StartPlan \/ StartRun
  <2>1. sess.cmd = "none" /\ UNCHANGED <<tree, lost>>
    BY <1>4 DEF StartBaseline, StartKb, StartCoverage, StartPlan, StartRun, Begin
  <2>2. sess'.pc \in {"work", "access", "approve", "pick"}
    BY <1>4 DEF StartBaseline, StartKb, StartCoverage, StartPlan, StartRun, Begin, Idle
  <2> QED
    BY <1>1, <2>1, <2>2, ElsewhereAttempts DEF AInv, IInv, Idling
<1>5. CASE BaselineRan \/ KnowledgeBuilt \/ CoverageImported \/ Save \/ decide_access \/ Approve
             \/ Record \/ checkpoint \/ NothingReady \/ EndRun
  <2>1. sess.pc \notin {"agent", "judge"} /\ UNCHANGED <<tree, lost>>
    BY <1>5 DEF BaselineRan, KnowledgeBuilt, CoverageImported, SaveKb, Save, decide_access, Approve,
                Record, checkpoint, NothingReady, EndRun
  <2>2. sess'.pc \in {"save", "idle", "approve", "checkpoint", "pick", "end"}
    <3>1. CASE BaselineRan \/ KnowledgeBuilt \/ CoverageImported
      BY <3>1 DEF BaselineRan, KnowledgeBuilt, CoverageImported, SaveKb, AInv, IInv, SessOk
    <3>2. CASE Save \/ Approve \/ EndRun
      BY <3>2 DEF Save, Approve, EndRun, Idle
    <3>3. CASE decide_access \/ Record \/ NothingReady
      BY <3>3 DEF decide_access, Record, NothingReady, AInv, IInv, SessOk
    <3>4. CASE checkpoint
      BY <3>4 DEF checkpoint, AInv, IInv, SessOk
    <3> QED
      BY <1>5, <3>1, <3>2, <3>3, <3>4
  <2> QED
    BY <1>1, <2>1, <2>2, ElsewhereAttempts
<1> QED
  BY <1>1, <1>2, <1>3, <1>4, <1>5, PickAttempts, AgentAttempts, FailsAttempts, JudgeAttempts,
     DryRunAttempts, DieAttempts DEF Next, CommandSteps, RunSteps

\* A task that ends BLOCKED leaves the files as they were: only a command that
\* dies leaves an unfinished attempt (run.py:219, 241-253).
THEOREM NoAttemptLeft == Spec => []OnlyTheDeadLeaveAttempts
<1>1. AInv => OnlyTheDeadLeaveAttempts
  BY DEF AInv
<1> QED
  BY <1>1, InitAttempts, NextAttempts, PTL DEF Spec

-----------------------------------------------------------------------------
\* The decided seams

SInv ==
  /\ uses \in [Commands -> Nat]
  /\ DOMAIN sess.kb = Need
  /\ sess.pc = "access" => sess.kb["access"] = Undecided

SInvAll == IInv /\ SInv /\ DOMAIN kb = Need

LEMMA InitSeams == Init => SInvAll
<1> SUFFICES ASSUME Init PROVE SInvAll
  OBVIOUS
<1>1. sess.pc = "idle" /\ DOMAIN sess.kb = Need
  BY DEF Init, Idle
<1> QED
  BY <1>1, InitIsGood DEF Init, SInvAll, SInv

\* A step that leaves the decisions alone.
LEMMA SameSeams ==
  ASSUME SInvAll, IInv', UNCHANGED kb, uses' \in [Commands -> Nat],
         DOMAIN sess'.kb = Need, sess'.pc = "access" => sess'.kb["access"] = Undecided
  PROVE  SInvAll' /\ SeamStep
  BY DEF SInvAll, SInv, SeamStep

LEMMA UseCounts ==
  ASSUME uses \in [Commands -> Nat], NEW cmd \in Commands, uses' = [uses EXCEPT ![cmd] = @ + 1]
  PROVE  uses' \in [Commands -> Nat] /\ uses'[cmd] # uses[cmd]
  OBVIOUS

LEMMA SetSeams ==
  ASSUME SInvAll, IInv', cmd_seams
  PROVE  SInvAll' /\ SeamStep
<1>1. UNCHANGED sess /\ uses' = [uses EXCEPT !["seams"] = @ + 1] /\ DOMAIN kb' = DOMAIN kb
  BY DEF cmd_seams
<1>2. uses' \in [Commands -> Nat] /\ uses'["seams"] # uses["seams"]
  BY <1>1, UseCounts DEF SInvAll, SInv, Commands
<1> QED
  BY <1>1, <1>2 DEF SInvAll, SInv, SeamStep

\* A command that works from its own copy: a decision it saw, it keeps.
LEMMA CopySeams ==
  ASSUME SInvAll, IInv', BaselineRan \/ KnowledgeBuilt \/ CoverageImported
  PROVE  SInvAll' /\ SeamStep
<1>1. /\ UNCHANGED uses /\ kb' \in {sess.kb, merge_detected(sess.kb)}
      /\ sess'.pc = "save" /\ sess'.kb = sess.kb
  BY DEF BaselineRan, KnowledgeBuilt, CoverageImported, SaveKb, SInvAll, IInv, SessOk
<1>2. DOMAIN kb' = Need /\ \A n \in Need : sess.kb[n] # Undecided => kb'[n] = sess.kb[n]
  BY <1>1 DEF SInvAll, SInv, merge_detected
<1> QED
  BY <1>1, <1>2 DEF SInvAll, SInv, SeamStep

\* The question on static code is asked when nothing is decided.
LEMMA AskSeams ==
  ASSUME SInvAll, IInv', decide_access
  PROVE  SInvAll' /\ SeamStep
<1>1. PICK t : kb' = [sess.kb EXCEPT !["access"] = t]
  BY DEF decide_access
<1>2. sess.pc = "access" /\ UNCHANGED uses /\ sess' = [sess EXCEPT !.pc = "approve"]
  BY DEF decide_access
<1>3. sess'.pc = "approve" /\ sess'.kb = sess.kb
  BY <1>2 DEF SInvAll, IInv, SessOk
<1>4. DOMAIN kb' = Need /\ \A n \in Need : n # "access" => kb'[n] = sess.kb[n]
  BY <1>1 DEF SInvAll, SInv
<1>5. sess.kb["access"] = Undecided
  BY <1>2 DEF SInvAll, SInv
<1>6. SeamStep
  BY <1>4, <1>5 DEF SeamStep
<1> QED
  BY <1>2, <1>3, <1>4, <1>6 DEF SInvAll, SInv

LEMMA BeginSeams ==
  ASSUME SInvAll, IInv', StartBaseline \/ StartKb \/ StartCoverage \/ StartPlan \/ StartRun
  PROVE  SInvAll' /\ SeamStep
<1>1. PICK cmd \in {"baseline", "kb", "coverage", "plan", "run"} : Use(cmd)
  BY DEF StartBaseline, StartKb, StartCoverage, StartPlan, StartRun, Begin
<1>2. uses' \in [Commands -> Nat]
  BY <1>1, UseCounts DEF Use, SInvAll, SInv, Commands
<1>3. UNCHANGED kb /\ sess'.kb = kb
  BY DEF StartBaseline, StartKb, StartCoverage, StartPlan, StartRun, Begin, Idle
<1>4. sess'.pc = "access" => kb["access"] = Undecided
  <2>1. CASE StartPlan
    BY <2>1 DEF StartPlan, Idle
  <2>2. CASE StartBaseline \/ StartKb \/ StartCoverage
    <3>1. sess'.pc = "work"
      BY <2>2 DEF StartBaseline, StartKb, StartCoverage, Begin, Idle
    <3> QED
      BY <3>1
  <2>3. CASE StartRun
    <3>1. sess'.pc = "pick"
      BY <2>3 DEF StartRun, Idle
    <3> QED
      BY <3>1
  <2> QED
    BY <2>1, <2>2, <2>3
<1> QED
  BY <1>2, <1>3, <1>4, SameSeams DEF SInvAll

LEMMA NextSeams == SInvAll /\ [Next]_vars => SInvAll' /\ [SeamStep]_vars
<1> SUFFICES ASSUME SInvAll, [Next]_vars PROVE SInvAll' /\ [SeamStep]_vars
  OBVIOUS
<1>1. IInv'
  BY NextGood DEF SInvAll, Good
<1>2. CASE UNCHANGED vars
  BY <1>1, <1>2 DEF vars, SInvAll, SInv
<1>3. CASE cmd_init \/ cmd_discover \/ cmd_scope
  <2>1. PICK cmd \in {"init", "discover", "scope"} : Use(cmd)
    BY <1>3 DEF cmd_init, cmd_discover, cmd_scope, InOneSave
  <2>2. uses' \in [Commands -> Nat]
    BY <2>1, UseCounts DEF Use, SInvAll, SInv, Commands
  <2>3. UNCHANGED <<kb, sess>>
    BY <1>3 DEF cmd_init, cmd_discover, cmd_scope, InOneSave
  <2> QED
    BY <1>1, <2>2, <2>3, SameSeams DEF SInvAll, SInv
<1>4. CASE Save \/ Approve \/ EndRun \/ Die
  <2>1. UNCHANGED <<kb, uses>> /\ sess' = Idle
    BY <1>4 DEF Save, Approve, EndRun, Die
  <2>2. sess'.pc = "idle" /\ DOMAIN sess'.kb = Need
    BY <2>1 DEF Idle
  <2> QED
    BY <1>1, <2>1, <2>2, SameSeams DEF SInvAll, SInv
<1>5. CASE Pick \/ DryRun \/ call_agent \/ Passes \/ Fails \/ Blocks \/ Record \/ checkpoint \/ NothingReady
  <2>1. UNCHANGED <<kb, uses>>
    BY <1>5 DEF Pick, DryRun, call_agent, Passes, Fails, Blocks, Record, checkpoint, NothingReady
  <2>2. sess'.kb = sess.kb /\ sess'.pc # "access"
    BY <1>5 DEF Pick, DryRun, call_agent, Passes, Fails, Blocks, Record, checkpoint, NothingReady,
                SInvAll, IInv, SessOk
  <2> QED
    BY <1>1, <2>1, <2>2, SameSeams DEF SInvAll, SInv
<1> QED
  BY <1>1, <1>2, <1>3, <1>4, <1>5, SetSeams, CopySeams, AskSeams, BeginSeams
     DEF Next, CommandSteps, RunSteps

\* What the user or the existing tests decided stays, but for `ut seams --set`
\* and a stale copy (seams.py:76-86, __main__.py:279-309).
THEOREM SeamAlwaysKept == Spec => SeamKept
  BY InitSeams, NextSeams, PTL DEF Spec, SeamKept

-----------------------------------------------------------------------------
\* The planner: what is sorted, the places, the tasks

\* A set of pairs that orders a set strictly.
Orders(before, S) ==
  /\ \A x \in S : <<x, x>> \notin before
  /\ \A x, y \in S : <<x, y>> \in before \/ x = y \/ <<y, x>> \in before
  /\ \A x, y, z \in S : <<x, y>> \in before /\ <<y, z>> \in before => <<x, z>> \in before

LEMMA EvaluatedSame ==
  ASSUME NEW n \in Nat, NEW T, NEW f \in [1..n -> T]
  PROVE  Evaluated(f) = f
<1>1. f \in Seq(T) /\ Len(f) = n
  OBVIOUS
<1> QED BY <1>1 DEF Evaluated

\* An element stands at the place that the number of elements before it says.
LEMMA SortedLists ==
  ASSUME NEW S, IsFiniteSet(S), NEW before, Orders(before, S)
  PROVE  /\ Cardinality(S) \in Nat
         /\ Sorted(S, before) \in [1..Cardinality(S) -> S]
         /\ \A m, n \in 1..Cardinality(S) :
              m < n => <<Sorted(S, before)[m], Sorted(S, before)[n]>> \in before
         /\ \A x \in S : \E n \in 1..Cardinality(S) : Sorted(S, before)[n] = x
<1> DEFINE N == Cardinality(S)
           below(x) == {y \in S : <<y, x>> \in before}
           T == 0..(N - 1)
           rank == [x \in S |-> Cardinality(below(x))]
           list == [n \in 1..N |-> CHOOSE x \in S : Cardinality(below(x)) = n - 1]
<1>1. N \in Nat
  BY FS_CardinalityType
<1>2. ASSUME NEW x \in S
      PROVE  IsFiniteSet(below(x)) /\ Cardinality(below(x)) \in T
  <2>1. below(x) \subseteq S \ {x}
    BY DEF Orders
  <2>2. x \in S /\ IsFiniteSet(S \ {x}) /\ Cardinality(S \ {x}) = N - 1
    BY FS_RemoveElement
  <2>3. IsFiniteSet(below(x)) /\ Cardinality(below(x)) <= N - 1
    <3> HIDE DEF below
    <3> QED BY <2>1, <2>2, FS_Subset
  <2>4. Cardinality(below(x)) \in Nat
    BY <2>3, FS_CardinalityType
  <2> HIDE DEF below, N
  <2> QED BY <1>1, <2>3, <2>4
<1>3. ASSUME NEW x \in S, NEW y \in S, <<x, y>> \in before
      PROVE  Cardinality(below(x)) < Cardinality(below(y))
  <2>1. below(x) \subseteq below(y) /\ x \in below(y) /\ x \notin below(x)
    BY <1>3 DEF Orders
  <2>2. IsFiniteSet(below(x)) /\ IsFiniteSet(below(y))
    BY <1>2
  <2>3. Cardinality(below(x)) \in Nat /\ Cardinality(below(y)) \in Nat
    BY <2>2, FS_CardinalityType
  <2> HIDE DEF below
  <2>4. below(x) \in SUBSET below(y)
    BY <2>1
  <2>5. /\ Cardinality(below(x)) <= Cardinality(below(y))
        /\ Cardinality(below(y)) = Cardinality(below(x)) => below(y) = below(x)
    BY <2>2, <2>4, FS_Subset
  <2> QED BY <2>1, <2>3, <2>5
<1>4. ASSUME NEW x \in S, NEW y \in S, Cardinality(below(x)) = Cardinality(below(y))
      PROVE  x = y
  <2>1. ~ (Cardinality(below(x)) < Cardinality(below(y))) /\ ~ (Cardinality(below(y)) < Cardinality(below(x)))
    <3>1. Cardinality(below(x)) \in T /\ Cardinality(below(y)) \in T
      BY <1>2
    <3> HIDE DEF below, N
    <3> QED BY <1>1, <1>4, <3>1
  <2> HIDE DEF below
  <2> QED BY <1>3, <2>1 DEF Orders
<1>5. \A n \in 1..N : \E x \in S : Cardinality(below(x)) = n - 1
  <2>1. rank \in [S -> T]
    BY <1>2
  <2>2. rank \in Injection(S, T)
    BY <1>4, <2>1 DEF Injection, IsInjective
  <2>3. IsFiniteSet(T) /\ Cardinality(T) = N
    BY <1>1, FS_Interval
  <2> HIDE DEF T, rank
  <2>4. rank \in Surjection(S, T)
    BY <2>2, <2>3, FS_Injection
  <2>5. \A k \in T : \E x \in S : rank[x] = k
    BY <2>4 DEF Surjection
  <2>6. \A n \in 1..N : n - 1 \in T
    BY <1>1 DEF T
  <2> HIDE DEF below, N
  <2> QED BY <2>5, <2>6 DEF rank
<1>6. \A n \in 1..N : list[n] \in S /\ Cardinality(below(list[n])) = n - 1
  <2> HIDE DEF below, N
  <2> QED BY <1>5
<1>7. ASSUME NEW m \in 1..N, NEW n \in 1..N, m < n
      PROVE  <<list[m], list[n]>> \in before
  <2>1. /\ list[m] \in S /\ Cardinality(below(list[m])) = m - 1
        /\ list[n] \in S /\ Cardinality(below(list[n])) = n - 1
    BY <1>6
  <2> HIDE DEF list
  <2>2. ~ (<<list[n], list[m]>> \in before)
    <3> SUFFICES ASSUME <<list[n], list[m]>> \in before PROVE FALSE
      OBVIOUS
    <3>1. Cardinality(below(list[n])) < Cardinality(below(list[m]))
      BY <1>3, <2>1
    <3> HIDE DEF below, N
    <3> QED BY <1>1, <1>7, <2>1, <3>1
  <2>3. list[m] # list[n]
    <3> HIDE DEF below, N
    <3> QED BY <1>1, <1>7, <2>1
  <2> HIDE DEF below
  <2> QED BY <2>1, <2>2, <2>3 DEF Orders
<1>8. ASSUME NEW x \in S PROVE \E n \in 1..N : list[n] = x
  <2> DEFINE n == Cardinality(below(x)) + 1
  <2>1. Cardinality(below(x)) \in T
    BY <1>2
  <2>2. n \in 1..N /\ n - 1 = Cardinality(below(x))
    <3> HIDE DEF below, N
    <3> QED BY <1>1, <2>1
  <2>3. list[n] \in S /\ Cardinality(below(list[n])) = Cardinality(below(x))
    <3> HIDE DEF list, below, n
    <3> QED BY <1>6, <2>2
  <2> HIDE DEF list, n
  <2>4. list[n] = x
    BY <1>4, <2>3
  <2> QED BY <2>2, <2>4
<1>9. list \in [1..N -> S]
  <2>1. \A n \in 1..N : (CHOOSE x \in S : Cardinality(below(x)) = n - 1) \in S
    <3> HIDE DEF below, N
    <3> QED BY <1>5
  <2> HIDE DEF below, N
  <2> QED BY <2>1
<1>10. Sorted(S, before) = list
  <2>1. Evaluated(list) = list
    <3> HIDE DEF list, N
    <3> QED BY <1>1, <1>9, EvaluatedSame
  <2> QED BY <2>1 DEF Sorted
<1> HIDE DEF list
<1> QED BY <1>1, <1>7, <1>8, <1>9, <1>10

\* A set of numbers that is not empty has a least one.
LEMMA LeastIn ==
  ASSUME NEW n \in Nat, NEW S \in SUBSET (1..n), S # {}
  PROVE  Min(S) \in S /\ \A y \in S : Min(S) <= y
<1> DEFINE up == {xy \in S \X S : xy[1] < xy[2]}
           list == Sorted(S, up)
<1>1. Orders(up, S)
  <2>1. \A x \in S : x \in Int
    OBVIOUS
  <2>2. \A x, y \in S : <<x, y>> \in up <=> x < y
    OBVIOUS
  <2> HIDE DEF up
  <2> QED BY <2>1, <2>2 DEF Orders
<1>2. IsFiniteSet(S)
  <2>1. IsFiniteSet(1..n)
    BY FS_Interval
  <2> QED BY <2>1, FS_Subset
<1>3. \A x, y \in S : <<x, y>> \in up => x < y
  OBVIOUS
<1> HIDE DEF up
<1>4. /\ Cardinality(S) \in Nat /\ list \in [1..Cardinality(S) -> S]
      /\ \A m, k \in 1..Cardinality(S) : m < k => <<list[m], list[k]>> \in up
      /\ \A x \in S : \E k \in 1..Cardinality(S) : list[k] = x
  BY <1>1, <1>2, SortedLists
<1> HIDE DEF list
<1>5. 1 \in 1..Cardinality(S)
  <2>1. Cardinality(S) # 0
    BY <1>2, FS_EmptySet
  <2> QED BY <1>4, <2>1
<1>6. list[1] \in S /\ \A y \in S : list[1] <= y
  <2>1. \A x \in S : x \in Int
    OBVIOUS
  <2> SUFFICES ASSUME NEW y \in S PROVE list[1] <= y
    BY <1>4, <1>5
  <2>2. PICK k \in 1..Cardinality(S) : list[k] = y
    BY <1>4
  <2>3. CASE k = 1
    BY <1>4, <1>5, <2>1, <2>2, <2>3
  <2>4. CASE k # 1
    <3>1. 1 < k
      BY <1>4, <2>4
    <3>2. <<list[1], list[k]>> \in up /\ list[1] \in S /\ list[k] \in S
      BY <1>4, <1>5, <3>1
    <3>3. list[1] < list[k] /\ list[1] \in Int /\ list[k] \in Int
      BY <1>3, <2>1, <3>2
    <3> QED BY <2>2, <3>3
  <2> QED BY <2>3, <2>4
<1> QED BY <1>6 DEF Min
-----------------------------------------------------------------------------
\* Items take places in the groups

LEMMA EvaluatedFunction ==
  ASSUME NEW n \in Nat, NEW f, f = [i \in 1..n |-> f[i]]
  PROVE  Evaluated(f) = f
<1> DEFINE T == {f[i] : i \in 1..n}
<1>1. f \in [1..n -> T]
  OBVIOUS
<1> HIDE DEF T
<1> QED BY <1>1, EvaluatedSame

\* What the planner needs of a place.
IsEntry(e) ==
  /\ e.file \in Files /\ e.type \in Types
  /\ e.mocks \subseteq Files /\ e.home \in Files \cup {NoFile}
  /\ e.weight \in Nat

LEMMA WeightIs ==
  ASSUME NEW w, IsItem(w), NEW type
  PROVE  Weight(w, type) \in Nat
<1>1. w.cases \in Nat /\ w.gaps \in Nat /\ 1 \in Nat
  BY DEF IsItem
<1> QED BY <1>1, Zenon DEF Weight

LEMMA EntryIs ==
  ASSUME NEW w, IsItem(w), NEW f \in Files, NEW type \in Types, NEW header
  PROVE  IsEntry(Entry(w, f, type, header))
BY WeightIs DEF IsItem, IsEntry, Entry

LEMMA CatTyped == \A cat : CatToType(cat) \in Types
BY DEF CatToType, Types

LEMMA EntriesAre ==
  ASSUME NEW w, IsItem(w)
  PROVE  /\ \E n \in Nat : DOMAIN Entries(w) = 1..n
         /\ \A k \in DOMAIN Entries(w) : IsEntry(Entries(w)[k])
<1>1. CASE ~Planned(w) \/ Unreferenced(w)
  <2>1. Entries(w) = <<>>
    BY <1>1 DEF Entries
  <2>2. DOMAIN <<>> = 1..0 /\ 1..0 = {}
    OBVIOUS
  <2> QED BY <2>1, <2>2
<1>2. CASE ~(~Planned(w) \/ Unreferenced(w)) /\ w.kind = "baseline"
  <2> DEFINE e == Entry(w, w.file, IF w.cat = "E" THEN "fix-build" ELSE "fix-run", TRUE)
  <2>1. Entries(w) = <<e>>
    BY <1>2 DEF Entries
  <2>2. IsEntry(e)
    BY <1>2, EntryIs DEF IsItem, Types
  <2> HIDE DEF e
  <2> QED BY <2>1, <2>2
<1>3. CASE ~(~Planned(w) \/ Unreferenced(w)) /\ w.kind = "type"
  <2> DEFINE type(i) == IF w.includers[i] \in MockFiles THEN "fix-mocks" ELSE "update-tests"
  <2>1. Entries(w) = [i \in 1..Len(w.includers) |-> Entry(w, w.includers[i], type(i), TRUE)]
    BY <1>3 DEF Entries
  <2>2. w.includers \in Seq(Files)
    BY DEF IsItem
  <2>3. Len(w.includers) \in Nat /\ \A i \in 1..Len(w.includers) : w.includers[i] \in Files
    BY <2>2
  <2>4. \A i : type(i) \in Types
    BY DEF Types
  <2> HIDE DEF type
  <2>5. \A i \in 1..Len(w.includers) : IsEntry(Entry(w, w.includers[i], type(i), TRUE))
    BY <2>3, <2>4, EntryIs
  <2> QED BY <2>1, <2>3, <2>5
<1>4. CASE ~(~Planned(w) \/ Unreferenced(w)) /\ w.kind # "type" /\ w.kind # "baseline"
  <2> DEFINE e == Entry(w, w.file, CatToType(w.cat), FALSE)
  <2>1. Entries(w) = <<e>>
    BY <1>4 DEF Entries
  <2>2. w.file \in Files
    BY <1>4 DEF IsItem
  <2>3. IsEntry(e)
    BY <2>2, EntryIs, CatTyped
  <2> HIDE DEF e
  <2> QED BY <2>1, <2>3
<1> QED BY <1>1, <1>2, <1>3, <1>4

\* The places of a list of items, and their order.
PlaceSet(items) == UNION {{n} \X DOMAIN Entries(items[n]) : n \in DOMAIN items}
PlaceOrder(items) ==
  {pq \in PlaceSet(items) \X PlaceSet(items) :
     \/ pq[1][1] < pq[2][1]
     \/ pq[1][1] = pq[2][1] /\ pq[1][2] < pq[2][2]}

Items(items) == IsList(items) /\ \A i \in 1..Len(items) : IsItem(items[i])

LEMMA PlacesFinite ==
  ASSUME NEW items, Items(items)
  PROVE  /\ IsFiniteSet(PlaceSet(items))
         /\ \A p \in PlaceSet(items) : /\ p = <<p[1], p[2]>> /\ p[1] \in Nat /\ p[2] \in Nat
                                       /\ p[1] \in 1..Len(items) /\ p[2] \in DOMAIN Entries(items[p[1]])
         /\ \A n \in 1..Len(items) : \A k \in DOMAIN Entries(items[n]) : <<n, k>> \in PlaceSet(items)
<1> DEFINE N == Len(items)
           of(n) == {n} \X DOMAIN Entries(items[n])
           f == [n \in 1..N |-> of(n)]
           family == {of(n) : n \in 1..N}
<1>1. N \in Nat /\ DOMAIN items = 1..N /\ \A n \in 1..N : IsItem(items[n])
  BY DEF Items, IsList
<1>2. PlaceSet(items) = UNION family
  BY <1>1 DEF PlaceSet
<1>3. ASSUME NEW n \in 1..N
      PROVE  IsFiniteSet(of(n)) /\ \E m \in Nat : DOMAIN Entries(items[n]) = 1..m
  <2>1. PICK m \in Nat : DOMAIN Entries(items[n]) = 1..m
    BY <1>1, EntriesAre
  <2>2. IsFiniteSet(1..m)
    BY FS_Interval
  <2>3. IsFiniteSet({n} \X (1..m))
    <3>1. IsFiniteSet({n})
      BY FS_Singleton
    <3> QED BY <2>2, <3>1, FS_Product
  <2> QED BY <2>1, <2>3
<1>4. IsFiniteSet(family)
  <2>1. f \in Surjection(1..N, family)
    BY DEF Surjection
  <2>2. IsFiniteSet(1..N)
    BY <1>1, FS_Interval
  <2> HIDE DEF f, family, N
  <2> QED BY <2>1, <2>2, FS_Surjection
<1>5. \A T \in family : IsFiniteSet(T)
  BY <1>3
<1>6. IsFiniteSet(UNION family)
  <2> HIDE DEF family
  <2> QED BY <1>4, <1>5, FS_UNION
<1>7. ASSUME NEW n \in 1..N, NEW k \in DOMAIN Entries(items[n]) PROVE <<n, k>> \in UNION family
  OBVIOUS
<1>8. ASSUME NEW p \in UNION family
      PROVE  /\ p = <<p[1], p[2]>> /\ p[1] \in Nat /\ p[2] \in Nat
             /\ p[1] \in 1..N /\ p[2] \in DOMAIN Entries(items[p[1]])
  <2>1. PICK n \in 1..N : p \in of(n)
    OBVIOUS
  <2>2. PICK m \in Nat : DOMAIN Entries(items[n]) = 1..m
    BY <1>3
  <2>3. p = <<p[1], p[2]>> /\ p[1] = n /\ p[2] \in DOMAIN Entries(items[n])
    BY <2>1
  <2> HIDE DEF family, of
  <2> QED BY <1>1, <2>2, <2>3
<1> HIDE DEF family, of
<1> QED BY <1>2, <1>6, <1>7, <1>8

LEMMA PlacesOrdered ==
  ASSUME NEW items, Items(items)
  PROVE  Orders(PlaceOrder(items), PlaceSet(items))
<1> DEFINE S == PlaceSet(items)
           before == PlaceOrder(items)
<1>1. \A p \in S : p = <<p[1], p[2]>> /\ p[1] \in Nat /\ p[2] \in Nat
  BY PlacesFinite
<1>2. \A p, q \in S : <<p, q>> \in before <=> \/ p[1] < q[1]
                                              \/ p[1] = q[1] /\ p[2] < q[2]
  BY DEF PlaceOrder
<1> HIDE DEF S, before
<1> QED BY <1>1, <1>2 DEF S, before, Orders

\* The list of places, as places of items.
LEMMA PlacesListed ==
  ASSUME NEW items, Items(items)
  PROVE  /\ IsList(Places(items))
         /\ \E order \in [1..Len(Places(items)) -> PlaceSet(items)] :
              /\ \A i \in 1..Len(Places(items)) :
                   Places(items)[i] = Entries(items[order[i][1]])[order[i][2]]
              /\ \A i, j \in 1..Len(Places(items)) : order[i] = order[j] => i = j
              /\ \A p \in PlaceSet(items) : \E i \in 1..Len(Places(items)) : order[i] = p
<1> DEFINE S == PlaceSet(items)
           before == PlaceOrder(items)
           order == Sorted(S, before)
           N == Cardinality(S)
           f == [i \in 1..N |-> Entries(items[order[i][1]])[order[i][2]]]
<1>1. /\ N \in Nat /\ order \in [1..N -> S]
      /\ \A i, j \in 1..N : i < j => <<order[i], order[j]>> \in before
      /\ \A p \in S : \E i \in 1..N : order[i] = p
  BY PlacesFinite, PlacesOrdered, SortedLists
<1>2. Places(items) = Evaluated([i \in DOMAIN order |-> Entries(items[order[i][1]])[order[i][2]]])
  BY DEF Places, PlaceSet, PlaceOrder
<1>3. DOMAIN order = 1..N
  BY <1>1
<1>4. Places(items) = Evaluated(f)
  BY <1>2, <1>3
<1>5. f = [i \in 1..N |-> f[i]] /\ \A i \in 1..N : f[i] = Entries(items[order[i][1]])[order[i][2]]
  OBVIOUS
<1>6. ASSUME NEW i \in 1..N, NEW j \in 1..N, order[i] = order[j] PROVE i = j
  <2>1. \A x \in S : <<x, x>> \notin before
    BY PlacesOrdered DEF Orders
  <2> HIDE DEF order, S, before, N
  <2>2. ~ (i < j) /\ ~ (j < i)
    BY <1>1, <1>6, <2>1
  <2> QED BY <1>1, <2>2
<1> HIDE DEF f, N, order
<1>7. Evaluated(f) = f
  BY <1>1, <1>5, EvaluatedFunction
<1>8. Len(f) = N
  BY <1>1, <1>5
<1>9. IsList(f)
  BY <1>1, <1>5, <1>8 DEF IsList
<1>10. Places(items) = f /\ order \in [1..N -> PlaceSet(items)]
  BY <1>1, <1>4, <1>7
<1> QED BY <1>1, <1>5, <1>6, <1>8, <1>9, <1>10

LEMMA PlacesAre ==
  ASSUME NEW items, Items(items)
  PROVE  /\ IsList(Places(items))
         /\ \A i \in 1..Len(Places(items)) : IsEntry(Places(items)[i])
<1>1. PICK order \in [1..Len(Places(items)) -> PlaceSet(items)] :
        \A i \in 1..Len(Places(items)) :
          Places(items)[i] = Entries(items[order[i][1]])[order[i][2]]
  BY PlacesListed
<1>2. ASSUME NEW i \in 1..Len(Places(items)) PROVE IsEntry(Places(items)[i])
  <2>1. order[i][1] \in 1..Len(items) /\ order[i][2] \in DOMAIN Entries(items[order[i][1]])
    <3>1. order[i] \in PlaceSet(items)
      BY <1>1
    <3> QED BY <3>1, PlacesFinite
  <2>2. IsItem(items[order[i][1]])
    BY <2>1 DEF Items
  <2> QED BY <1>1, <2>1, <2>2, EntriesAre
<1> QED BY <1>2, PlacesListed

-----------------------------------------------------------------------------
\* Places become tasks

Entered(entries) == IsList(entries) /\ \A i \in 1..Len(entries) : IsEntry(entries[i])

LEMMA OpensAre ==
  ASSUME NEW entries, Entered(entries)
  PROVE  Opens(entries) \subseteq 1..Len(entries)
BY DEF Opens, Entered, IsList

LEMMA TestFileIs ==
  ASSUME NEW entries, Entered(entries), NEW opens, NEW i \in 1..Len(entries)
  PROVE  TestFile(entries, opens, i) \in Files
<1> DEFINE chunk == Chunk(entries, opens, i)
           homes == {j \in chunk : entries[j].home # NoFile}
<1>1. Len(entries) \in Nat /\ chunk \subseteq 1..Len(entries)
  BY DEF Chunk, Entered, IsList
<1>2. IsEntry(entries[i])
  BY DEF Entered
<1>3. TestFileOf[entries[i].file] \in Files /\ entries[i].file \in Files
  BY <1>2, UtPlanAssumption DEF IsEntry
<1>4. TestFile(entries, opens, i) =
        IF \E j \in chunk : entries[j].header THEN entries[i].file
        ELSE IF homes # {} THEN entries[Min(homes)].home
        ELSE TestFileOf[entries[i].file]
  BY DEF TestFile
<1>5. homes # {} => entries[Min(homes)].home \in Files
  <2> SUFFICES ASSUME homes # {} PROVE entries[Min(homes)].home \in Files
    OBVIOUS
  <2>1. homes \in SUBSET (1..Len(entries))
    BY <1>1
  <2>2. Min(homes) \in homes
    <3> HIDE DEF homes
    <3> QED BY <1>1, <2>1, LeastIn
  <2>3. entries[Min(homes)].home # NoFile /\ Min(homes) \in 1..Len(entries)
    BY <2>1, <2>2
  <2> HIDE DEF homes
  <2> QED BY <2>3 DEF Entered, IsEntry
<1> HIDE DEF chunk, homes
<1> QED BY <1>3, <1>4, <1>5

LEMMA TouchesAre ==
  ASSUME NEW entries, Entered(entries), NEW opens, NEW i \in 1..Len(entries)
  PROVE  Touches(entries, opens, i) \subseteq Files
<1>1. TestFile(entries, opens, i) \in Files
  BY TestFileIs
<1>2. {RegisterFile} \ {NoFile} \subseteq Files
  BY UtPlanAssumption
<1>3. UNION {entries[j].mocks : j \in Chunk(entries, opens, i)} \subseteq Files
  BY DEF Chunk, Entered, IsEntry, IsList
<1> QED BY <1>1, <1>2, <1>3 DEF Touches

LEMMA WaveTyped == \A type \in Types : WAVE(type) \in 1..4
BY DEF WAVE, Types

LEMMA PositionTyped == \A f \in Files : PositionOf(f) \in Nat
<1> SUFFICES ASSUME NEW f \in Files PROVE PositionOf(f) \in Nat
  OBVIOUS
<1>1. Len(FileOrder) \in Nat /\ DOMAIN FileOrder = 1..Len(FileOrder)
  BY UtPlanAssumption
<1>2. \E i \in 1..Len(FileOrder) : FileOrder[i] = f
  BY <1>1 DEF Files, Range
<1>3. PositionOf(f) \in 1..Len(FileOrder)
  BY <1>2 DEF PositionOf
<1> QED BY <1>3

\* Four numbers, compared as in a dictionary.
Below(r, s) ==
  \E n \in 1..4 : /\ r[n] < s[n]
                  /\ \A m \in 1..(n - 1) : r[m] = s[m]

LEMMA BelowIs ==
  ASSUME NEW r, NEW s
  PROVE  Below(r, s) <=> \/ r[1] < s[1]
                         \/ r[1] = s[1] /\ r[2] < s[2]
                         \/ r[1] = s[1] /\ r[2] = s[2] /\ r[3] < s[3]
                         \/ r[1] = s[1] /\ r[2] = s[2] /\ r[3] = s[3] /\ r[4] < s[4]
<1>1. \A n : n \in 1..4 <=> n \in {1, 2, 3, 4}
  OBVIOUS
<1>2. 1..(1 - 1) = {} /\ 1..(2 - 1) = {1} /\ 1..(3 - 1) = {1, 2} /\ 1..(4 - 1) = {1, 2, 3}
  OBVIOUS
<1> QED BY <1>1, <1>2 DEF Below

\* The rank of a place.
GroupAt(entries, i) == {j \in DOMAIN entries : SameGroup(entries[j], entries[i])}
RankAt(entries, i) ==
  <<WAVE(entries[i].type), PositionOf(entries[i].file), Min(GroupAt(entries, i)), i>>
RankOrder(entries) ==
  {ij \in Opens(entries) \X Opens(entries) : Below(RankAt(entries, ij[1]), RankAt(entries, ij[2]))}

LEMMA RankIs ==
  ASSUME NEW entries, Entered(entries), NEW i \in 1..Len(entries)
  PROVE  /\ RankAt(entries, i)[1] = WAVE(entries[i].type) /\ RankAt(entries, i)[1] \in 1..4
         /\ RankAt(entries, i)[2] \in Nat /\ RankAt(entries, i)[3] \in Nat
         /\ RankAt(entries, i)[4] = i
<1>1. WAVE(entries[i].type) \in 1..4 /\ PositionOf(entries[i].file) \in Nat
  BY WaveTyped, PositionTyped DEF Entered, IsEntry
<1>2. Min(GroupAt(entries, i)) \in Nat
  <2>1. /\ Len(entries) \in Nat /\ GroupAt(entries, i) \in SUBSET (1..Len(entries))
        /\ i \in GroupAt(entries, i)
    BY DEF GroupAt, Entered, IsList, SameGroup
  <2>2. Min(GroupAt(entries, i)) \in 1..Len(entries)
    BY <2>1, LeastIn
  <2> QED BY <2>1, <2>2
<1> QED BY <1>1, <1>2 DEF RankAt

LEMMA RankOrders ==
  ASSUME NEW entries, Entered(entries)
  PROVE  Orders(RankOrder(entries), Opens(entries)) /\ IsFiniteSet(Opens(entries))
<1> DEFINE S == Opens(entries)
           before == RankOrder(entries)
           r(i) == RankAt(entries, i)
<1>1. \A i \in S : /\ r(i)[1] \in Int /\ r(i)[2] \in Int /\ r(i)[3] \in Int /\ r(i)[4] = i
                   /\ i \in Int
  BY OpensAre, RankIs
<1>2. \A i, j \in S : <<i, j>> \in before <=>
        \/ r(i)[1] < r(j)[1]
        \/ r(i)[1] = r(j)[1] /\ r(i)[2] < r(j)[2]
        \/ r(i)[1] = r(j)[1] /\ r(i)[2] = r(j)[2] /\ r(i)[3] < r(j)[3]
        \/ r(i)[1] = r(j)[1] /\ r(i)[2] = r(j)[2] /\ r(i)[3] = r(j)[3] /\ r(i)[4] < r(j)[4]
  <2> SUFFICES ASSUME NEW i \in S, NEW j \in S
               PROVE  <<i, j>> \in before <=> Below(r(i), r(j))
    BY BelowIs
  <2> QED BY DEF RankOrder
<1>3. IsFiniteSet(S)
  <2>1. Len(entries) \in Nat
    BY DEF Entered, IsList
  <2>2. IsFiniteSet(1..Len(entries))
    BY <2>1, FS_Interval
  <2> QED BY <2>2, OpensAre, FS_Subset
<1> HIDE DEF S, before, r
<1>4. \A x \in S : <<x, x>> \notin before
  BY <1>1, <1>2
<1>5. \A x, y \in S : <<x, y>> \in before \/ x = y \/ <<y, x>> \in before
  <2> SUFFICES ASSUME NEW x \in S, NEW y \in S, x # y
               PROVE  <<x, y>> \in before \/ <<y, x>> \in before
    OBVIOUS
  <2>1. /\ r(x)[1] \in Int /\ r(x)[2] \in Int /\ r(x)[3] \in Int /\ r(x)[4] = x /\ x \in Int
        /\ r(y)[1] \in Int /\ r(y)[2] \in Int /\ r(y)[3] \in Int /\ r(y)[4] = y /\ y \in Int
    BY <1>1
  <2>2. CASE r(x)[1] # r(y)[1]
    BY <1>2, <2>1, <2>2
  <2>3. CASE r(x)[1] = r(y)[1] /\ r(x)[2] # r(y)[2]
    BY <1>2, <2>1, <2>3
  <2>4. CASE r(x)[1] = r(y)[1] /\ r(x)[2] = r(y)[2] /\ r(x)[3] # r(y)[3]
    BY <1>2, <2>1, <2>4
  <2>5. CASE r(x)[1] = r(y)[1] /\ r(x)[2] = r(y)[2] /\ r(x)[3] = r(y)[3]
    BY <1>2, <2>1, <2>5
  <2> QED BY <2>2, <2>3, <2>4, <2>5
<1>6. \A x, y, z \in S : <<x, y>> \in before /\ <<y, z>> \in before => <<x, z>> \in before
  BY <1>1, <1>2
<1> QED BY <1>3, <1>4, <1>5, <1>6 DEF S, before, Orders

\* The list of tasks, as the places that open them.
LEMMA TasksListed ==
  ASSUME NEW items, NEW entries, NEW opens, Items(items),
         entries = Places(items), opens = Opens(entries)
  PROVE  /\ IsList(Tasks(items)) /\ Entered(entries)
         /\ \E order \in [1..Len(Tasks(items)) -> opens] :
              /\ \A n \in 1..Len(Tasks(items)) : Tasks(items)[n] = Task(entries, opens, order[n])
              /\ \A m, n \in 1..Len(Tasks(items)) :
                   m < n => <<order[m], order[n]>> \in RankOrder(entries)
              /\ \A i \in opens : \E n \in 1..Len(Tasks(items)) : order[n] = i
<1> DEFINE rank == [i \in DOMAIN entries |-> RankAt(entries, i)]
           before == {ij \in opens \X opens : Below(rank[ij[1]], rank[ij[2]])}
           order == Sorted(opens, before)
           N == Cardinality(opens)
           f == [n \in 1..N |-> Task(entries, opens, order[n])]
<1>1. Entered(entries)
  BY PlacesAre DEF Entered
<1>2. DOMAIN entries = 1..Len(entries) /\ opens \subseteq 1..Len(entries) /\ Len(entries) \in Nat
  BY <1>1, OpensAre DEF Entered, IsList
<1>3. Evaluated(rank) = rank
  BY <1>2, EvaluatedFunction
<1>4. Tasks(items) = Evaluated([n \in DOMAIN order |-> Task(entries, opens, order[n])])
  <2>1. Tasks(items) = LET rk == Evaluated(rank)
                           bf == {ij \in opens \X opens : Below(rk[ij[1]], rk[ij[2]])}
                           od == Sorted(opens, bf)
                       IN  Evaluated([n \in DOMAIN od |-> Task(entries, opens, od[n])])
    BY DEF Tasks, Grouped, RankAt, GroupAt, Below
  <2> QED BY <1>3, <2>1
<1>5. before = RankOrder(entries)
  BY <1>2 DEF RankOrder
<1>6. /\ N \in Nat /\ order \in [1..N -> opens]
      /\ \A m, n \in 1..N : m < n => <<order[m], order[n]>> \in before
      /\ \A i \in opens : \E n \in 1..N : order[n] = i
  <2> HIDE DEF before
  <2> QED BY <1>1, <1>5, RankOrders, SortedLists
<1>7. DOMAIN order = 1..N /\ f = [n \in 1..N |-> f[n]]
      /\ \A n \in 1..N : f[n] = Task(entries, opens, order[n])
  BY <1>6
<1>8. Tasks(items) = Evaluated(f)
  BY <1>4, <1>7
<1> HIDE DEF f, N, order, before
<1>9. Evaluated(f) = f /\ Len(f) = N
  BY <1>6, <1>7, EvaluatedFunction
<1>10. IsList(f)
  BY <1>6, <1>7, <1>9 DEF IsList
<1>11. Tasks(items) = f /\ Len(Tasks(items)) = N
  BY <1>8, <1>9
<1>12. \A n \in 1..N : Tasks(items)[n] = Task(entries, opens, order[n])
  BY <1>7, <1>11
<1>13. order \in [1..Len(Tasks(items)) -> opens]
  BY <1>6, <1>11
<1>14. \A m, n \in 1..N : m < n => <<order[m], order[n]>> \in RankOrder(entries)
  BY <1>5, <1>6
<1>15. \A i \in opens : \E n \in 1..N : order[n] = i
  BY <1>6
<1> QED BY <1>1, <1>10, <1>11, <1>12, <1>13, <1>14, <1>15, Zenon

\* What the planner makes before it numbers the waves.
LEMMA TasksAre ==
  ASSUME NEW items, Items(items)
  PROVE  /\ IsList(Tasks(items))
         /\ \A i \in 1..Len(Tasks(items)) :
              /\ Tasks(items)[i].type \in Types /\ Tasks(items)[i].touches \subseteq Files
              /\ Tasks(items)[i].wave \in 1..4
              /\ \A j \in 1..Len(Tasks(items)) :
                   j < i => Tasks(items)[j].wave <= Tasks(items)[i].wave
<1> DEFINE entries == Places(items)
           opens == Opens(entries)
           N == Len(Tasks(items))
           f == Tasks(items)
<1>1. IsList(f) /\ Entered(entries)
  BY TasksListed
<1>2. PICK order \in [1..N -> opens] :
        /\ \A n \in 1..N : f[n] = Task(entries, opens, order[n])
        /\ \A m, n \in 1..N : m < n => <<order[m], order[n]>> \in RankOrder(entries)
  BY TasksListed
<1>3. opens \subseteq 1..Len(entries)
  BY <1>1, OpensAre DEF Entered, IsList
<1> HIDE DEF f, N, entries
<1>4. ASSUME NEW n \in 1..N
      PROVE  /\ f[n].type \in Types /\ f[n].touches \subseteq Files
             /\ f[n].wave = RankAt(entries, order[n])[1] /\ f[n].wave \in 1..4
  <2> DEFINE i == order[n]
  <2>1. f[n] = Task(entries, opens, i) /\ i \in 1..Len(entries)
    BY <1>2, <1>3
  <2> HIDE DEF i, opens
  <2>2. f[n].type = entries[i].type /\ f[n].touches = Touches(entries, opens, i) /\ f[n].wave = WAVE(entries[i].type)
    BY <2>1 DEF Task
  <2>3. f[n].type \in Types
    BY <1>1, <2>1, <2>2 DEF Entered, IsEntry
  <2>4. f[n].touches \subseteq Files
    BY <1>1, <2>1, <2>2, TouchesAre
  <2>5. f[n].wave = RankAt(entries, i)[1] /\ f[n].wave \in 1..4
    BY <1>1, <2>1, <2>2, RankIs
  <2> QED BY <2>3, <2>4, <2>5 DEF i
<1>5. ASSUME NEW m \in 1..N, NEW n \in 1..N, m < n
      PROVE  f[m].wave <= f[n].wave
  <2>1. Below(RankAt(entries, order[m]), RankAt(entries, order[n]))
    BY <1>2, <1>5 DEF RankOrder
  <2>2. /\ f[m].wave = RankAt(entries, order[m])[1] /\ f[m].wave \in 1..4
        /\ f[n].wave = RankAt(entries, order[n])[1] /\ f[n].wave \in 1..4
    BY <1>4
  <2>3. f[m].wave < f[n].wave \/ f[m].wave = f[n].wave
    BY <2>1, <2>2, BelowIs
  <2> QED BY <2>2, <2>3
<1>6. \A i, j \in 1..N : j < i => f[j].wave <= f[i].wave
  BY <1>5
<1> QED BY <1>1, <1>4, <1>6 DEF f, N

\* What a plan is: tasks of known types that may write files of the repository and
\* wait for tasks before them.
LEMMA PlanIs ==
  ASSUME NEW items, Items(items)
  PROVE  /\ IsList(MakePlan(items))
         /\ \A i \in 1..Len(MakePlan(items)) :
              /\ {"type", "wave", "depends", "touches", "status"} \subseteq DOMAIN MakePlan(items)[i]
              /\ MakePlan(items)[i].type \in Types /\ MakePlan(items)[i].status = "TODO"
              /\ MakePlan(items)[i].touches \subseteq Files
              /\ MakePlan(items)[i].depends \subseteq 1..(i - 1)
<1> DEFINE tasks == Tasks(items)
           waves == {tasks[i].wave : i \in DOMAIN tasks}
           Renumbered(w) == Cardinality({v \in waves : v <= w})
           Previous(i) == {j \in 1..(i - 1) : j = i - 1 /\ SameGroup(tasks[j], tasks[i])}
           Earlier(i) == {j \in DOMAIN tasks : tasks[j].wave < tasks[i].wave
                                                /\ tasks[j].touches \cap tasks[i].touches # {}}
           of(i) == Todo(tasks[i], Renumbered(tasks[i].wave), Previous(i) \cup Earlier(i))
           plan == [i \in DOMAIN tasks |-> of(i)]
<1>1. MakePlan(items) = plan
  BY DEF MakePlan, InWaves
<1>2. /\ Len(tasks) \in Nat /\ DOMAIN tasks = 1..Len(tasks)
      /\ \A i \in 1..Len(tasks) :
           /\ tasks[i].type \in Types /\ tasks[i].touches \subseteq Files
           /\ tasks[i].wave \in 1..4
           /\ \A j \in 1..Len(tasks) : j < i => tasks[j].wave <= tasks[i].wave
  BY TasksAre DEF IsList
<1> HIDE DEF tasks
<1>3. ASSUME NEW i \in 1..Len(tasks) PROVE Previous(i) \cup Earlier(i) \subseteq 1..(i - 1)
  <2>1. \A j \in 1..Len(tasks) : tasks[j].wave < tasks[i].wave => j \in 1..(i - 1)
    <3> SUFFICES ASSUME NEW j \in 1..Len(tasks), tasks[j].wave < tasks[i].wave PROVE j \in 1..(i - 1)
      OBVIOUS
    <3>1. ~ (i < j) /\ i # j
      BY <1>2
    <3> QED BY <1>2, <3>1
  <2> QED BY <1>2, <2>1
<1>4. ASSUME NEW i \in 1..Len(tasks), NEW w, NEW d
      PROVE  /\ {"type", "wave", "depends", "touches", "status"} \subseteq DOMAIN Todo(tasks[i], w, d)
             /\ Todo(tasks[i], w, d).type = tasks[i].type /\ Todo(tasks[i], w, d).status = "TODO"
             /\ Todo(tasks[i], w, d).touches = tasks[i].touches /\ Todo(tasks[i], w, d).depends = d
  BY DEF Todo
<1> HIDE DEF Renumbered, Previous, Earlier
<1>5. ASSUME NEW i \in 1..Len(tasks)
      PROVE  /\ {"type", "wave", "depends", "touches", "status"} \subseteq DOMAIN of(i)
             /\ of(i).type \in Types /\ of(i).status = "TODO" /\ of(i).touches \subseteq Files
             /\ of(i).depends \subseteq 1..(i - 1)
  BY <1>2, <1>3, <1>4
<1> HIDE DEF of
<1>6. Len(plan) = Len(tasks) /\ plan = [i \in 1..Len(tasks) |-> of(i)]
  BY <1>2
<1>7. \A i \in 1..Len(tasks) : plan[i] = of(i)
  BY <1>6
<1> HIDE DEF plan
<1> QED BY <1>1, <1>2, <1>5, <1>6, <1>7 DEF IsList

LEMMA EmptyList == IsList(<<>>) /\ Len(<<>>) = 0
<1>1. <<>> = [i \in 1..0 |-> <<>>[i]]
  OBVIOUS
<1> QED BY <1>1 DEF IsList

LEMMA ListIsSeq ==
  ASSUME NEW s, IsList(s), NEW T, \A i \in 1..Len(s) : s[i] \in T
  PROVE  s \in Seq(T)
<1>1. Len(s) \in Nat /\ s \in [1..Len(s) -> T]
  BY DEF IsList
<1> QED BY <1>1

LEMMA ConcatLists ==
  ASSUME NEW s, NEW t, IsList(s), IsList(t)
  PROVE  /\ IsList(s \o t) /\ Len(s \o t) = Len(s) + Len(t)
         /\ \A i \in 1..Len(s) : (s \o t)[i] = s[i]
         /\ \A i \in 1..Len(t) : (s \o t)[Len(s) + i] = t[i]
         /\ \A i \in 1..Len(s \o t) : i \in 1..Len(s) \/ i - Len(s) \in 1..Len(t)
<1> DEFINE T == {s[i] : i \in 1..Len(s)} \cup {t[i] : i \in 1..Len(t)}
<1>1. s \in Seq(T) /\ t \in Seq(T)
  <2>1. (\A i \in 1..Len(s) : s[i] \in T) /\ (\A i \in 1..Len(t) : t[i] \in T)
    OBVIOUS
  <2> HIDE DEF T
  <2> QED BY <2>1, ListIsSeq
<1> HIDE DEF T
<1>2. s \o t \in Seq(T) /\ Len(s \o t) = Len(s) + Len(t)
  BY <1>1
<1>3. IsList(s \o t)
  <2>1. Len(s \o t) \in Nat /\ s \o t \in [1..Len(s \o t) -> T]
    BY <1>2, LenProperties
  <2> QED BY <2>1 DEF IsList
<1> QED BY <1>1, <1>2, <1>3

-----------------------------------------------------------------------------
\* The types

\* What the types say of a task, of the work items and of the problems.
TaskOk(t, i) ==
  /\ {"type", "wave", "depends", "touches", "status"} \subseteq DOMAIN t
  /\ t.type \in Types /\ t.status \in Statuses
  /\ t.depends \subseteq 1..(i - 1) /\ t.touches \subseteq Files
Numbered(items) == Items(items) /\ \A i \in 1..Len(items) : items[i].id \in Nat \ {0}
NumberedOnce(items) ==
  \A i, j \in 1..Len(items) : items[i].id = items[j].id => i = j
Named(problems) == IsList(problems) /\ \A i \in 1..Len(problems) : problems[i].file \in Files

StateGood(st) ==
  /\ {"ready", "problems", "items", "tasks", "checks"} \subseteq DOMAIN st
  /\ st.ready \in BOOLEAN
  /\ Numbered(st.items)
  /\ Named(st.problems)
  /\ IsList(st.tasks) /\ \A i \in 1..Len(st.tasks) : TaskOk(st.tasks[i], i)
  /\ DOMAIN st.checks \subseteq {st.tasks[i].wave : i \in 1..Len(st.tasks)}

KbOk(know) == know \in [Need -> (UNION {Technique[n] : n \in Need}) \cup {Undecided}]
TreeValues == {"absent", "asWas", "attempt", "tested"}

LEMMA NoStateGood == StateGood(NoState)
<1>1. NoState.items = <<>> /\ NoState.problems = <<>> /\ NoState.tasks = <<>> /\ NoState.checks = <<>>
  BY DEF NoState
<1>2. 1..0 = {} /\ DOMAIN <<>> = {}
  OBVIOUS
<1> QED BY <1>1, <1>2, EmptyList DEF StateGood, NoState, Numbered, Items, Named

LEMMA GoodIsTyped ==
  ASSUME NEW st, StateGood(st)
  PROVE  StateType(st) /\ Len(st.tasks) \in Nat /\ DOMAIN st.tasks = 1..Len(st.tasks)
                       /\ DOMAIN st.items = 1..Len(st.items)
<1>1. DOMAIN st.tasks = 1..Len(st.tasks) /\ Len(st.tasks) \in Nat
  BY DEF StateGood, IsList
<1>2. DOMAIN st.items = 1..Len(st.items)
  BY DEF StateGood, Numbered, Items, IsList
<1> QED BY <1>1, <1>2 DEF StateGood, StateType, Numbered, TaskOk, Statuses

\* A phase writes one part of the state.
LEMMA PartGood ==
  ASSUME NEW st, StateGood(st)
  PROVE  /\ StateGood([st EXCEPT !.ready = TRUE])
         /\ \A x : Numbered(x) => StateGood([st EXCEPT !.items = x])
         /\ \A x : Named(x) => StateGood([st EXCEPT !.problems = x])
<1>1. StateGood([st EXCEPT !.ready = TRUE])
  BY DEF StateGood
<1>2. ASSUME NEW x, Numbered(x) PROVE StateGood([st EXCEPT !.items = x])
  BY <1>2 DEF StateGood
<1>3. ASSUME NEW x, Named(x) PROVE StateGood([st EXCEPT !.problems = x])
  BY <1>3 DEF StateGood
<1> QED BY <1>1, <1>2, <1>3

LEMMA BaselineItemsAre ==
  ASSUME NEW problems, Named(problems), NEW n \in Nat
  PROVE  /\ Numbered(BaselineItems(problems, n))
         /\ \A i \in 1..Len(BaselineItems(problems, n)) : BaselineItems(problems, n)[i].id = n + i
<1> DEFINE N == Len(problems)
           of(i) == Item(n + i, problems[i].file, "-", "baseline",
                         IF problems[i].stage = "build" THEN "E" ELSE "F")
           list == [i \in 1..N |-> of(i)]
<1>1. N \in Nat /\ \A i \in 1..N : problems[i].file \in Files
  BY DEF Named, IsList
<1>2. ASSUME NEW f \in Files, NEW id, NEW fn, NEW kind, NEW cat
      PROVE  IsItem(Item(id, f, fn, kind, cat)) /\ Item(id, f, fn, kind, cat).id = id
  <2>1. <<>> \in Seq(Files) /\ DOMAIN <<>> = {}
    OBVIOUS
  <2>2. IsInjective(<<>>)
    BY <2>1, Zenon DEF IsInjective
  <2> QED BY <2>1, <2>2 DEF Item, IsItem
<1>3. \A i \in 1..N : IsItem(of(i)) /\ of(i).id = n + i
  BY <1>1, <1>2
<1>4. \A i \in 1..N : n + i \in Nat \ {0}
  BY <1>1
<1> HIDE DEF of
<1>5. Len(list) = N /\ IsList(list) /\ \A i \in 1..N : list[i] = of(i)
  BY <1>1 DEF IsList
<1>6. BaselineItems(problems, n) = list
  BY DEF BaselineItems, of
<1> HIDE DEF list, N
<1> QED BY <1>3, <1>4, <1>5, <1>6 DEF Numbered, Items

LEMMA ConcatNumbered ==
  ASSUME NEW s, NEW t, Numbered(s), Numbered(t)
  PROVE  Numbered(s \o t)
<1>1. IsList(s) /\ IsList(t)
  BY DEF Numbered, Items
<1>2. ASSUME NEW i \in 1..Len(s \o t)
      PROVE  IsItem((s \o t)[i]) /\ (s \o t)[i].id \in Nat \ {0}
  <2>1. CASE i \in 1..Len(s)
    BY <1>1, <2>1, ConcatLists DEF Numbered, Items
  <2>2. CASE i - Len(s) \in 1..Len(t)
    <3> DEFINE k == i - Len(s)
    <3>1. Len(s) \in Nat /\ Len(t) \in Nat
      BY <1>1 DEF IsList
    <3>2. k \in 1..Len(t) /\ Len(s) + k = i
      BY <1>1, <2>2, <3>1, ConcatLists
    <3> HIDE DEF k
    <3>3. (s \o t)[i] = t[k]
      BY <1>1, <3>2, ConcatLists
    <3> QED BY <3>2, <3>3 DEF Numbered, Items
  <2> QED BY <1>1, <2>1, <2>2, ConcatLists
<1> QED BY <1>1, <1>2, ConcatLists DEF Numbered, Items
LEMMA WithStatusGood ==
  ASSUME NEW st, StateGood(st), NEW i \in DOMAIN st.tasks, NEW s \in Statuses
  PROVE  StateGood(WithStatus(st, i, s)) /\ Len(WithStatus(st, i, s).tasks) = Len(st.tasks)
<1> DEFINE new == WithStatus(st, i, s)
           t == [st.tasks[i] EXCEPT !.status = s]
<1>1. /\ DOMAIN new = DOMAIN st /\ new.ready = st.ready /\ new.items = st.items
      /\ new.problems = st.problems /\ new.checks = st.checks
      /\ new.tasks = [st.tasks EXCEPT ![i] = t]
  BY DEF WithStatus, StateGood
<1>2. Len(st.tasks) \in Nat /\ DOMAIN st.tasks = 1..Len(st.tasks)
  BY GoodIsTyped
<1>3. TaskOk(st.tasks[i], i)
  BY <1>2 DEF StateGood
<1>4. TaskOk(t, i) /\ t.wave = st.tasks[i].wave
  BY <1>3 DEF TaskOk
<1> HIDE DEF new, t
<1>5. /\ Len(new.tasks) = Len(st.tasks) /\ IsList(new.tasks)
      /\ \A k \in 1..Len(st.tasks) : new.tasks[k] = IF k = i THEN t ELSE st.tasks[k]
  <2>1. new.tasks = [k \in 1..Len(st.tasks) |-> IF k = i THEN t ELSE st.tasks[k]]
    BY <1>1, <1>2
  <2> QED BY <1>2, <2>1 DEF IsList
<1>6. \A k \in 1..Len(st.tasks) : TaskOk(new.tasks[k], k) /\ new.tasks[k].wave = st.tasks[k].wave
  BY <1>4, <1>5 DEF StateGood
<1>7. {new.tasks[k].wave : k \in 1..Len(st.tasks)} = {st.tasks[k].wave : k \in 1..Len(st.tasks)}
  BY <1>6
<1>8. StateGood(new)
  BY <1>1, <1>5, <1>6, <1>7 DEF StateGood
<1> QED BY <1>5, <1>8 DEF new

LEMMA CheckedGood ==
  ASSUME NEW st, StateGood(st), NEW i \in DOMAIN st.tasks, NEW result
  PROVE  /\ StateGood(Checked(st, st.tasks[i].wave, result))
         /\ Checked(st, st.tasks[i].wave, result).tasks = st.tasks
<1> DEFINE w == st.tasks[i].wave
           new == Checked(st, w, result)
<1>1. /\ DOMAIN new = DOMAIN st /\ new.ready = st.ready /\ new.items = st.items
      /\ new.problems = st.problems /\ new.tasks = st.tasks
      /\ DOMAIN new.checks = DOMAIN st.checks \cup {w}
  BY DEF Checked, StateGood
<1>2. w \in {st.tasks[k].wave : k \in 1..Len(st.tasks)}
  BY GoodIsTyped
<1> HIDE DEF new, w
<1>3. StateGood(new)
  BY <1>1, <1>2 DEF StateGood
<1> QED BY <1>1, <1>3 DEF new, w

\* Every item of a list is changed, but for what the types speak of.
LEMMA MappedNumbered ==
  ASSUME NEW items, Numbered(items), NEW new,
         new = [i \in DOMAIN items |-> new[i]],
         \A i \in DOMAIN items :
           new[i] = items[i] \/ \E x : new[i] = [items[i] EXCEPT !.scope = x]
  PROVE  /\ Numbered(new) /\ Len(new) = Len(items)
         /\ \A i \in 1..Len(items) : new[i].id = items[i].id
<1>1. Len(items) \in Nat /\ DOMAIN items = 1..Len(items)
  BY DEF Numbered, Items, IsList
<1>2. Len(new) = Len(items) /\ IsList(new)
  BY <1>1 DEF IsList
<1>3. ASSUME NEW i \in 1..Len(items)
      PROVE  IsItem(new[i]) /\ new[i].id \in Nat \ {0} /\ new[i].id = items[i].id
  <2>1. IsItem(items[i]) /\ items[i].id \in Nat \ {0}
    BY DEF Numbered, Items
  <2>2. CASE new[i] = items[i]
    BY <2>1, <2>2
  <2>3. ASSUME NEW x, new[i] = [items[i] EXCEPT !.scope = x]
        PROVE  IsItem(new[i]) /\ new[i].id \in Nat \ {0} /\ new[i].id = items[i].id
    BY <2>1, <2>3 DEF IsItem
  <2> QED BY <1>1, <2>2, <2>3
<1> QED BY <1>2, <1>3 DEF Numbered, Items

LEMMA ReplannedGood ==
  ASSUME NEW st, StateGood(st)
  PROVE  StateGood(Replanned(st))
<1> DEFINE plan == MakePlan(st.items)
           items == [i \in DOMAIN st.items |-> AfterPlanning(st.items[i])]
           new == Replanned(st)
<1>1. new = [st EXCEPT !.tasks = plan, !.checks = <<>>, !.items = items]
  BY DEF Replanned
<1>2. Numbered(items)
  <2>1. \A w : AfterPlanning(w) = w \/ \E x : AfterPlanning(w) = [w EXCEPT !.scope = x]
    BY DEF AfterPlanning
  <2>2. \A i \in DOMAIN st.items :
          items[i] = st.items[i] \/ \E x : items[i] = [st.items[i] EXCEPT !.scope = x]
    BY <2>1
  <2>3. items = [i \in DOMAIN st.items |-> items[i]] /\ Numbered(st.items)
    BY DEF StateGood
  <2> HIDE DEF items
  <2> QED BY <2>2, <2>3, MappedNumbered
<1>3. IsList(plan) /\ \A i \in 1..Len(plan) : TaskOk(plan[i], i)
  <2>1. Items(st.items)
    BY DEF StateGood, Numbered
  <2> QED BY <2>1, PlanIs DEF TaskOk, Statuses
<1> HIDE DEF plan, items
<1>4. /\ DOMAIN new = DOMAIN st /\ new.ready = st.ready /\ new.items = items
      /\ new.problems = st.problems /\ new.tasks = plan /\ DOMAIN new.checks = {}
  <2>1. DOMAIN <<>> = {}
    OBVIOUS
  <2> QED BY <1>1, <2>1 DEF StateGood
<1> HIDE DEF new
<1>5. StateGood(new)
  BY <1>2, <1>3, <1>4 DEF StateGood
<1> QED BY <1>5 DEF new

\* What an import adds: work items with numbers of their own, behind the places of the
\* others.
LEMMA CoverageListed ==
  ASSUME NEW st, StateGood(st), NEW gaps \in CoverageGaps
  PROVE  \E list : /\ Coverage(st, gaps) = [st EXCEPT !.items = st.items \o list]
                   /\ Numbered(list) /\ NumberedOnce(list)
                   /\ \A i \in 1..Len(list) : list[i].id > Len(st.items)
<1> DEFINE known == {<<st.items[i].file, st.items[i].fn>> : i \in 1..Len(st.items)}
           numbered == [i \in 1..Len(gaps) |-> [gaps[i] EXCEPT !.id = Len(st.items) + i]]
           new == {i \in 1..Len(gaps) : <<gaps[i].file, gaps[i].fn>> \notin known}
           up == {ij \in new \X new : ij[1] < ij[2]}
           order == Sorted(new, up)
           list == [i \in DOMAIN order |-> numbered[order[i]]]
           n == Cardinality(new)
<1>1. Coverage(st, gaps) = [st EXCEPT !.items = st.items \o list]
  BY DEF Coverage
<1>2. Len(gaps) \in Nat /\ \A i \in 1..Len(gaps) : IsItem(gaps[i])
  BY InputAssumption DEF IsList
<1>3. IsFiniteSet(new) /\ new \subseteq 1..Len(gaps)
  <2>1. IsFiniteSet(1..Len(gaps))
    BY <1>2, FS_Interval
  <2>2. new \in SUBSET (1..Len(gaps))
    OBVIOUS
  <2> HIDE DEF new
  <2> QED BY <2>1, <2>2, FS_Subset
<1> HIDE DEF new, known
<1>4. Orders(up, new) /\ \A x \in new : <<x, x>> \notin up
  <2>1. \A x \in new : x \in Int
    BY <1>2, <1>3
  <2>2. \A x, y \in new : <<x, y>> \in up <=> x < y
    OBVIOUS
  <2> HIDE DEF up
  <2> QED BY <2>1, <2>2 DEF Orders
<1>5. /\ n \in Nat /\ order \in [1..n -> new]
      /\ \A i, j \in 1..n : i < j => <<order[i], order[j]>> \in up
  <2> HIDE DEF up
  <2> QED BY <1>3, <1>4, SortedLists
<1> HIDE DEF order, up, n
<1>6. ASSUME NEW i \in 1..n, NEW j \in 1..n, order[i] = order[j] PROVE i = j
  <2>1. ~ (i < j) /\ ~ (j < i)
    BY <1>4, <1>5, <1>6
  <2> QED BY <1>5, <2>1
<1>7. ASSUME NEW i \in 1..n
      PROVE  /\ order[i] \in 1..Len(gaps) /\ IsItem(list[i])
             /\ list[i].id = Len(st.items) + order[i]
  <2>1. list[i] = [gaps[order[i]] EXCEPT !.id = Len(st.items) + order[i]] /\ order[i] \in 1..Len(gaps)
    BY <1>3, <1>5
  <2>2. IsItem(gaps[order[i]])
    BY <1>2, <2>1
  <2> HIDE DEF list, numbered
  <2> QED BY <2>1, <2>2 DEF IsItem
<1>8. list = [i \in 1..n |-> list[i]] /\ Len(list) = n
  BY <1>5
<1>9. Len(st.items) \in Nat
  BY DEF StateGood, Numbered, Items, IsList
<1> HIDE DEF list
<1>10. \A i \in 1..n : list[i].id \in Nat \ {0} /\ list[i].id > Len(st.items)
  BY <1>2, <1>7, <1>9
<1>11. Numbered(list)
  BY <1>5, <1>7, <1>8, <1>10 DEF Numbered, Items, IsList
<1>12. ASSUME NEW i \in 1..n, NEW j \in 1..n, list[i].id = list[j].id PROVE i = j
  <2>1. order[i] = order[j]
    BY <1>2, <1>7, <1>9, <1>12
  <2> QED BY <1>6, <2>1
<1>13. NumberedOnce(list)
  BY <1>8, <1>12 DEF NumberedOnce
<1> QED BY <1>1, <1>8, <1>10, <1>11, <1>13, Zenon

LEMMA CoverageGood ==
  ASSUME NEW st, StateGood(st), NEW gaps \in CoverageGaps
  PROVE  StateGood(Coverage(st, gaps))
<1>1. PICK list : Coverage(st, gaps) = [st EXCEPT !.items = st.items \o list] /\ Numbered(list)
  BY CoverageListed
<1>2. Numbered(st.items \o list)
  BY <1>1, ConcatNumbered DEF StateGood
<1>3. \A x : Numbered(x) => StateGood([st EXCEPT !.items = x])
  BY PartGood
<1> QED BY <1>1, <1>2, <1>3, Zenon

-----------------------------------------------------------------------------
\* Every step keeps the types

WorkOk(s) ==
  /\ s.work.task \in 0..Len(s.st.tasks) /\ s.work.attempt \in 0..MaxAttempts
  /\ s.pc \in {"agent", "judge"} =>
       /\ DOMAIN s.work.before \subseteq Files
       /\ \A f \in DOMAIN s.work.before : s.work.before[f] \in TreeValues
SessGood == StateGood(sess.st) /\ KbOk(sess.kb) /\ WorkOk(sess)

TypesInv ==
  /\ StateGood(disk) /\ SessGood /\ KbOk(kb)
  /\ tree \in [Files -> TreeValues]
  /\ lost \subseteq Files

LEMMA TypesInvTypes == TypesInv => TypeOK
BY GoodIsTyped DEF TypesInv, SessGood, WorkOk, KbOk, TypeOK, TreeValues

LEMMA IdleGood == StateGood(Idle.st) /\ KbOk(Idle.kb) /\ WorkOk(Idle)
<1>1. Idle.st = NoState /\ Idle.work.task = 0 /\ Idle.work.attempt = 0 /\ Idle.pc = "idle"
      /\ Idle.kb = [n \in Need |-> Undecided]
  BY DEF Idle, NoWork
<1>2. Len(NoState.tasks) \in Nat
  BY NoStateGood, GoodIsTyped
<1> QED BY <1>1, <1>2, NoStateGood, UtTaskAssumption DEF WorkOk, KbOk

LEMMA TypesInit == Init => TypesInv
<1> SUFFICES ASSUME Init PROVE TypesInv
  OBVIOUS
<1>1. disk = NoState /\ sess = Idle /\ lost = {} /\ kb = [n \in Need |-> Undecided]
  BY DEF Init
<1>2. tree \in [Files -> TreeValues]
  BY DEF Init, TreeValues
<1> QED BY <1>1, <1>2, NoStateGood, IdleGood DEF TypesInv, SessGood, KbOk

\* A command that begins has no work.
LEMMA BeginTypes ==
  ASSUME NEW cmd, NEW pc, NEW st, NEW know, NEW dry, StateGood(st), KbOk(know),
         pc \notin {"agent", "judge"},
         sess' = [Idle EXCEPT !.cmd = cmd, !.pc = pc, !.st = st, !.kb = know, !.dry = dry]
  PROVE  SessGood'
<1>1. sess'.st = st /\ sess'.kb = know /\ sess'.pc = pc /\ sess'.work = Idle.work
  BY DEF Idle
<1>2. Idle.work.task = 0 /\ Idle.work.attempt = 0
  BY DEF Idle, NoWork
<1>3. Len(st.tasks) \in Nat
  BY GoodIsTyped
<1> QED BY <1>1, <1>2, <1>3, UtTaskAssumption DEF SessGood, WorkOk

LEMMA EndTypes == sess' = Idle => SessGood'
BY IdleGood DEF SessGood

\* A command of one save.
LEMMA OneSaveTypes ==
  ASSUME TypesInv, NEW cmd, NEW st, StateGood(st), InOneSave(cmd, st)
  PROVE  TypesInv'
BY DEF InOneSave, TypesInv, SessGood

\* Discovery leaves items that can be told apart, whichever way it is asked.
LEMMA DiscoveredNumbered ==
  ASSUME TypesInv, NEW items \in Discovered
  PROVE  Numbered(items)
<1>1. ASSUME NEW found \in Findings PROVE Numbered(found) /\ Len(found) \in Nat
  BY <1>1, InputAssumption DEF Numbered, Items, IsList
<1>2. ASSUME NEW found \in Findings
      PROVE  Numbered(found \o BaselineItems(disk.problems, Len(found)))
  <2>1. Numbered(BaselineItems(disk.problems, Len(found)))
    BY <1>1, BaselineItemsAre DEF TypesInv, StateGood
  <2> QED BY <1>1, <2>1, ConcatNumbered
<1>3. Numbered(<<>>)
  BY DEF Numbered, Items, IsList
<1>4. Numbered(disk.items)
  BY DEF TypesInv, StateGood
<1> QED BY <1>1, <1>2, <1>3, <1>4 DEF Discovered

LEMMA QuickTypes ==
  ASSUME TypesInv, cmd_init \/ cmd_discover \/ cmd_scope \/ cmd_seams
  PROVE  TypesInv'
<1>1. CASE cmd_init
  BY <1>1, OneSaveTypes, PartGood DEF cmd_init, TypesInv
<1>2. CASE cmd_discover
  <2>1. PICK items \in Discovered : InOneSave("discover", [disk EXCEPT !.items = items])
    BY <1>2 DEF cmd_discover
  <2>2. Numbered(items)
    BY DiscoveredNumbered
  <2>3. StateGood([disk EXCEPT !.items = items])
    BY <2>2, PartGood DEF TypesInv
  <2> QED BY <2>1, <2>3, OneSaveTypes
<1>3. CASE cmd_scope
  <2>1. PICK out :
          InOneSave("scope",
            [disk EXCEPT
               !.items = [i \in DOMAIN @ |->
                            LET w == disk.items[i]
                            IN  [w EXCEPT !.scope = IF w.id \notin out /\ w.cat # "I"
                                                    THEN "yes" ELSE "no"]]])
    BY <1>3 DEF cmd_scope
  <2> DEFINE said(w) == IF w.id \notin out /\ w.cat # "I" THEN "yes" ELSE "no"
             items == [i \in DOMAIN disk.items |-> [disk.items[i] EXCEPT !.scope = said(disk.items[i])]]
  <2>2. InOneSave("scope", [disk EXCEPT !.items = items])
    BY <2>1
  <2>3. /\ items = [i \in DOMAIN disk.items |-> items[i]]
        /\ \A i \in DOMAIN disk.items : \E x : items[i] = [disk.items[i] EXCEPT !.scope = x]
    <3> HIDE DEF said
    <3> QED OBVIOUS
  <2> HIDE DEF items, said
  <2>4. Numbered(items)
    BY <2>3, MappedNumbered DEF TypesInv, StateGood
  <2>5. StateGood([disk EXCEPT !.items = items])
    BY <2>4, PartGood DEF TypesInv
  <2> QED BY <2>2, <2>5, OneSaveTypes
<1>4. CASE cmd_seams
  <2>1. PICK n \in Need : \E t \in Technique[n] : kb' = [kb EXCEPT ![n] = t]
    BY <1>4 DEF cmd_seams
  <2>2. KbOk(kb')
    BY <2>1 DEF TypesInv, KbOk
  <2> QED BY <1>4, <2>2 DEF cmd_seams, TypesInv, SessGood, KbOk
<1> QED BY <1>1, <1>2, <1>3, <1>4

LEMMA StartTypes ==
  ASSUME TypesInv, StartBaseline \/ StartKb \/ StartCoverage \/ StartPlan \/ StartRun
  PROVE  TypesInv'
<1>1. UNCHANGED <<disk, kb, tree, lost>>
  BY DEF StartBaseline, StartKb, StartCoverage, StartPlan, StartRun
<1>2. SessGood'
  <2>1. CASE StartBaseline \/ StartKb \/ StartCoverage
    <3>1. PICK cmd \in {"baseline", "kb", "coverage"} :
            sess' = [Idle EXCEPT !.cmd = cmd, !.pc = "work", !.st = disk, !.kb = kb]
      BY <2>1 DEF StartBaseline, StartKb, StartCoverage, Begin
    <3>2. sess' = [Idle EXCEPT !.cmd = cmd, !.pc = "work", !.st = disk, !.kb = kb, !.dry = Idle.dry]
      BY <3>1 DEF Idle
    <3>3. StateGood(disk) /\ KbOk(kb) /\ "work" \notin {"agent", "judge"}
      BY DEF TypesInv
    <3> HIDE DEF TypesInv
    <3> QED BY <3>2, <3>3, BeginTypes
  <2>2. CASE StartPlan
    <3>1. PICK pc \in {"access", "approve"} :
            sess' = [Idle EXCEPT !.cmd = "plan", !.pc = pc, !.st = Replanned(disk), !.kb = kb]
      BY <2>2 DEF StartPlan
    <3>2. sess' = [Idle EXCEPT !.cmd = "plan", !.pc = pc, !.st = Replanned(disk), !.kb = kb, !.dry = Idle.dry]
      BY <3>1 DEF Idle
    <3>3. StateGood(Replanned(disk)) /\ KbOk(kb)
      BY ReplannedGood DEF TypesInv
    <3> QED BY <3>2, <3>3, BeginTypes
  <2>3. CASE StartRun
    <3>1. PICK dry \in BOOLEAN :
            sess' = [Idle EXCEPT !.cmd = "run", !.pc = "pick", !.st = disk, !.kb = kb, !.dry = dry]
      BY <2>3 DEF StartRun
    <3>2. StateGood(disk) /\ KbOk(kb) /\ "pick" \notin {"agent", "judge"}
      BY DEF TypesInv
    <3> QED BY <3>1, <3>2, BeginTypes
  <2> QED BY <2>1, <2>2, <2>3
<1> QED BY <1>1, <1>2 DEF TypesInv, KbOk
\* A step of a command that goes on without new work.
LEMMA GoesOnTypes ==
  ASSUME TypesInv, UNCHANGED <<tree, lost>>, StateGood(disk'), KbOk(kb'),
         StateGood(sess'.st), Len(sess'.st.tasks) = Len(sess.st.tasks),
         sess'.kb = sess.kb, sess'.work = sess.work,
         sess'.pc \in {"agent", "judge"} => sess.pc \in {"agent", "judge"}
  PROVE  TypesInv'
BY DEF TypesInv, SessGood, WorkOk, KbOk

\* What the phases that take long hold when they are done.
LEMMA WorkTypes ==
  ASSUME IInv, TypesInv, BaselineRan \/ KnowledgeBuilt \/ CoverageImported
  PROVE  TypesInv'
<1>1. StateGood(sess.st) /\ KbOk(sess.kb) /\ StateGood(disk)
  BY DEF TypesInv, SessGood
<1>2. PICK know, st : /\ SaveKb(know, st) /\ KbOk(know) /\ StateGood(st)
                      /\ st.tasks = sess.st.tasks
  <2>1. CASE BaselineRan
    <3>1. PICK p \in BuildProblems : SaveKb(sess.kb, [sess.st EXCEPT !.problems = p])
      BY <2>1 DEF BaselineRan
    <3>2. Named(p)
      BY InputAssumption DEF Named
    <3>3. StateGood([sess.st EXCEPT !.problems = p])
      BY <1>1, <3>2, PartGood
    <3>4. [sess.st EXCEPT !.problems = p].tasks = sess.st.tasks
      BY <1>1 DEF StateGood
    <3> QED BY <1>1, <3>1, <3>3, <3>4
  <2>2. CASE KnowledgeBuilt
    <3>1. KbOk(merge_detected(sess.kb))
      BY <1>1, UtTaskAssumption DEF KbOk, merge_detected
    <3> QED BY <1>1, <2>2, <3>1 DEF KnowledgeBuilt
  <2>3. CASE CoverageImported
    <3>1. PICK gaps \in CoverageGaps : SaveKb(sess.kb, Coverage(sess.st, gaps))
      BY <2>3 DEF CoverageImported
    <3>2. StateGood(Coverage(sess.st, gaps))
      BY <1>1, CoverageGood
    <3>3. Coverage(sess.st, gaps).tasks = sess.st.tasks
      BY <1>1 DEF Coverage, StateGood
    <3> QED BY <1>1, <3>1, <3>2, <3>3
  <2> QED BY <2>1, <2>2, <2>3
<1>3. /\ sess'.st = st /\ sess'.kb = sess.kb /\ sess'.work = sess.work /\ sess'.pc = "save"
      /\ kb' = know /\ UNCHANGED <<disk, tree, lost>>
  BY <1>2 DEF SaveKb, IInv, SessOk
<1> QED BY <1>1, <1>2, <1>3, GoesOnTypes

\* Commands that end.
LEMMA EndingTypes ==
  ASSUME IInv, TypesInv, Save \/ EndRun \/ Approve \/ Die
  PROVE  TypesInv'
<1>1. sess' = Idle /\ UNCHANGED <<kb, tree>> /\ (disk' = disk \/ disk' = sess.st)
  BY DEF Save, EndRun, Approve, Die
<1>2. lost' \subseteq Files
  BY DEF Save, EndRun, Approve, Die, TypesInv, SessGood, WorkOk
<1>3. StateGood(disk')
  BY <1>1 DEF TypesInv, SessGood
<1> QED BY <1>1, <1>2, <1>3, EndTypes DEF TypesInv, KbOk

LEMMA AskTypes ==
  ASSUME IInv, TypesInv, decide_access
  PROVE  TypesInv'
<1>1. PICK t \in Technique["access"] : kb' = [sess.kb EXCEPT !["access"] = t]
  BY DEF decide_access
<1>2. KbOk(kb')
  BY <1>1, UtTaskAssumption DEF TypesInv, SessGood, KbOk
<1>3. /\ sess'.st = sess.st /\ sess'.kb = sess.kb /\ sess'.work = sess.work /\ sess'.pc = "approve"
      /\ UNCHANGED <<disk, tree, lost>>
  BY DEF decide_access, IInv, SessOk
<1> QED BY <1>2, <1>3, GoesOnTypes DEF TypesInv, SessGood

\* The files that a task may write are kept.
LEMMA PickTypes ==
  ASSUME IInv, TypesInv, Pick
  PROVE  TypesInv'
<1> DEFINE st(i) == WithStatus(sess.st, i, "IN_PROGRESS")
           before(i) == [f \in st(i).tasks[i].touches |-> tree[f]]
<1>1. PICK i \in DOMAIN sess.st.tasks :
        /\ disk' = st(i)
        /\ sess' = [sess EXCEPT !.st = st(i), !.pc = "agent",
                                !.work = [task |-> i, attempt |-> 1, partial |-> FALSE,
                                          before |-> before(i)]]
        /\ UNCHANGED <<kb, tree, lost>>
  BY DEF Pick
<1>2. StateGood(sess.st) /\ "IN_PROGRESS" \in Statuses
  BY DEF TypesInv, SessGood, Statuses
<1>3. StateGood(st(i)) /\ Len(st(i).tasks) = Len(sess.st.tasks)
  BY <1>2, WithStatusGood
<1> HIDE DEF st
<1>4. /\ sess'.st = st(i) /\ sess'.kb = sess.kb
      /\ sess'.work.task = i /\ sess'.work.attempt = 1 /\ sess'.work.before = before(i)
  BY <1>1 DEF IInv, SessOk
<1>5. i \in 1..Len(st(i).tasks) /\ Len(st(i).tasks) \in Nat
  BY <1>2, <1>3, GoodIsTyped
<1>6. DOMAIN before(i) \subseteq Files /\ \A f \in DOMAIN before(i) : before(i)[f] \in TreeValues
  <2>1. st(i).tasks[i].touches \subseteq Files
    BY <1>3, <1>5 DEF StateGood, TaskOk
  <2> QED BY <2>1 DEF TypesInv
<1> HIDE DEF before
<1>7. SessGood'
  BY <1>3, <1>4, <1>5, <1>6, UtTaskAssumption DEF SessGood, WorkOk, TypesInv
<1> QED BY <1>1, <1>3, <1>7 DEF TypesInv, KbOk

LEMMA DryRunTypes ==
  ASSUME IInv, TypesInv, DryRun
  PROVE  TypesInv'
<1> DEFINE st == WithStatus(sess.st, sess.work.task, "TODO")
<1>1. disk' = st /\ sess' = [sess EXCEPT !.st = st, !.pc = "end"] /\ UNCHANGED <<kb, tree, lost>>
  BY DEF DryRun
<1>2. StateGood(sess.st) /\ "TODO" \in Statuses /\ sess.work.task \in DOMAIN sess.st.tasks
  BY Working DEF TypesInv, SessGood, Statuses, DryRun
<1>3. StateGood(st) /\ Len(st.tasks) = Len(sess.st.tasks)
  BY <1>2, WithStatusGood
<1> HIDE DEF st
<1>4. sess'.st = st /\ sess'.kb = sess.kb /\ sess'.work = sess.work /\ sess'.pc = "end"
  BY <1>1 DEF IInv, SessOk
<1> QED BY <1>1, <1>3, <1>4, GoesOnTypes DEF TypesInv

LEMMA AgentTypes ==
  ASSUME IInv, TypesInv, call_agent \/ Fails
  PROVE  TypesInv'
<1>1. /\ UNCHANGED <<disk, kb, lost>> /\ sess.pc \in {"agent", "judge"}
  BY DEF call_agent, Fails
<1>2. tree' \in [Files -> TreeValues]
  BY DEF call_agent, Fails, TypesInv, TreeValues
<1>3. /\ sess'.st = sess.st /\ sess'.kb = sess.kb /\ sess'.work.task = sess.work.task
      /\ sess'.work.before = sess.work.before
  BY DEF call_agent, Fails, IInv, SessOk
<1>4. sess'.work.attempt \in 0..MaxAttempts
  <2>1. sess.work.attempt \in 0..MaxAttempts /\ MaxAttempts \in Nat
    BY UtTaskAssumption DEF TypesInv, SessGood, WorkOk
  <2>2. CASE call_agent
    BY <2>1, <2>2 DEF call_agent, IInv, SessOk
  <2>3. CASE Fails
    <3>1. sess'.work.attempt = sess.work.attempt + 1 /\ sess.work.attempt < MaxAttempts
      BY <2>3 DEF Fails, IInv, SessOk
    <3> QED BY <2>1, <3>1
  <2> QED BY <2>2, <2>3
<1> QED BY <1>1, <1>2, <1>3, <1>4 DEF TypesInv, SessGood, WorkOk, KbOk

LEMMA JudgeTypes ==
  ASSUME IInv, TypesInv, Passes \/ Blocks
  PROVE  TypesInv'
<1>1. /\ UNCHANGED <<disk, kb, lost>> /\ sess.pc = "judge"
  BY DEF Passes, Blocks
<1>2. tree' \in [Files -> TreeValues]
  <2>1. CASE Passes
    BY <2>1 DEF Passes, TypesInv, TreeValues
  <2>2. CASE Blocks
    BY <1>1, <2>2 DEF Blocks, TypesInv, SessGood, WorkOk
  <2> QED BY <2>1, <2>2
<1>3. PICK s \in Final :
        sess' = [sess EXCEPT !.pc = "record", !.st = WithStatus(sess.st, sess.work.task, s)]
  BY DEF Passes, Blocks, Final
<1> DEFINE st == WithStatus(sess.st, sess.work.task, s)
<1>4. StateGood(sess.st) /\ s \in Statuses /\ sess.work.task \in DOMAIN sess.st.tasks
  BY <1>1, Working DEF TypesInv, SessGood, Statuses
<1>5. StateGood(st) /\ Len(st.tasks) = Len(sess.st.tasks)
  BY <1>4, WithStatusGood
<1>6. sess' = [sess EXCEPT !.pc = "record", !.st = st]
  BY <1>3
<1> HIDE DEF st
<1>7. sess'.st = st /\ sess'.kb = sess.kb /\ sess'.work = sess.work /\ sess'.pc = "record"
  BY <1>6 DEF IInv, SessOk
<1>8. SessGood'
  BY <1>5, <1>7 DEF SessGood, WorkOk, TypesInv
<1> QED BY <1>1, <1>2, <1>8 DEF TypesInv, KbOk

LEMMA RecordTypes ==
  ASSUME IInv, TypesInv, Record \/ NothingReady
  PROVE  TypesInv'
<1>1. /\ sess'.st = sess.st /\ sess'.kb = sess.kb /\ sess'.work = sess.work
      /\ sess'.pc \in {"checkpoint", "end"}
      /\ UNCHANGED <<kb, tree, lost>> /\ (disk' = disk \/ disk' = sess.st)
  BY DEF Record, NothingReady, IInv, SessOk
<1>2. StateGood(disk') /\ StateGood(sess.st) /\ KbOk(kb)
  BY <1>1 DEF TypesInv, SessGood
<1> QED BY <1>1, <1>2, GoesOnTypes

LEMMA CheckpointTypes ==
  ASSUME IInv, TypesInv, checkpoint
  PROVE  TypesInv'
<1> DEFINE i == sess.work.task
           w == sess.st.tasks[i].wave
<1>1. UNCHANGED <<kb, tree, lost>> /\ sess.pc = "checkpoint"
  BY DEF checkpoint
<1>2. StateGood(sess.st) /\ i \in DOMAIN sess.st.tasks
  BY <1>1 DEF TypesInv, SessGood, IInv, Holds, SamePlan
<1>3. PICK st : /\ StateGood(st) /\ st.tasks = sess.st.tasks
                /\ sess' = [sess EXCEPT !.st = st, !.pc = "pick", !.work = NoWork]
                /\ disk' = disk \/ disk' = st
  <2>1. CASE sess' = [sess EXCEPT !.pc = "pick", !.work = NoWork] /\ UNCHANGED disk
    <3>1. sess' = [sess EXCEPT !.st = sess.st, !.pc = "pick", !.work = NoWork]
      BY <2>1 DEF IInv, SessOk
    <3> QED BY <1>2, <2>1, <3>1
  <2>2. ASSUME NEW result, disk' = Checked(sess.st, w, result),
               sess' = [sess EXCEPT !.st = Checked(sess.st, w, result), !.pc = "pick", !.work = NoWork]
        PROVE  \E st : /\ StateGood(st) /\ st.tasks = sess.st.tasks
                       /\ sess' = [sess EXCEPT !.st = st, !.pc = "pick", !.work = NoWork]
                       /\ disk' = disk \/ disk' = st
    <3>1. StateGood(Checked(sess.st, w, result)) /\ Checked(sess.st, w, result).tasks = sess.st.tasks
      BY <1>2, CheckedGood
    <3> QED BY <2>2, <3>1
  <2> QED BY <2>1, <2>2 DEF checkpoint
<1>4. /\ sess'.st = st /\ sess'.kb = sess.kb /\ sess'.pc = "pick"
      /\ sess'.work.task = 0 /\ sess'.work.attempt = 0
  BY <1>3 DEF NoWork, IInv, SessOk
<1>5. Len(st.tasks) \in Nat
  BY <1>3, GoodIsTyped
<1>6. SessGood'
  BY <1>3, <1>4, <1>5, UtTaskAssumption DEF SessGood, WorkOk, TypesInv
<1> QED BY <1>1, <1>3, <1>6 DEF TypesInv, KbOk

LEMMA NextTypes == IInv /\ TypesInv /\ [Next]_vars => TypesInv'
<1> SUFFICES ASSUME IInv, TypesInv, [Next]_vars PROVE TypesInv'
  OBVIOUS
<1>1. CASE UNCHANGED vars
  BY <1>1 DEF vars, TypesInv, SessGood, WorkOk, KbOk
<1>2. CASE CommandSteps
  BY <1>2, WorkTypes, EndingTypes, AskTypes, PickTypes, DryRunTypes, AgentTypes, JudgeTypes,
     RecordTypes, CheckpointTypes DEF CommandSteps, RunSteps
<1>3. CASE Next
  BY <1>2, <1>3, QuickTypes, StartTypes, EndingTypes DEF Next
<1> QED BY <1>1, <1>3

\* The types: the planner and every command write down tasks of known types that
\* may write files of the repository and wait only for tasks before them (plan.py:125).
THEOREM TaskTypes == Spec => []TypeOK
<1>1. IInv /\ TypesInv /\ [Next]_vars => TypesInv'
  BY NextTypes
<1> QED BY <1>1, TypesInit, TypesInvTypes, CommandsHoldTheFile, PTL DEF Spec

-----------------------------------------------------------------------------
\* Why a run comes to its end: every wave that is over was checked, or the run that
\* should have checked it died; and no task is ready

Rising(st) ==
  \A i \in DOMAIN st.tasks :
    /\ st.tasks[i].wave \in Nat
    /\ \A j \in DOMAIN st.tasks : i < j => st.tasks[i].wave <= st.tasks[j].wave
Results(st) == \A w \in DOMAIN st.checks : st.checks[w] \in {"PASSED", "FAILED"}
Settled(st, seen) ==
  \A i \in DOMAIN st.tasks :
    WaveOpen(st, st.tasks[i].wave) \/ st.tasks[i].wave \in DOMAIN st.checks \cup seen
ToCheck == IF sess.pc = "checkpoint" THEN {disk.tasks[sess.work.task].wave} ELSE {}
AtEnd == sess.pc = "end" /\ ~sess.dry => \A i \in DOMAIN sess.st.tasks : ~Ready(sess.st, i)

SettledInv ==
  /\ Rising(disk) /\ Results(disk) /\ deaths \in Nat
  /\ Settled(disk, missed \cup ToCheck)
  /\ sess.pc \in {"access", "approve"} => Rising(sess.st)
  /\ AtEnd

\* How many waves there are up to a wave.
LEMMA UpToFinite ==
  ASSUME NEW waves, waves \subseteq 1..4
  PROVE  /\ \A w \in 1..4 : /\ IsFiniteSet({v \in waves : v <= w})
                            /\ Cardinality({v \in waves : v <= w}) \in Nat
         /\ \A v, w \in 1..4 :
              v <= w => Cardinality({u \in waves : u <= v}) <= Cardinality({u \in waves : u <= w})
<1> DEFINE upto(w) == {v \in waves : v <= w}
<1>1. \A w \in 1..4 : IsFiniteSet(upto(w)) /\ Cardinality(upto(w)) \in Nat
  <2> SUFFICES ASSUME NEW w \in 1..4 PROVE IsFiniteSet(upto(w)) /\ Cardinality(upto(w)) \in Nat
    OBVIOUS
  <2>1. upto(w) \subseteq 1..4
    BY Zenon
  <2>2. IsFiniteSet(1..4)
    <3>1. \A n \in Nat : IsFiniteSet(1..n)
      BY FS_Interval
    <3>2. 4 \in Nat
      OBVIOUS
    <3> QED BY <3>1, <3>2, Zenon
  <2> QED BY <2>1, <2>2, FS_Subset, FS_CardinalityType
<1>2. ASSUME NEW v \in 1..4, NEW w \in 1..4, v <= w PROVE Cardinality(upto(v)) <= Cardinality(upto(w))
  <2>1. upto(v) \subseteq upto(w)
    <3>1. \A u \in waves : u \in Int
      OBVIOUS
    <3>2. ASSUME NEW u \in waves, u <= v PROVE u <= w
      BY <1>2, <3>1, <3>2
    <3> QED BY <3>2, Zenon
  <2> HIDE DEF upto
  <2> QED BY <1>1, <2>1, FS_Subset
<1> QED BY <1>1, <1>2

\* Of the plan, the waves rise with the tasks.
LEMMA PlanRises ==
  ASSUME NEW st, Items(st.items), StateOk(st)
  PROVE  Rising(Replanned(st))
<1> DEFINE items == st.items
           tasks == Tasks(items)
           waves == {tasks[i].wave : i \in DOMAIN tasks}
           upto(w) == {v \in waves : v <= w}
           plan == MakePlan(items)
<1>1. /\ Len(tasks) \in Nat /\ DOMAIN tasks = 1..Len(tasks)
      /\ \A i \in 1..Len(tasks) :
           /\ tasks[i].wave \in 1..4
           /\ \A j \in 1..Len(tasks) : j < i => tasks[j].wave <= tasks[i].wave
  BY TasksAre DEF IsList
<1>2. DOMAIN plan = 1..Len(tasks) /\ \A i \in 1..Len(tasks) : plan[i].wave = Cardinality(upto(tasks[i].wave))
  BY <1>1 DEF MakePlan, InWaves, Todo
<1>3. waves \subseteq 1..4
  BY <1>1
<1> HIDE DEF tasks, waves, plan
<1>4. \A w \in 1..4 : IsFiniteSet(upto(w)) /\ Cardinality(upto(w)) \in Nat
  BY <1>3, UpToFinite
<1>5. ASSUME NEW v \in 1..4, NEW w \in 1..4, v <= w PROVE Cardinality(upto(v)) <= Cardinality(upto(w))
  BY <1>3, <1>5, UpToFinite
<1> HIDE DEF upto
<1>6. Replanned(st).tasks = plan
  BY DEF Replanned, StateOk, plan
<1> QED BY <1>1, <1>2, <1>4, <1>5, <1>6 DEF Rising

\* A status changes nothing of the waves, and opens or closes only the task's own.
LEMMA MarkedWaves ==
  ASSUME NEW st, NEW new, NEW i \in DOMAIN st.tasks, NEW s, Marked(st, new, i, s)
  PROVE  /\ Rising(st) => Rising(new)
         /\ Results(st) => Results(new)
         /\ \A seen : Settled(st, seen) => Settled(new, seen \cup {st.tasks[i].wave})
         /\ \A seen : s \in {"TODO", "IN_PROGRESS"} /\ Settled(st, seen) => Settled(new, seen)
<1>1. Rising(st) => Rising(new)
  BY DEF Marked, Rising
<1>2. Results(st) => Results(new)
  BY DEF Marked, Results
<1>3. \A w : WaveOpen(st, w) /\ w # st.tasks[i].wave => WaveOpen(new, w)
  BY DEF Marked, WaveOpen
<1>4. s \in {"TODO", "IN_PROGRESS"} => WaveOpen(new, st.tasks[i].wave)
  BY DEF Marked, WaveOpen
<1>5. ASSUME NEW seen, Settled(st, seen) PROVE Settled(new, seen \cup {st.tasks[i].wave})
  BY <1>3, <1>5 DEF Settled, Marked
<1>6. ASSUME NEW seen, s \in {"TODO", "IN_PROGRESS"}, Settled(st, seen) PROVE Settled(new, seen)
  BY <1>3, <1>4, <1>6 DEF Settled, Marked
<1> QED BY <1>1, <1>2, <1>5, <1>6

LEMMA SameSettled ==
  ASSUME NEW st, NEW new, SamePlan(st, new)
  PROVE  /\ Rising(st) => Rising(new)
         /\ Results(st) => Results(new)
         /\ \A seen, more : Settled(st, seen) /\ seen \subseteq more => Settled(new, more)
         /\ \A i : Ready(new, i) <=> Ready(st, i)
BY DEF SamePlan, Rising, Results, Settled, WaveOpen, Ready

\* A step that leaves the plan and the commands' deaths alone.
LEMMA QuietSettled ==
  ASSUME SettledInv, SamePlan(disk, disk'), missed \subseteq missed', deaths' \in Nat,
         sess.pc # "checkpoint", sess'.pc \notin {"access", "approve", "end"}
  PROVE  SettledInv'
<1>1. ToCheck = {}
  BY DEF ToCheck
<1>2. Settled(disk, missed) /\ Rising(disk) /\ Results(disk)
  <2>1. missed \cup {} = missed
    OBVIOUS
  <2> QED BY <1>1, <2>1 DEF SettledInv
<1>3. Rising(disk') /\ Results(disk')
  BY <1>2, SameSettled
<1>4. Settled(disk', missed' \cup ToCheck')
  <2>1. missed \subseteq missed' \cup ToCheck'
    OBVIOUS
  <2> QED BY <1>2, <2>1, SameSettled
<1>5. AtEnd'
  BY DEF AtEnd
<1> QED BY <1>3, <1>4, <1>5 DEF SettledInv

LEMMA EndSettled ==
  ASSUME SettledInv, SamePlan(disk, disk'), missed \subseteq missed', deaths' \in Nat,
         sess.pc # "checkpoint", sess' = Idle
  PROVE  SettledInv'
BY QuietSettled DEF Idle

LEMMA QuickSettled ==
  ASSUME IInv, SettledInv, cmd_init \/ cmd_discover \/ cmd_scope \/ cmd_seams
  PROVE  SettledInv'
<1>1. UNCHANGED <<sess, missed, deaths>>
  BY DEF cmd_init, cmd_discover, cmd_scope, cmd_seams, InOneSave
<1>2. SamePlan(disk, disk')
  <2>1. CASE cmd_init
    BY <2>1, ItemsKeepPlan DEF cmd_init, InOneSave, IInv
  <2>2. CASE cmd_discover
    <3>1. PICK items : disk' = [disk EXCEPT !.items = items]
      BY <2>2 DEF cmd_discover, InOneSave
    <3> QED BY <3>1, ItemsKeepPlan DEF IInv
  <2>3. CASE cmd_scope
    <3>1. PICK items : disk' = [disk EXCEPT !.items = items]
      BY <2>3 DEF cmd_scope, InOneSave
    <3> QED BY <3>1, ItemsKeepPlan DEF IInv
  <2>4. CASE cmd_seams
    BY <2>4 DEF cmd_seams, SamePlan
  <2> QED BY <2>1, <2>2, <2>3, <2>4
<1>3. sess.pc \in {"idle"} \/ UNCHANGED disk
  BY DEF cmd_init, cmd_discover, cmd_scope, cmd_seams, InOneSave, IInv, Idling
<1>4. CASE sess.pc = "idle"
  <2>1. sess.pc # "checkpoint" /\ sess'.pc \notin {"access", "approve", "end"}
    BY <1>1, <1>4
  <2>2. deaths' \in Nat /\ missed \subseteq missed'
    BY <1>1 DEF SettledInv
  <2> QED BY <1>2, <2>1, <2>2, QuietSettled
<1>5. CASE UNCHANGED disk
  <2>1. ToCheck' = ToCheck /\ AtEnd' = AtEnd
    BY <1>1, <1>5 DEF ToCheck, AtEnd
  <2> QED BY <1>1, <1>5, <2>1 DEF SettledInv
<1> QED BY <1>3, <1>4, <1>5

LEMMA StartSettled ==
  ASSUME IInv, SettledInv, StartBaseline \/ StartKb \/ StartCoverage \/ StartRun
  PROVE  SettledInv'
<1>1. UNCHANGED <<disk, missed, deaths>> /\ sess.pc = "idle"
  BY DEF StartBaseline, StartKb, StartCoverage, StartRun, Begin, IInv, Idling
<1>2. sess'.pc \in {"work", "pick"}
  BY DEF StartBaseline, StartKb, StartCoverage, StartRun, Begin, Idle
<1>3. SamePlan(disk, disk') /\ missed \subseteq missed' /\ deaths' \in Nat
  BY <1>1 DEF SamePlan, SettledInv
<1>4. sess.pc # "checkpoint" /\ sess'.pc \notin {"access", "approve", "end"}
  BY <1>1, <1>2
<1> QED BY <1>3, <1>4, QuietSettled

\* A command that goes on without a save of the plan.
LEMMA GoesOnSettled ==
  ASSUME IInv, SettledInv,
         \/ BaselineRan \/ KnowledgeBuilt \/ CoverageImported \/ call_agent \/ Passes \/ Fails \/ Blocks
  PROVE  SettledInv'
<1>1. UNCHANGED <<disk, missed, deaths>> /\ sess.pc \in {"work", "agent", "judge"}
  BY DEF BaselineRan, KnowledgeBuilt, CoverageImported, SaveKb, call_agent, Passes, Fails, Blocks
<1>2. sess'.pc \in {"save", "agent", "judge", "record"}
  BY DEF BaselineRan, KnowledgeBuilt, CoverageImported, SaveKb, call_agent, Passes, Fails, Blocks,
         IInv, SessOk
<1>3. SamePlan(disk, disk') /\ missed \subseteq missed' /\ deaths' \in Nat
  BY <1>1 DEF SamePlan, SettledInv
<1>4. sess.pc # "checkpoint" /\ sess'.pc \notin {"access", "approve", "end"}
  BY <1>1, <1>2
<1> QED BY <1>3, <1>4, QuietSettled

LEMMA SaveSettled ==
  ASSUME IInv, SettledInv, Save \/ EndRun
  PROVE  SettledInv'
<1>1. UNCHANGED <<missed, deaths>> /\ sess.pc \in {"save", "end"} /\ disk' = sess.st /\ sess' = Idle
  BY DEF Save, EndRun
<1>2. SamePlan(disk, sess.st)
  BY <1>1 DEF IInv, Holds
<1> QED BY <1>1, <1>2, EndSettled DEF SettledInv

LEMMA PlanSettled ==
  ASSUME IInv, TypesInv, SettledInv, StartPlan \/ decide_access \/ Approve
  PROVE  SettledInv'
<1>1. CASE StartPlan
  <2> DEFINE st == Replanned(disk)
  <2>1. PICK pc \in {"access", "approve"} :
          sess' = [Idle EXCEPT !.cmd = "plan", !.pc = pc, !.st = st, !.kb = kb]
    BY <1>1 DEF StartPlan
  <2>2. Rising(st)
    BY PlanRises DEF IInv, TypesInv, StateGood, Numbered
  <2> HIDE DEF st
  <2>3. sess'.pc = pc /\ sess'.st = st
    BY <2>1 DEF Idle
  <2>4. UNCHANGED <<disk, missed, deaths>> /\ sess.pc = "idle"
    BY <1>1 DEF StartPlan, IInv, Idling
  <2>5. ToCheck' = {} /\ ToCheck = {} /\ AtEnd'
    BY <2>1, <2>3, <2>4 DEF ToCheck, AtEnd
  <2> QED BY <2>2, <2>3, <2>4, <2>5 DEF SettledInv
<1>2. CASE decide_access
  <2>1. sess.pc = "access" /\ UNCHANGED <<disk, missed, deaths>> /\ sess'.pc = "approve" /\ sess'.st = sess.st
    BY <1>2 DEF decide_access, IInv, SessOk
  <2>2. ToCheck' = {} /\ ToCheck = {} /\ AtEnd'
    BY <2>1 DEF ToCheck, AtEnd
  <2> QED BY <2>1, <2>2 DEF SettledInv
<1>3. CASE Approve
  <2>1. sess.pc = "approve" /\ sess' = Idle /\ UNCHANGED deaths /\ Fresh(sess.st) /\ Rising(sess.st)
    BY <1>3 DEF Approve, IInv, Holds, SettledInv
  <2>2. CASE disk' = sess.st
    <3>1. Results(sess.st)
      <4>1. DOMAIN <<>> = {}
        OBVIOUS
      <4> QED BY <2>1, <4>1 DEF Results, Fresh
    <3>2. \A seen : Settled(sess.st, seen)
      BY <2>1 DEF Settled, Fresh, WaveOpen
    <3>3. sess'.pc = "idle"
      BY <2>1 DEF Idle
    <3>4. AtEnd'
      BY <3>3 DEF AtEnd
    <3> QED BY <2>1, <2>2, <3>1, <3>2, <3>3, <3>4 DEF SettledInv
  <2>3. CASE UNCHANGED <<disk, missed>>
    BY <2>1, <2>3, EndSettled DEF SettledInv, SamePlan
  <2> QED BY <1>3, <2>2, <2>3 DEF Approve
<1> QED BY <1>1, <1>2, <1>3

LEMMA PickSettled ==
  ASSUME IInv, SettledInv, Pick
  PROVE  SettledInv'
<1>1. SamePlan(disk, sess.st) /\ StateOk(sess.st) /\ sess.pc = "pick" /\ UNCHANGED <<missed, deaths>>
  BY DEF Pick, IInv, Holds
<1>2. PICK i \in DOMAIN sess.st.tasks : disk' = WithStatus(sess.st, i, "IN_PROGRESS")
  BY DEF Pick
<1>3. sess'.pc = "agent"
  BY DEF Pick, IInv, SessOk
<1>4. Marked(disk, disk', i, "IN_PROGRESS") /\ i \in DOMAIN disk.tasks
  <2>1. Marked(sess.st, disk', i, "IN_PROGRESS")
    BY <1>1, <1>2, WithStatusMarks DEF Statuses
  <2> QED BY <1>1, <2>1 DEF Marked, SamePlan
<1>5. ToCheck = {} /\ ToCheck' = {} /\ AtEnd'
  BY <1>1, <1>3 DEF ToCheck, AtEnd
<1>6. Rising(disk') /\ Results(disk') /\ Settled(disk', missed \cup {})
  BY <1>4, <1>5, MarkedWaves DEF SettledInv
<1> QED BY <1>1, <1>3, <1>5, <1>6 DEF SettledInv

LEMMA DryRunSettled ==
  ASSUME IInv, SettledInv, DryRun
  PROVE  SettledInv'
<1> DEFINE i == sess.work.task
<1>1. /\ sess.pc = "agent" /\ sess.dry /\ UNCHANGED <<missed, deaths>>
      /\ disk' = WithStatus(sess.st, i, "TODO")
      /\ sess' = [sess EXCEPT !.st = disk', !.pc = "end"]
  BY DEF DryRun
<1>2. sess'.pc = "end" /\ sess'.dry
  BY <1>1 DEF IInv, SessOk
<1>3. Marked(disk, disk', i, "TODO") /\ i \in DOMAIN disk.tasks
  <2>1. Marked(sess.st, disk', i, "TODO")
    BY <1>1, Working, WithStatusMarks DEF Statuses
  <2> QED BY <1>1, <2>1, Working DEF Marked, SamePlan
<1> HIDE DEF i
<1>4. ToCheck = {} /\ ToCheck' = {} /\ AtEnd'
  BY <1>1, <1>2 DEF ToCheck, AtEnd
<1>5. Rising(disk') /\ Results(disk') /\ Settled(disk', missed \cup {})
  BY <1>3, <1>4, MarkedWaves DEF SettledInv
<1> QED BY <1>1, <1>2, <1>4, <1>5 DEF SettledInv

LEMMA RecordSettled ==
  ASSUME IInv, SettledInv, Record
  PROVE  SettledInv'
<1> DEFINE i == sess.work.task
<1>1. PICK s \in Final : Marked(disk, sess.st, i, s)
  BY DEF Record, IInv, Holds
<1>2. /\ i \in DOMAIN disk.tasks /\ disk' = sess.st /\ sess.pc = "record"
      /\ UNCHANGED <<missed, deaths>> /\ sess'.pc = "checkpoint" /\ sess'.work.task = i
  BY DEF Record, IInv, Holds, SessOk
<1>3. ToCheck = {} /\ ToCheck' = {disk.tasks[i].wave} /\ AtEnd'
  <2>1. disk'.tasks[i].wave = disk.tasks[i].wave
    BY <1>1, <1>2 DEF Marked
  <2> QED BY <1>2, <2>1 DEF ToCheck, AtEnd
<1> HIDE DEF i
<1>4. Settled(disk, missed) /\ Rising(disk) /\ Results(disk)
  <2>1. missed \cup {} = missed
    OBVIOUS
  <2> QED BY <1>3, <2>1 DEF SettledInv
<1>5. Rising(disk') /\ Results(disk') /\ Settled(disk', missed \cup {disk.tasks[i].wave})
  <2>1. Marked(disk, disk', i, s)
    BY <1>1, <1>2
  <2> QED BY <1>2, <1>4, <2>1, MarkedWaves
<1> QED BY <1>2, <1>3, <1>5 DEF SettledInv

LEMMA CheckpointSettled ==
  ASSUME IInv, SettledInv, checkpoint
  PROVE  SettledInv'
<1> DEFINE i == sess.work.task
           w == disk.tasks[i].wave
<1>1. /\ SamePlan(disk, sess.st) /\ i \in DOMAIN disk.tasks /\ StateOk(sess.st)
      /\ sess.pc = "checkpoint" /\ UNCHANGED <<missed, deaths>>
  BY DEF checkpoint, IInv, Holds
<1>2. sess.st.tasks = disk.tasks /\ sess.st.checks = disk.checks
  BY <1>1 DEF SamePlan
<1>3. sess'.pc = "pick"
  BY DEF checkpoint, IInv, SessOk
<1>4. ToCheck = {w} /\ ToCheck' = {} /\ AtEnd'
  BY <1>1, <1>3 DEF ToCheck, AtEnd
<1>5. CASE (WaveOpen(disk, w) \/ w \in DOMAIN disk.checks) /\ UNCHANGED disk
  <2>1. Settled(disk, missed)
    BY <1>4, <1>5 DEF SettledInv, Settled
  <2>2. Settled(disk', missed' \cup ToCheck')
    <3>1. missed' \cup ToCheck' = missed /\ disk' = disk
      BY <1>1, <1>4, <1>5
    <3> QED BY <2>1, <3>1
  <2> QED BY <1>1, <1>3, <1>4, <1>5, <2>2 DEF SettledInv
<1>6. CASE \E result \in {"PASSED", "FAILED"} : disk' = Checked(sess.st, w, result)
  <2>1. PICK result \in {"PASSED", "FAILED"} : disk' = Checked(sess.st, w, result)
    BY <1>6
  <2>2. /\ disk'.tasks = disk.tasks
        /\ disk'.checks = [v \in DOMAIN disk.checks \cup {w} |-> IF v = w THEN result ELSE disk.checks[v]]
    BY <1>1, <1>2, <2>1, CheckedAdds
  <2>3. Rising(disk')
    BY <2>2 DEF SettledInv, Rising
  <2>4. Results(disk')
    BY <2>2 DEF SettledInv, Results
  <2>5. Settled(disk, missed \cup {w})
    BY <1>4 DEF SettledInv
  <2> HIDE DEF w
  <2>6. DOMAIN disk'.checks = DOMAIN disk.checks \cup {w}
    BY <2>2
  <2>7. Settled(disk', missed)
    BY <2>2, <2>5, <2>6 DEF Settled, WaveOpen
  <2>8. missed' \cup ToCheck' = missed
    BY <1>1, <1>4
  <2> QED BY <1>1, <1>3, <1>4, <2>3, <2>4, <2>7, <2>8 DEF SettledInv
<1>7. \/ (WaveOpen(disk, w) \/ w \in DOMAIN disk.checks) /\ UNCHANGED disk
      \/ \E result \in {"PASSED", "FAILED"} : disk' = Checked(sess.st, w, result)
  <2>1. \A v : WaveOpen(sess.st, v) <=> WaveOpen(disk, v)
    BY <1>2 DEF WaveOpen
  <2> QED BY <1>2, <2>1 DEF checkpoint
<1> QED BY <1>5, <1>6, <1>7

LEMMA NothingReadySettled ==
  ASSUME IInv, SettledInv, NothingReady
  PROVE  SettledInv'
<1>1. UNCHANGED <<disk, missed, deaths>> /\ sess.pc = "pick" /\ \A i \in DOMAIN sess.st.tasks : ~Ready(sess.st, i)
  BY DEF NothingReady
<1>2. sess'.pc = "end" /\ sess'.st = sess.st
  BY DEF NothingReady, IInv, SessOk
<1>3. ToCheck = {} /\ ToCheck' = {} /\ AtEnd'
  BY <1>1, <1>2 DEF ToCheck, AtEnd
<1> QED BY <1>1, <1>2, <1>3 DEF SettledInv

LEMMA DieSettled ==
  ASSUME IInv, SettledInv, Die
  PROVE  SettledInv'
<1>1. UNCHANGED disk /\ sess' = Idle /\ deaths' \in Nat
  BY DEF Die, SettledInv
<1>2. CASE sess.pc # "checkpoint"
  <2>1. SamePlan(disk, disk') /\ missed' = missed
    BY <1>1, <1>2 DEF Die, SamePlan
  <2> QED BY <1>1, <1>2, <2>1, EndSettled
<1>3. CASE sess.pc = "checkpoint"
  <2> DEFINE w == disk.tasks[sess.work.task].wave
  <2>1. missed' = missed \cup UncheckedWave /\ SamePlan(disk, sess.st)
    BY <1>3 DEF Die, IInv, Holds
  <2>2. sess.st.tasks = disk.tasks /\ sess.st.checks = disk.checks
    BY <2>1 DEF SamePlan
  <2>3. \A v : WaveOpen(sess.st, v) <=> WaveOpen(disk, v)
    BY <2>2 DEF WaveOpen
  <2>4. WaveOpen(disk, w) \/ w \in DOMAIN disk.checks \/ w \in UncheckedWave
    BY <2>2, <2>3 DEF UncheckedWave
  <2>5. Settled(disk, missed \cup {w})
    BY <1>3 DEF SettledInv, ToCheck
  <2> HIDE DEF w
  <2>6. Settled(disk, missed \cup UncheckedWave)
    BY <2>4, <2>5 DEF Settled
  <2>7. sess'.pc = "idle"
    BY <1>1 DEF Idle
  <2>8. ToCheck' = {} /\ AtEnd'
    BY <2>7 DEF ToCheck, AtEnd
  <2>9. Settled(disk', missed' \cup ToCheck')
    <3>1. missed' \cup ToCheck' = missed \cup UncheckedWave /\ disk' = disk
      BY <1>1, <2>1, <2>8
    <3> QED BY <2>6, <3>1
  <2> QED BY <1>1, <2>7, <2>8, <2>9 DEF SettledInv
<1> QED BY <1>2, <1>3

LEMMA NextSettled == IInv /\ TypesInv /\ SettledInv /\ [Next]_vars => SettledInv'
<1> SUFFICES ASSUME IInv, TypesInv, SettledInv, [Next]_vars PROVE SettledInv'
  OBVIOUS
<1>1. CASE UNCHANGED vars
  <2>1. UNCHANGED <<disk, sess, missed, deaths>>
    BY <1>1 DEF vars
  <2>2. ToCheck' = ToCheck /\ AtEnd' = AtEnd
    BY <2>1 DEF ToCheck, AtEnd
  <2> QED BY <2>1, <2>2 DEF SettledInv
<1>2. CASE CommandSteps
  BY <1>2, GoesOnSettled, SaveSettled, PlanSettled, PickSettled, DryRunSettled, RecordSettled,
     CheckpointSettled, NothingReadySettled DEF CommandSteps, RunSteps
<1>3. CASE Next
  BY <1>2, <1>3, QuickSettled, StartSettled, PlanSettled, DieSettled DEF Next
<1> QED BY <1>1, <1>3

LEMMA InitSettled == Init => SettledInv
<1> SUFFICES ASSUME Init PROVE SettledInv
  OBVIOUS
<1>1. disk.tasks = <<>> /\ disk.checks = <<>> /\ sess.pc = "idle" /\ deaths \in Nat
  BY NoStateOk DEF Init, Idle
<1>2. DOMAIN <<>> = {}
  OBVIOUS
<1> QED BY <1>1, <1>2 DEF SettledInv, Rising, Results, Settled, AtEnd

\* Where every wave that is over was checked and passed and no task failed, the first
\* task that is left is ready.
LEMMA FirstIsReady ==
  ASSUME NEW st, StateGood(st), Rising(st), Results(st), Settled(st, {}),
         \A i \in DOMAIN st.tasks : st.tasks[i].status \notin {"BLOCKED", "IN_PROGRESS"},
         \A w \in DOMAIN st.checks : st.checks[w] # "FAILED",
         \E i \in DOMAIN st.tasks : st.tasks[i].status = "TODO"
  PROVE  \E i \in DOMAIN st.tasks : Ready(st, i)
<1> DEFINE left == {i \in DOMAIN st.tasks : st.tasks[i].status = "TODO"}
           first == Min(left)
<1>1. Len(st.tasks) \in Nat /\ DOMAIN st.tasks = 1..Len(st.tasks)
  BY GoodIsTyped
<1>2. first \in left /\ \A y \in left : first <= y
  <2>1. left \in SUBSET (1..Len(st.tasks)) /\ left # {}
    BY <1>1
  <2> HIDE DEF left
  <2> QED BY <1>1, <2>1, LeastIn
<1>3. \A j \in DOMAIN st.tasks : TaskOk(st.tasks[j], j) /\ st.tasks[j].wave \in Nat
  BY <1>1 DEF StateGood, Rising
<1> HIDE DEF first
<1>4. ASSUME NEW j \in DOMAIN st.tasks, j < first
      PROVE  st.tasks[j].status \in {"DONE", "PARTIAL"}
  <2>1. j \notin left
    BY <1>1, <1>2, <1>4
  <2>2. st.tasks[j].status \in Statuses
    BY <1>3 DEF TaskOk
  <2> QED BY <2>1, <2>2 DEF Statuses, Final
<1>5. ASSUME NEW j \in DOMAIN st.tasks, st.tasks[j].wave < st.tasks[first].wave
      PROVE  st.tasks[j].wave \in DOMAIN st.checks /\ st.checks[st.tasks[j].wave] = "PASSED"
  <2>1. ASSUME NEW k \in DOMAIN st.tasks, st.tasks[k].wave = st.tasks[j].wave PROVE k < first
    <3>1. k # first
      BY <1>2, <1>3, <1>5, <2>1
    <3>2. ~ (first < k)
      <4>1. first < k => st.tasks[first].wave <= st.tasks[k].wave
        BY <1>2 DEF Rising
      <4> QED BY <1>2, <1>3, <1>5, <2>1, <4>1
    <3> QED BY <1>1, <1>2, <3>1, <3>2
  <2>2. ~WaveOpen(st, st.tasks[j].wave)
    BY <1>4, <2>1 DEF WaveOpen
  <2>3. st.tasks[j].wave \in DOMAIN st.checks
    BY <2>2 DEF Settled
  <2> QED BY <2>3 DEF Results
<1>6. \A d \in st.tasks[first].depends : st.tasks[d].status \in {"DONE", "PARTIAL", "DROPPED"}
  <2>1. first \in 1..Len(st.tasks)
    BY <1>1, <1>2
  <2>2. st.tasks[first].depends \subseteq 1..(first - 1)
    BY <1>2, <1>3 DEF TaskOk
  <2>3. \A d \in 1..(first - 1) : d \in DOMAIN st.tasks /\ d < first
    BY <1>1, <2>1
  <2> QED BY <1>4, <2>2, <2>3
<1>7. Ready(st, first)
  BY <1>2, <1>5, <1>6 DEF Ready
<1> QED BY <1>2, <1>7

\* run.py:207-271: a run that returns has done all it could.  A task is left only behind
\* a task that is blocked or was interrupted, or a checkpoint that failed or was missed.
THEOREM RunsFinish == Spec => RunFinishesThePlan
<1> DEFINE Finishes ==
             sess.cmd = "run" /\ sess.pc = "end" /\ ~sess.dry /\ sess'.cmd = "none" /\ deaths' = deaths =>
               \/ \A i \in DOMAIN disk'.tasks : disk'.tasks[i].status # "TODO"
               \/ \E i \in DOMAIN disk'.tasks : disk'.tasks[i].status \in {"BLOCKED", "IN_PROGRESS"}
               \/ \E w \in DOMAIN disk'.checks : disk'.checks[w] = "FAILED"
               \/ missed # {}
<1>1. ASSUME IInv, TypesInv, SettledInv, Next PROVE Finishes
  <2> SUFFICES ASSUME sess.cmd = "run", sess.pc = "end", ~sess.dry, sess'.cmd = "none",
                      deaths' = deaths, missed = {}
               PROVE  \/ \A i \in DOMAIN disk'.tasks : disk'.tasks[i].status # "TODO"
                      \/ \E i \in DOMAIN disk'.tasks : disk'.tasks[i].status \in {"BLOCKED", "IN_PROGRESS"}
                      \/ \E w \in DOMAIN disk'.checks : disk'.checks[w] = "FAILED"
    OBVIOUS
  <2>1. ~Die
    BY <1>1 DEF Die, SettledInv
  <2>2. ~(cmd_init \/ cmd_discover \/ cmd_scope \/ StartBaseline \/ StartKb \/ StartCoverage
            \/ StartPlan \/ StartRun)
    BY DEF cmd_init, cmd_discover, cmd_scope, InOneSave, StartBaseline, StartKb, StartCoverage,
           Begin, StartPlan, StartRun
  <2>3. ~cmd_seams
    BY DEF cmd_seams
  <2>4. ~(Pick \/ DryRun \/ call_agent \/ Passes \/ Fails \/ Blocks \/ Record \/ checkpoint \/ NothingReady)
    BY DEF Pick, DryRun, call_agent, Passes, Fails, Blocks, Record, checkpoint, NothingReady
  <2>5. ~(BaselineRan \/ KnowledgeBuilt \/ CoverageImported \/ Save \/ decide_access \/ Approve)
    BY DEF BaselineRan, KnowledgeBuilt, CoverageImported, Save, decide_access, Approve
  <2>6. EndRun
    BY <1>1, <2>1, <2>2, <2>3, <2>4, <2>5 DEF Next, CommandSteps, RunSteps
  <2>7. disk' = sess.st /\ StateGood(sess.st) /\ SamePlan(disk, sess.st)
    BY <1>1, <2>6 DEF EndRun, TypesInv, SessGood, IInv, Holds
  <2>8. Rising(sess.st) /\ Results(sess.st) /\ Settled(sess.st, {})
    <3>1. ToCheck = {}
      BY DEF ToCheck
    <3>2. Settled(disk, {}) /\ Rising(disk) /\ Results(disk)
      <4>1. missed \cup {} = {}
        OBVIOUS
      <4> QED BY <1>1, <3>1, <4>1 DEF SettledInv
    <3> QED BY <2>7, <3>2, SameSettled
  <2>9. \A i \in DOMAIN sess.st.tasks : ~Ready(sess.st, i)
    BY <1>1 DEF SettledInv, AtEnd
  <2> QED BY <2>7, <2>8, <2>9, FirstIsReady
<1>2. IInv /\ TypesInv /\ SettledInv /\ [Next]_vars => [Finishes]_vars
  BY <1>1
<1> HIDE DEF Finishes
<1>3. IInv /\ TypesInv /\ [Next]_vars => TypesInv'
  BY NextTypes
<1>4. Spec => [](IInv /\ TypesInv /\ SettledInv)
  BY <1>3, TypesInit, NextSettled, InitSettled, CommandsHoldTheFile, PTL DEF Spec
<1>5. Spec => [][Finishes]_vars
  BY <1>2, <1>4, PTL DEF Spec
<1> QED BY <1>5 DEF RunFinishesThePlan, Finishes

-----------------------------------------------------------------------------
\* Why a plan covers the scope: every item has its places, and every place is in one
\* task

\* In how many tasks an item must be.
Share(w) ==
  IF w.scope # "yes" \/ w.cat = "H" THEN 0
  ELSE IF w.kind = "type" THEN Len(w.includers) ELSE 1

LEMMA PlacesOfItem ==
  ASSUME NEW w, IsItem(w)
  PROVE  /\ Share(AfterPlanning(w)) \in Nat
         /\ DOMAIN Entries(w) = 1..Share(AfterPlanning(w))
         /\ AfterPlanning(w).id = w.id
<1> DEFINE new == AfterPlanning(w)
<1>1. new.id = w.id /\ new.cat = w.cat /\ new.kind = w.kind /\ new.includers = w.includers
  BY DEF AfterPlanning, IsItem
<1>2. DOMAIN <<>> = 1..0 /\ 0 \in Nat
  OBVIOUS
<1>3. CASE ~Planned(w) \/ Unreferenced(w)
  <2>1. Entries(w) = <<>>
    BY <1>3 DEF Entries
  <2>2. new.scope # "yes" \/ new.cat = "H"
    BY <1>1, <1>3 DEF AfterPlanning, Planned, IsItem
  <2>3. Share(new) = 0
    BY <2>2 DEF Share
  <2> QED BY <1>1, <1>2, <2>1, <2>3
<1>4. CASE Planned(w) /\ ~Unreferenced(w) /\ w.kind = "type"
  <2>1. Len(w.includers) \in Nat
    BY DEF IsItem
  <2>2. DOMAIN Entries(w) = 1..Len(w.includers)
    BY <1>4 DEF Entries
  <2>3. CASE w.includers = <<>>
    <3>1. new.scope # "yes" /\ Len(w.includers) = 0
      BY <1>4, <2>3 DEF AfterPlanning, NotIncluded, IsItem
    <3> QED BY <1>1, <1>2, <2>2, <3>1 DEF Share
  <2>4. CASE w.includers # <<>>
    <3>1. new = w /\ w.scope = "yes" /\ w.cat # "H"
      BY <1>4, <2>4 DEF AfterPlanning, NotIncluded, Planned
    <3> QED BY <1>1, <1>4, <2>1, <2>2, <3>1 DEF Share
  <2> QED BY <2>3, <2>4
<1>5. CASE Planned(w) /\ ~Unreferenced(w) /\ w.kind # "type"
  <2>1. new = w /\ w.scope = "yes" /\ w.cat # "H"
    BY <1>5 DEF AfterPlanning, NotIncluded, Planned
  <2>2. Share(new) = 1
    BY <1>5, <2>1 DEF Share
  <2>3. \A e : DOMAIN <<e>> = 1..1
    OBVIOUS
  <2>4. \E e : Entries(w) = <<e>>
    BY <1>5 DEF Entries
  <2> QED BY <1>1, <2>2, <2>3, <2>4
<1> QED BY <1>3, <1>4, <1>5

\* An item's places are in different groups: the tests that include a header are
\* different files.
LEMMA EntriesApart ==
  ASSUME NEW w, IsItem(w)
  PROVE  /\ \A k \in DOMAIN Entries(w) : Entries(w)[k].id = w.id
         /\ \A j, k \in DOMAIN Entries(w) : SameGroup(Entries(w)[j], Entries(w)[k]) => j = k
<1>1. \A f, type, header : /\ Entry(w, f, type, header).id = w.id
                           /\ Entry(w, f, type, header).file = f
  BY DEF Entry
<1>2. CASE ~Planned(w) \/ Unreferenced(w)
  <2>1. Entries(w) = <<>>
    BY <1>2 DEF Entries
  <2> QED BY <2>1
<1>3. CASE Planned(w) /\ ~Unreferenced(w) /\ w.kind = "type"
  <2> DEFINE type(i) == IF w.includers[i] \in MockFiles THEN "fix-mocks" ELSE "update-tests"
  <2>1. Entries(w) = [i \in 1..Len(w.includers) |-> Entry(w, w.includers[i], type(i), TRUE)]
    BY <1>3 DEF Entries
  <2>2. \A i, j \in 1..Len(w.includers) : w.includers[i] = w.includers[j] => i = j
    BY DEF IsItem, IsInjective
  <2> HIDE DEF type
  <2>3. DOMAIN Entries(w) = 1..Len(w.includers)
    BY <2>1
  <2>4. \A i \in 1..Len(w.includers) :
          Entries(w)[i].id = w.id /\ Entries(w)[i].file = w.includers[i]
    <3> SUFFICES ASSUME NEW i \in 1..Len(w.includers)
                 PROVE  Entries(w)[i].id = w.id /\ Entries(w)[i].file = w.includers[i]
      OBVIOUS
    <3> DEFINE e == Entry(w, w.includers[i], type(i), TRUE)
    <3>1. Entries(w)[i] = e
      BY <2>1
    <3>2. e.id = w.id /\ e.file = w.includers[i]
      BY <1>1
    <3> HIDE DEF e
    <3> QED BY <3>1, <3>2
  <2> QED BY <2>2, <2>3, <2>4 DEF SameGroup
<1>4. CASE Planned(w) /\ ~Unreferenced(w) /\ w.kind # "type"
  <2>1. \E f, type, header : Entries(w) = <<Entry(w, f, type, header)>>
    BY <1>4 DEF Entries
  <2>2. PICK e : Entries(w) = <<e>> /\ e.id = w.id
    BY <1>1, <2>1
  <2>3. DOMAIN Entries(w) = {1} /\ Entries(w)[1] = e
    BY <2>2
  <2> QED BY <2>2, <2>3
<1> QED BY <1>2, <1>3, <1>4

LEMMA GreatestIn ==
  ASSUME NEW n \in Nat, NEW S \in SUBSET (1..n), S # {}
  PROVE  \E x \in S : \A y \in S : y <= x
<1> DEFINE T == {n + 1 - x : x \in S}
           x == n + 1 - Min(T)
<1>1. T \in SUBSET (1..n) /\ T # {}
  <2>1. \A y \in S : n + 1 - y \in 1..n
    OBVIOUS
  <2>2. T \subseteq 1..n
    BY <2>1, Zenon
  <2> QED BY <2>2, Zenon
<1>2. Min(T) \in T /\ \A y \in T : Min(T) <= y
  <2> HIDE DEF T
  <2> QED BY <1>1, LeastIn
<1>3. Min(T) \in 1..n
  BY <1>1, <1>2
<1>4. x \in S
  <2>1. PICK z \in S : Min(T) = n + 1 - z
    BY <1>2
  <2> HIDE DEF T
  <2>2. x = z
    BY <1>3, <2>1
  <2> QED BY <2>1, <2>2
<1>5. \A y \in S : n + 1 - y \in T
  OBVIOUS
<1> HIDE DEF T
<1>6. \A y \in S : y <= x
  BY <1>2, <1>3, <1>5
<1> QED BY <1>4, <1>6

LEMMA GreatestIs ==
  ASSUME NEW n \in Nat, NEW S \in SUBSET (1..n), S # {}
  PROVE  Max(S) \in S /\ \A y \in S : y <= Max(S)
<1>1. PICK x \in S : \A y \in S : y <= x
  BY GreatestIn
<1>2. \A y \in S : x >= y
  BY <1>1
<1>3. Max(S) \in S /\ \A y \in S : Max(S) >= y
  BY <1>2 DEF Max
<1>4. \A y \in S : y \in Int
  OBVIOUS
<1> QED BY <1>3, <1>4

\* The places of the group of place i before it.
GroupBefore(entries, i) == {j \in 1..(i - 1) : SameGroup(entries[j], entries[i])}

\* What the rule of the planner says of place i, f being what it says of the others.
Told(entries, f, i) ==
  Put(IF GroupBefore(entries, i) = {} THEN Nothing ELSE f[Max(GroupBefore(entries, i))], entries[i])

LEMMA GroupBeforeIs ==
  ASSUME NEW entries, NEW n \in Nat, NEW i \in 1..n, GroupBefore(entries, i) # {}
  PROVE  /\ Max(GroupBefore(entries, i)) \in 1..n /\ Max(GroupBefore(entries, i)) < i
         /\ SameGroup(entries[Max(GroupBefore(entries, i))], entries[i])
         /\ \A j \in GroupBefore(entries, i) : j <= Max(GroupBefore(entries, i))
<1>1. i - 1 \in Nat /\ GroupBefore(entries, i) \in SUBSET (1..(i - 1))
  BY DEF GroupBefore
<1>2. /\ Max(GroupBefore(entries, i)) \in GroupBefore(entries, i)
      /\ \A j \in GroupBefore(entries, i) : j <= Max(GroupBefore(entries, i))
  BY <1>1, GreatestIs
<1>3. Max(GroupBefore(entries, i)) \in 1..(i - 1) /\ SameGroup(entries[Max(GroupBefore(entries, i))], entries[i])
  BY <1>2 DEF GroupBefore
<1> QED BY <1>2, <1>3

\* The rule determines what every place says: by induction over the list.
LEMMA FilledIs ==
  ASSUME NEW entries, IsList(entries)
  PROVE  \A i \in 1..Len(entries) : Filled(entries)[i] = Told(entries, Filled(entries), i)
<1> DEFINE N == Len(entries)
           Step(f) == [i \in DOMAIN entries |-> Told(entries, f, i)]
           Some(n) == \E f : \A i \in 1..n : f[i] = Told(entries, f, i)
           Bad == {n \in 1..N : ~Some(n)}
<1>1. N \in Nat /\ DOMAIN entries = 1..N
  BY DEF IsList
<1>2. Some(0)
  OBVIOUS
<1>3. ASSUME NEW m \in 1..N, Some(m - 1) PROVE Some(m)
  <2>1. PICK f : \A i \in 1..(m - 1) : f[i] = Told(entries, f, i)
    BY <1>3
  <2> DEFINE g == [i \in 1..N |-> IF i = m THEN Told(entries, f, m) ELSE f[i]]
  <2>2. ASSUME NEW i \in 1..m PROVE Told(entries, g, i) = Told(entries, f, i)
    <3>1. CASE GroupBefore(entries, i) = {}
      BY <3>1 DEF Told
    <3>2. CASE GroupBefore(entries, i) # {}
      <4> DEFINE k == Max(GroupBefore(entries, i))
      <4>1. k \in 1..m /\ k < i
        BY <1>1, <3>2, GroupBeforeIs
      <4>2. g[k] = f[k]
        <5> HIDE DEF N, k
        <5> QED BY <1>1, <4>1
      <4> HIDE DEF g
      <4> QED BY <3>2, <4>2 DEF Told
    <3> QED BY <3>1, <3>2
  <2>3. \A i \in 1..m : g[i] = Told(entries, f, i)
    <3>1. \A i \in 1..m : i # m => i \in 1..(m - 1)
      BY <1>1
    <3> HIDE DEF N
    <3> QED BY <1>1, <2>1, <3>1
  <2> HIDE DEF g
  <2> QED BY <2>2, <2>3
<1>4. Bad = {}
  <2> SUFFICES ASSUME Bad # {} PROVE FALSE
    OBVIOUS
  <2>1. Min(Bad) \in Bad /\ \A y \in Bad : Min(Bad) <= y
    <3>1. Bad \in SUBSET (1..N)
      OBVIOUS
    <3> HIDE DEF Bad, N
    <3> QED BY <1>1, <3>1, LeastIn
  <2> DEFINE m == Min(Bad)
  <2>2. m \in 1..N /\ ~Some(m) /\ m \in Int
    <3> HIDE DEF Some
    <3>1. m \in 1..N /\ ~Some(m)
      BY <2>1
    <3> HIDE DEF m
    <3> QED BY <1>1, <3>1
  <2>3. Some(m - 1)
    <3>1. CASE m = 1
      <4> HIDE DEF Some, m
      <4>1. m - 1 = 0
        BY <3>1
      <4> QED BY <1>2, <4>1
    <3>2. CASE m # 1
      <4>1. m - 1 \in 1..N /\ ~(m <= m - 1)
        BY <1>1, <2>2, <3>2
      <4>2. m - 1 \notin Bad
        BY <2>1, <4>1
      <4> HIDE DEF Some
      <4> QED BY <4>1, <4>2
    <3> QED BY <3>1, <3>2
  <2> HIDE DEF m, Some
  <2> QED BY <1>3, <2>2, <2>3
<1>5. PICK f : \A i \in 1..N : f[i] = Told(entries, f, i)
  <2>1. CASE N = 0
    BY <2>1
  <2>2. CASE N # 0
    <3>1. N \in 1..N
      BY <1>1, <2>2
    <3>2. Some(N)
      BY <1>4, <3>1
    <3> QED BY <3>2
  <2> QED BY <2>1, <2>2
<1> DEFINE h == [i \in DOMAIN entries |-> f[i]]
<1>6. h = Step(h)
  <2> SUFFICES ASSUME NEW i \in 1..N PROVE h[i] = Told(entries, h, i)
    BY <1>1
  <2>1. h[i] = Told(entries, f, i)
    BY <1>1, <1>5
  <2>2. GroupBefore(entries, i) # {} => h[Max(GroupBefore(entries, i))] = f[Max(GroupBefore(entries, i))]
    <3> SUFFICES ASSUME GroupBefore(entries, i) # {} PROVE h[Max(GroupBefore(entries, i))] = f[Max(GroupBefore(entries, i))]
      OBVIOUS
    <3>1. Max(GroupBefore(entries, i)) \in 1..N
      BY <1>1, GroupBeforeIs
    <3> QED BY <1>1, <3>1
  <2> HIDE DEF h
  <2>3. Told(entries, h, i) = Told(entries, f, i)
    BY <2>2 DEF Told
  <2> QED BY <2>1, <2>3
<1> HIDE DEF h
<1>7. Filled(entries) = Step(Filled(entries))
  BY <1>6 DEF Filled, Told, GroupBefore
<1> DEFINE F == Filled(entries)
<1>8. F = Step(F)
  BY <1>7
<1> HIDE DEF F
<1>9. \A i \in 1..N : Step(F)[i] = Told(entries, F, i)
  BY <1>1
<1> QED BY <1>8, <1>9 DEF F

\* The places of the task of place i up to i.
Sofar(entries, i) ==
  {j \in 1..i : /\ SameGroup(entries[j], entries[i])
                /\ \A k \in Opens(entries) : j < k /\ k <= i => ~SameGroup(entries[k], entries[i])}

\* A place that opens a task is alone in it at first; any other place joins the task of
\* the place of its group before it.
LEMMA SofarGrows ==
  ASSUME NEW entries, IsList(entries), NEW i \in 1..Len(entries)
  PROVE  /\ i \in Opens(entries) => Sofar(entries, i) = {i}
         /\ i \notin Opens(entries) /\ GroupBefore(entries, i) # {} =>
              /\ Sofar(entries, i) = Sofar(entries, Max(GroupBefore(entries, i))) \cup {i}
              /\ i \notin Sofar(entries, Max(GroupBefore(entries, i)))
<1> DEFINE opens == Opens(entries)
           N == Len(entries)
<1>1. N \in Nat /\ opens \subseteq 1..N
  BY DEF Opens, IsList
<1>2. SameGroup(entries[i], entries[i])
  BY DEF SameGroup
<1>3. ASSUME i \in opens PROVE Sofar(entries, i) = {i}
  BY <1>1, <1>2, <1>3 DEF Sofar
<1>4. ASSUME i \notin opens, GroupBefore(entries, i) # {}
      PROVE  /\ Sofar(entries, i) = Sofar(entries, Max(GroupBefore(entries, i))) \cup {i}
             /\ i \notin Sofar(entries, Max(GroupBefore(entries, i)))
  <2> DEFINE m == Max(GroupBefore(entries, i))
  <2>1. /\ m \in 1..N /\ m < i /\ SameGroup(entries[m], entries[i])
        /\ \A j \in GroupBefore(entries, i) : j <= m
    BY <1>1, <1>4, GroupBeforeIs
  <2> HIDE DEF m, opens, N
  <2>2. \A j \in 1..N : j < i /\ SameGroup(entries[j], entries[i]) => j <= m
    BY <1>1, <2>1 DEF GroupBefore
  <2>3. \A j : SameGroup(entries[j], entries[i]) <=> SameGroup(entries[j], entries[m])
    BY <2>1 DEF SameGroup
  <2>4. ASSUME NEW j \in Sofar(entries, i), j # i PROVE j \in Sofar(entries, m)
    <3>1. /\ j \in 1..N /\ j < i /\ SameGroup(entries[j], entries[i])
          /\ \A k \in opens : j < k /\ k <= i => ~SameGroup(entries[k], entries[i])
      BY <1>1, <2>4 DEF Sofar, opens, N
    <3>2. j \in 1..m
      BY <1>1, <2>1, <2>2, <3>1
    <3>3. \A k \in opens : j < k /\ k <= m => ~SameGroup(entries[k], entries[m])
      BY <1>1, <2>1, <2>3, <3>1
    <3> QED BY <2>3, <3>1, <3>2, <3>3 DEF Sofar, opens
  <2>5. ASSUME NEW j \in Sofar(entries, m) PROVE j \in Sofar(entries, i) /\ j # i
    <3>1. /\ j \in 1..m /\ SameGroup(entries[j], entries[m])
          /\ \A k \in opens : j < k /\ k <= m => ~SameGroup(entries[k], entries[m])
      BY <2>5 DEF Sofar, opens
    <3>2. j \in 1..i /\ j # i
      BY <1>1, <2>1, <3>1
    <3>3. ASSUME NEW k \in opens, j < k, k <= i, SameGroup(entries[k], entries[i]) PROVE FALSE
      <4>1. k \in 1..N /\ k < i
        BY <1>1, <1>4, <3>3 DEF opens
      <4>2. k <= m
        BY <2>2, <3>3, <4>1
      <4> QED BY <2>3, <3>1, <3>3, <4>2
    <3> QED BY <2>3, <3>1, <3>2, <3>3 DEF Sofar, opens
  <2>6. i \in Sofar(entries, i)
    <3>1. \A k \in opens : ~(i < k /\ k <= i)
      BY <1>1
    <3>2. i \in 1..i
      BY <1>1 DEF N
    <3> QED BY <1>2, <3>1, <3>2 DEF Sofar, opens
  <2> QED BY <2>4, <2>5, <2>6 DEF m
<1> QED BY <1>3, <1>4

\* The cases of the places S.
Load(entries, S) == UNION {{j} \X (1..entries[j].weight) : j \in S}

LEMMA LoadAdds ==
  ASSUME NEW entries, NEW S, NEW i, i \notin S, entries[i].weight \in Nat,
         IsFiniteSet(Load(entries, S))
  PROVE  /\ IsFiniteSet(Load(entries, S \cup {i}))
         /\ Cardinality(Load(entries, S \cup {i})) = Cardinality(Load(entries, S)) + entries[i].weight
<1> DEFINE w == entries[i].weight
           old == Load(entries, S)
           new == {i} \X (1..w)
<1>1. Load(entries, S \cup {i}) = old \cup new
  BY DEF Load
<1>2. old \cap new = {}
  BY DEF Load
<1>3. w \in Nat /\ IsFiniteSet(1..w) /\ Cardinality(1..w) = w
  <2> HIDE DEF w
  <2>1. w \in Nat
    BY DEF w
  <2>2. w \in Int /\ 1 \in Int /\ (IF 1 > w THEN 0 ELSE w - 1 + 1) = w
    BY <2>1
  <2> QED BY <2>1, <2>2, FS_Interval
<1> DEFINE f == [c \in 1..w |-> <<i, c>>]
<1>4. f \in Surjection(1..w, new) /\ f \in Injection(1..w, new)
  <2> HIDE DEF w
  <2>1. f \in [1..w -> new] /\ \A nc \in new : \E c \in 1..w : f[c] = nc
    OBVIOUS
  <2>2. \A c, d \in 1..w : f[c] = f[d] => c = d
    OBVIOUS
  <2> HIDE DEF f, new
  <2> QED BY <2>1, <2>2 DEF Surjection, Injection, IsInjective
<1> HIDE DEF f, w, new, old
<1>5. IsFiniteSet(new) /\ Cardinality(new) = w
  BY <1>3, <1>4, FS_Surjection
<1>6. IsFiniteSet(old)
  BY DEF old
<1>7. /\ IsFiniteSet(old \cup new)
      /\ Cardinality(old \cup new) = Cardinality(old) + Cardinality(new) - Cardinality(old \cap new)
  BY <1>5, <1>6, FS_Union
<1>8. Cardinality(old \cap new) = 0 /\ Cardinality(old) \in Nat
  BY <1>2, <1>6, FS_EmptySet, FS_CardinalityType
<1>9. Cardinality(old \cup new) = Cardinality(old) + w
  <2> DEFINE a == Cardinality(old)
             b == Cardinality(old \cap new)
             c == Cardinality(old \cup new)
  <2>1. c = a + w - b /\ b = 0 /\ a \in Nat
    BY <1>5, <1>7, <1>8
  <2> HIDE DEF a, b, c
  <2>2. c = a + w
    BY <1>3, <2>1
  <2> QED BY <2>2 DEF a, c
<1> QED BY <1>1, <1>7, <1>9 DEF w, old

\* What the rule says of a task is what it holds, and that is never more than it may:
\* by induction over the list.
LEMMA FilledHolds ==
  ASSUME NEW entries, Entered(entries), NEW i \in 1..Len(entries)
  PROVE  /\ IsFiniteSet(Load(entries, Sofar(entries, i)))
         /\ Cardinality(Sofar(entries, i)) \in 1..MaxFunctions
         /\ \/ Cardinality(Sofar(entries, i)) = 1
            \/ Cardinality(Load(entries, Sofar(entries, i))) <= MaxCases
<1> DEFINE N == Len(entries)
           F == Filled(entries)
           so(k) == Sofar(entries, k)
           load(k) == Load(entries, so(k))
           Small(k) ==
             /\ IsFiniteSet(so(k)) /\ IsFiniteSet(load(k))
             /\ F[k].held = Cardinality(so(k)) /\ F[k].held \in 1..MaxFunctions
             /\ F[k].size = Cardinality(load(k)) /\ F[k].size \in Nat
             /\ F[k].held = 1 \/ F[k].size <= MaxCases
           Bad == {k \in 1..N : ~Small(k)}
<1>1. N \in Nat /\ IsList(entries) /\ DOMAIN entries = 1..N /\ \A k \in 1..N : entries[k].weight \in Nat
  BY DEF Entered, IsEntry, IsList
<1>2. \A k \in 1..N : F[k] = Told(entries, F, k)
  BY <1>1, FilledIs
<1>3. \A k \in 1..N : k \in Opens(entries) <=> F[k].held = 1
  BY <1>1 DEF Opens
<1>4. /\ \A k \in 1..N : k \in Opens(entries) => so(k) = {k}
      /\ \A k \in 1..N : k \notin Opens(entries) /\ GroupBefore(entries, k) # {} =>
           /\ so(k) = so(Max(GroupBefore(entries, k))) \cup {k}
           /\ k \notin so(Max(GroupBefore(entries, k)))
  BY <1>1, SofarGrows
<1> HIDE DEF F, so
\* The rule, for a place that begins a task and for one that joins it.
<1>5. ASSUME NEW t, NEW e, e.weight \in Nat,
             t = Nothing \/ (t.held \in 1..MaxFunctions /\ t.size \in Nat)
      PROVE  \/ Put(t, e).held = 1 /\ Put(t, e).size = e.weight
             \/ /\ t # Nothing /\ Put(t, e).held = t.held + 1 /\ Put(t, e).size = t.size + e.weight
                /\ Put(t, e).held \in 2..MaxFunctions /\ Put(t, e).size <= MaxCases
  <2>1. CASE t = Nothing
    BY <1>5, <2>1 DEF Put, Nothing
  <2>2. CASE t # Nothing /\ (t.size + e.weight > MaxCases \/ t.held >= MaxFunctions)
    BY <1>5, <2>2 DEF Put, Nothing, MaxFunctions
  <2>3. CASE t # Nothing /\ ~(t.size + e.weight > MaxCases \/ t.held >= MaxFunctions)
    BY <1>5, <2>3 DEF Put, Nothing, MaxFunctions, MaxCases
  <2> QED BY <2>1, <2>2, <2>3
<1>6. ASSUME NEW k \in 1..N, \A j \in 1..N : j < k => Small(j) PROVE Small(k)
  <2> DEFINE m == Max(GroupBefore(entries, k))
             t == IF GroupBefore(entries, k) = {} THEN Nothing ELSE F[m]
             e == entries[k]
  <2>1. F[k] = Put(t, e)
    BY <1>2 DEF Told
  <2>2. GroupBefore(entries, k) # {} => Small(m) /\ t = F[m]
    <3> SUFFICES ASSUME GroupBefore(entries, k) # {} PROVE Small(m)
      OBVIOUS
    <3>1. m \in 1..N /\ m < k
      BY <1>1, GroupBeforeIs
    <3> HIDE DEF Small, m
    <3> QED BY <1>6, <3>1
  <2>3. t = Nothing \/ (GroupBefore(entries, k) # {} /\ Small(m) /\ t = F[m])
    <3> HIDE DEF Small, m
    <3> QED BY <2>2
  <2> HIDE DEF t, m
  <2>4. t = Nothing \/ (t.held \in 1..MaxFunctions /\ t.size \in Nat)
    BY <2>3
  <2>5. e.weight \in Nat
    BY <1>1
  <2> HIDE DEF e
  <2>6. \/ F[k].held = 1 /\ F[k].size = e.weight
        \/ /\ t # Nothing /\ F[k].held = t.held + 1 /\ F[k].size = t.size + e.weight
           /\ F[k].held \in 2..MaxFunctions /\ F[k].size <= MaxCases
    BY <1>5, <2>1, <2>4, <2>5
  <2>7. CASE F[k].held = 1 /\ F[k].size = e.weight
    <3>1. so(k) = {k}
      BY <1>3, <1>4, <2>7
    <3>2. Load(entries, {}) = {} /\ IsFiniteSet({}) /\ Cardinality({}) = 0
      BY FS_EmptySet DEF Load
    <3>3. IsFiniteSet(Load(entries, {})) /\ k \notin {} /\ {} \cup {k} = {k}
      BY <3>2
    <3>4. /\ IsFiniteSet(Load(entries, {} \cup {k}))
          /\ Cardinality(Load(entries, {} \cup {k})) = Cardinality(Load(entries, {})) + e.weight
      BY <2>5, <3>3, LoadAdds DEF e
    <3>5. IsFiniteSet(load(k)) /\ Cardinality(load(k)) = e.weight
      <4>1. load(k) = Load(entries, {} \cup {k})
        BY <3>1, <3>3
      <4>2. Cardinality(Load(entries, {})) = 0
        BY <3>2
      <4> HIDE DEF load, e
      <4>3. Cardinality(load(k)) = 0 + e.weight
        BY <3>4, <4>1, <4>2
      <4> QED BY <2>5, <3>4, <4>1, <4>3
    <3>6. IsFiniteSet(so(k)) /\ Cardinality(so(k)) = 1
      BY <3>1, FS_Singleton
    <3> HIDE DEF load
    <3> QED BY <2>5, <2>7, <3>5, <3>6 DEF MaxFunctions
  <2>8. CASE /\ t # Nothing /\ F[k].held = t.held + 1 /\ F[k].size = t.size + e.weight
             /\ F[k].held \in 2..MaxFunctions /\ F[k].size <= MaxCases
    <3>1. GroupBefore(entries, k) # {} /\ Small(m) /\ t = F[m]
      <4> HIDE DEF Small
      <4> QED BY <2>3, <2>8
    <3>2. k \notin Opens(entries)
      BY <1>3, <2>8 DEF MaxFunctions
    <3>3. so(k) = so(m) \cup {k} /\ k \notin so(m)
      BY <1>4, <3>1, <3>2 DEF m
    <3>4. IsFiniteSet(load(m)) /\ IsFiniteSet(so(m))
      BY <3>1
    <3>5. /\ IsFiniteSet(Load(entries, so(m) \cup {k}))
          /\ Cardinality(Load(entries, so(m) \cup {k})) = Cardinality(load(m)) + e.weight
      BY <2>5, <3>3, <3>4, LoadAdds DEF e
    <3>6. IsFiniteSet(so(m) \cup {k}) /\ Cardinality(so(m) \cup {k}) = Cardinality(so(m)) + 1
      BY <3>3, <3>4, FS_AddElement
    <3>7. IsFiniteSet(load(k)) /\ Cardinality(load(k)) = Cardinality(load(m)) + e.weight
      BY <3>3, <3>5
    <3>8. IsFiniteSet(so(k)) /\ Cardinality(so(k)) = Cardinality(so(m)) + 1
      BY <3>3, <3>6
    <3>9. t.held = Cardinality(so(m)) /\ t.size = Cardinality(load(m)) /\ t.held \in Nat /\ t.size \in Nat
      BY <3>1 DEF MaxFunctions
    <3> HIDE DEF load, so, F, t, e
    <3>10. F[k].held = Cardinality(so(k)) /\ F[k].size = Cardinality(load(k))
      BY <2>8, <3>7, <3>8, <3>9
    <3>11. F[k].held \in 1..MaxFunctions /\ F[k].size \in Nat
      BY <2>5, <2>8, <3>9 DEF MaxFunctions
    <3> QED BY <2>8, <3>7, <3>8, <3>10, <3>11
  <2> HIDE DEF Small
  <2> QED BY <2>6, <2>7, <2>8
<1>7. Bad = {}
  <2> SUFFICES ASSUME Bad # {} PROVE FALSE
    OBVIOUS
  <2> HIDE DEF Small
  <2>1. Bad \in SUBSET (1..N)
    OBVIOUS
  <2>2. Min(Bad) \in Bad /\ \A y \in Bad : Min(Bad) <= y
    <3> HIDE DEF Bad, N
    <3> QED BY <1>1, <2>1, LeastIn
  <2> DEFINE k == Min(Bad)
  <2>3. k \in 1..N /\ ~Small(k)
    BY <2>2
  <2> HIDE DEF k
  <2>4. \A j \in 1..N : j < k => Small(j)
    <3> SUFFICES ASSUME NEW j \in 1..N, j < k, ~Small(j) PROVE FALSE
      OBVIOUS
    <3>1. k <= j
      BY <2>2 DEF k
    <3> QED BY <1>1, <2>3, <3>1
  <2> QED BY <1>6, <2>3, <2>4
<1>8. Small(i)
  <2> HIDE DEF Small
  <2> QED BY <1>7
<1>9. /\ IsFiniteSet(load(i)) /\ Cardinality(so(i)) \in 1..MaxFunctions
      /\ Cardinality(so(i)) = 1 \/ Cardinality(load(i)) <= MaxCases
  BY <1>8
<1> QED BY <1>9 DEF so

\* The first place of a group opens a task; a place is in the task of the last place
\* of its group that opens one, up to itself.
LEMMA OneChunk ==
  ASSUME NEW entries, Entered(entries), NEW j \in 1..Len(entries)
  PROVE  /\ \E i \in Opens(entries) : j \in Chunk(entries, Opens(entries), i)
         /\ \A i, k \in Opens(entries) :
              /\ j \in Chunk(entries, Opens(entries), i)
              /\ j \in Chunk(entries, Opens(entries), k)
              => i = k
<1> DEFINE opens == Opens(entries)
           group == {i \in 1..Len(entries) : SameGroup(entries[i], entries[j])}
           first == Min(group)
           before == {i \in opens : i <= j /\ SameGroup(entries[i], entries[j])}
<1>1. Len(entries) \in Nat /\ DOMAIN entries = 1..Len(entries) /\ opens \subseteq 1..Len(entries)
  BY OpensAre DEF Entered, IsList
<1>2. first \in group /\ \A y \in group : first <= y
  <2>1. group \in SUBSET (1..Len(entries)) /\ j \in group
    BY DEF SameGroup
  <2> HIDE DEF group
  <2> QED BY <1>1, <2>1, LeastIn
<1>3. first \in 1..Len(entries) /\ SameGroup(entries[first], entries[j]) /\ first <= j
  <2>1. j \in group
    BY DEF SameGroup
  <2> QED BY <1>2, <2>1
<1> HIDE DEF first
<1>4. \A i \in 1..(first - 1) : ~SameGroup(entries[i], entries[first])
  <2> SUFFICES ASSUME NEW i \in 1..(first - 1), SameGroup(entries[i], entries[first]) PROVE FALSE
    OBVIOUS
  <2>1. i \in group
    BY <1>1, <1>3 DEF SameGroup
  <2> QED BY <1>1, <1>2, <1>3, <2>1
<1>5. first \in opens
  <2>1. GroupBefore(entries, first) = {}
    BY <1>4 DEF GroupBefore
  <2>2. Filled(entries)[first] = Told(entries, Filled(entries), first)
    BY <1>3, FilledIs DEF Entered
  <2>3. Filled(entries)[first] = Put(Nothing, entries[first])
    BY <2>1, <2>2 DEF Told
  <2>4. Put(Nothing, entries[first]).held = 1
    BY DEF Put, Nothing
  <2> QED BY <1>1, <1>3, <2>3, <2>4 DEF Opens
<1> HIDE DEF opens
<1>6. PICK i \in before : \A y \in before : y <= i
  <2>1. before \in SUBSET (1..Len(entries)) /\ before # {}
    BY <1>1, <1>3, <1>5
  <2> HIDE DEF before
  <2> QED BY <1>1, <2>1, GreatestIn
<1>7. j \in Chunk(entries, opens, i)
  <2>1. \A k \in opens : i < k /\ k <= j => ~SameGroup(entries[k], entries[i])
    <3> SUFFICES ASSUME NEW k \in opens, i < k, k <= j, SameGroup(entries[k], entries[i]) PROVE FALSE
      OBVIOUS
    <3>1. k \in before
      BY <1>6 DEF SameGroup
    <3> QED BY <1>1, <1>6, <3>1
  <2> QED BY <1>1, <1>6, <2>1 DEF Chunk, SameGroup
<1>8. ASSUME NEW a \in opens, NEW b \in opens,
             j \in Chunk(entries, opens, a), j \in Chunk(entries, opens, b), a < b
      PROVE  FALSE
  <2>1. b <= j /\ SameGroup(entries[b], entries[a])
    BY <1>8 DEF Chunk, SameGroup
  <2> QED BY <1>8, <2>1 DEF Chunk
<1>9. ASSUME NEW a \in opens, NEW b \in opens,
             j \in Chunk(entries, opens, a), j \in Chunk(entries, opens, b)
      PROVE  a = b
  <2>1. ~ (a < b) /\ ~ (b < a)
    BY <1>8, <1>9
  <2>2. a \in Int /\ b \in Int
    BY <1>1
  <2> QED BY <2>1, <2>2
<1>10. i \in opens
  BY <1>6
<1> QED BY <1>7, <1>9, <1>10, Zenon DEF opens

\* A task holds what its last place says.
LEMMA ChunkHolds ==
  ASSUME NEW entries, Entered(entries), NEW o \in Opens(entries)
  PROVE  /\ IsFiniteSet(Chunk(entries, Opens(entries), o))
         /\ IsFiniteSet(Load(entries, Chunk(entries, Opens(entries), o)))
         /\ o \in Chunk(entries, Opens(entries), o)
         /\ Cardinality(Chunk(entries, Opens(entries), o)) <= MaxFunctions
         /\ \/ Cardinality(Chunk(entries, Opens(entries), o)) = 1
            \/ Cardinality(Load(entries, Chunk(entries, Opens(entries), o))) <= MaxCases
<1> DEFINE opens == Opens(entries)
           N == Len(entries)
           C == Chunk(entries, opens, o)
<1>1. N \in Nat /\ opens \subseteq 1..N /\ DOMAIN entries = 1..N /\ o \in opens
  BY OpensAre DEF Entered, IsList
<1>2. C \in SUBSET (1..N) /\ o \in C
  BY <1>1 DEF Chunk, SameGroup
<1> HIDE DEF C, opens, N
<1>3. PICK g \in C : \A j \in C : j <= g
  BY <1>1, <1>2, GreatestIn
<1>4. /\ g \in 1..N /\ o <= g /\ SameGroup(entries[g], entries[o])
      /\ \A k \in opens : o < k /\ k <= g => ~SameGroup(entries[k], entries[o])
  BY <1>1, <1>3 DEF C, Chunk
<1>5. \A j : SameGroup(entries[j], entries[o]) <=> SameGroup(entries[j], entries[g])
  BY <1>4 DEF SameGroup
<1>6. ASSUME NEW j \in C PROVE j \in Sofar(entries, g)
  <2>1. j \in 1..N /\ o <= j /\ j <= g /\ SameGroup(entries[j], entries[o])
    BY <1>1, <1>3, <1>6 DEF C, Chunk
  <2>2. \A k \in opens : j < k /\ k <= g => ~SameGroup(entries[k], entries[g])
    BY <1>1, <1>4, <1>5, <2>1
  <2>3. j \in 1..g
    BY <1>1, <1>4, <2>1
  <2> QED BY <1>5, <2>1, <2>2, <2>3 DEF Sofar, opens
<1>7. ASSUME NEW j \in Sofar(entries, g) PROVE j \in C
  <2>1. /\ j \in 1..g /\ SameGroup(entries[j], entries[g])
        /\ \A k \in opens : j < k /\ k <= g => ~SameGroup(entries[k], entries[g])
    BY <1>7 DEF Sofar, opens
  <2>2. SameGroup(entries[o], entries[g])
    BY <1>4 DEF SameGroup
  <2>3. ~(j < o)
    BY <1>1, <1>4, <2>1, <2>2
  <2>4. j \in 1..N /\ o <= j
    BY <1>1, <1>4, <2>1, <2>3
  <2>5. \A k \in opens : o < k /\ k <= j => ~SameGroup(entries[k], entries[o])
    BY <1>1, <1>4, <2>1
  <2> QED BY <1>1, <1>5, <2>1, <2>4, <2>5 DEF C, Chunk
<1>8. C = Sofar(entries, g)
  BY <1>6, <1>7
<1>9. /\ IsFiniteSet(Load(entries, C)) /\ Cardinality(C) \in 1..MaxFunctions
      /\ Cardinality(C) = 1 \/ Cardinality(Load(entries, C)) <= MaxCases
  BY <1>4, <1>8, FilledHolds DEF N
<1>10. IsFiniteSet(C)
  <2>1. 1 \in Int /\ N \in Int
    BY <1>1
  <2>2. IsFiniteSet(1..N)
    BY <2>1, FS_Interval
  <2> QED BY <1>2, <2>2, FS_Subset
<1>11. Cardinality(C) <= MaxFunctions
  BY <1>9 DEF MaxFunctions
<1> QED BY <1>2, <1>9, <1>10, <1>11 DEF C, opens

\* The cases of an item in a task of the given type.
Cases(w, type) == IF w.kind \in {"baseline", "type"} THEN 1 ELSE Weight(w, type)

LEMMA EntriesWeigh ==
  ASSUME NEW w, IsItem(w), NEW k \in DOMAIN Entries(w)
  PROVE  Entries(w)[k].weight = Cases(w, Entries(w)[k].type)
<1>1. \A f, type, header : /\ Entry(w, f, type, header).type = type
                           /\ Entry(w, f, type, TRUE).weight = 1
                           /\ Entry(w, f, type, FALSE).weight = Weight(w, type)
  BY DEF Entry
<1>2. CASE ~Planned(w) \/ Unreferenced(w)
  BY <1>2 DEF Entries
<1>3. CASE Planned(w) /\ ~Unreferenced(w) /\ w.kind = "type"
  <2> DEFINE type(i) == IF w.includers[i] \in MockFiles THEN "fix-mocks" ELSE "update-tests"
  <2>1. Entries(w) = [i \in 1..Len(w.includers) |-> Entry(w, w.includers[i], type(i), TRUE)]
    BY <1>3 DEF Entries
  <2> HIDE DEF type
  <2>2. Entries(w)[k] = Entry(w, w.includers[k], type(k), TRUE)
    BY <2>1
  <2>3. Entries(w)[k].weight = 1
    BY <1>1, <2>2
  <2> QED BY <1>3, <2>3 DEF Cases
<1>4. CASE Planned(w) /\ ~Unreferenced(w) /\ w.kind = "baseline"
  <2>1. \E f, type : Entries(w) = <<Entry(w, f, type, TRUE)>>
    BY <1>4 DEF Entries
  <2>2. PICK e : Entries(w) = <<e>> /\ e.weight = 1
    BY <1>1, <2>1
  <2>3. Entries(w)[k] = e
    BY <2>2
  <2> QED BY <1>4, <2>2, <2>3 DEF Cases
<1>5. CASE Planned(w) /\ ~Unreferenced(w) /\ w.kind # "type" /\ w.kind # "baseline"
  <2>1. \E f, type : Entries(w) = <<Entry(w, f, type, FALSE)>>
    BY <1>5 DEF Entries
  <2>2. PICK f, type : Entries(w) = <<Entry(w, f, type, FALSE)>>
    BY <2>1
  <2> DEFINE e == Entry(w, f, type, FALSE)
  <2>3. e.weight = Weight(w, type) /\ e.type = type
    BY <1>1
  <2>4. Entries(w) = <<e>>
    BY <2>2
  <2> HIDE DEF e
  <2>5. Entries(w)[k] = e
    BY <2>4
  <2>6. e.weight = Weight(w, e.type)
    BY <2>3
  <2> QED BY <1>5, <2>5, <2>6 DEF Cases
<1> QED BY <1>2, <1>3, <1>4, <1>5

LEMMA CasesKept ==
  ASSUME NEW w, IsItem(w), NEW type
  PROVE  Cases(AfterPlanning(w), type) = Cases(w, type)
<1> DEFINE new == AfterPlanning(w)
<1>1. new.kind = w.kind /\ new.cases = w.cases /\ new.gaps = w.gaps
  BY DEF AfterPlanning, IsItem
<1> HIDE DEF new
<1>2. Weight(new, type) = Weight(w, type)
  BY <1>1, Zenon DEF Weight
<1> QED BY <1>1, <1>2, Zenon DEF Cases, new

\* A plan has each item in as many tasks as the item has places.
LEMMA ItemsPlanned ==
  ASSUME NEW items, Items(items), NumberedOnce(items), NEW n \in 1..Len(items)
  PROVE  Cardinality({t \in DOMAIN MakePlan(items) : items[n].id \in MakePlan(items)[t].items})
           = Share(AfterPlanning(items[n]))
<1> DEFINE w == items[n]
           m == Share(AfterPlanning(w))
           entries == Places(items)
           opens == Opens(entries)
           N == Len(entries)
           T == Len(Tasks(items))
           chunk(i) == Chunk(entries, opens, i)
           mine == {t \in 1..T : w.id \in Tasks(items)[t].items}
<1>1. {t \in DOMAIN MakePlan(items) : w.id \in MakePlan(items)[t].items} = mine
  <2>1. DOMAIN Tasks(items) = 1..T
    BY TasksListed DEF IsList
  <2>2. DOMAIN MakePlan(items) = 1..T
    BY <2>1 DEF MakePlan, InWaves
  <2>3. \A t \in 1..T : MakePlan(items)[t].items = Tasks(items)[t].items
    BY <2>1 DEF MakePlan, InWaves, Todo
  <2> QED BY <2>2, <2>3
<1>2. m \in Nat /\ DOMAIN Entries(w) = 1..m
  BY PlacesOfItem DEF Items
<1>3. /\ \A a \in 1..Len(items) : \A b \in DOMAIN Entries(items[a]) : Entries(items[a])[b].id = items[a].id
      /\ \A j, k \in 1..m : SameGroup(Entries(w)[j], Entries(w)[k]) => j = k
  BY <1>2, EntriesApart DEF Items
<1>4. PICK place \in [1..N -> PlaceSet(items)] :
        /\ \A i \in 1..N : entries[i] = Entries(items[place[i][1]])[place[i][2]]
        /\ \A i, j \in 1..N : place[i] = place[j] => i = j
        /\ \A p \in PlaceSet(items) : \E i \in 1..N : place[i] = p
  BY PlacesListed
<1>5. PICK begins \in [1..T -> opens] :
        /\ \A t \in 1..T : Tasks(items)[t] = Task(entries, opens, begins[t])
        /\ \A s, t \in 1..T : s < t => <<begins[s], begins[t]>> \in RankOrder(entries)
        /\ \A i \in opens : \E t \in 1..T : begins[t] = i
  BY TasksListed
<1>6. Entered(entries) /\ N \in Nat /\ DOMAIN entries = 1..N /\ opens \subseteq 1..N /\ T \in Nat
  BY TasksListed, OpensAre DEF Entered, IsList
<1>7. \A i \in 1..N : /\ place[i] = <<place[i][1], place[i][2]>>
                      /\ place[i][1] \in 1..Len(items)
                      /\ place[i][2] \in DOMAIN Entries(items[place[i][1]])
  BY <1>4, PlacesFinite
<1>8. \A k \in 1..m : <<n, k>> \in PlaceSet(items)
  BY <1>2, PlacesFinite
<1>9. \A i \in 1..N : /\ \E k \in opens : i \in chunk(k)
                      /\ \A k, l \in opens : i \in chunk(k) /\ i \in chunk(l) => k = l
  BY <1>6, OneChunk
<1>10. \A k \in opens : /\ chunk(k) \subseteq 1..N
                        /\ \A i, j \in chunk(k) : SameGroup(entries[i], entries[j])
  BY <1>6 DEF Chunk, SameGroup
<1>11. \A t \in 1..T : Tasks(items)[t].items = {entries[j].id : j \in chunk(begins[t])}
  <2> SUFFICES ASSUME NEW t \in 1..T
               PROVE  Tasks(items)[t].items = {entries[j].id : j \in chunk(begins[t])}
    OBVIOUS
  <2> DEFINE i == begins[t]
  <2>1. Tasks(items)[t] = Task(entries, opens, i)
    BY <1>5
  <2> HIDE DEF i, entries, opens
  <2>2. Task(entries, opens, i).items = {entries[j].id : j \in Chunk(entries, opens, i)}
    BY DEF Task
  <2> QED BY <2>1, <2>2, Zenon DEF i
<1>12. \A s, t \in 1..T : begins[s] = begins[t] => s = t
  <2> SUFFICES ASSUME NEW s \in 1..T, NEW t \in 1..T, begins[s] = begins[t] PROVE s = t
    OBVIOUS
  <2>1. \A x \in opens : <<x, x>> \notin RankOrder(entries)
    BY <1>6, RankOrders DEF Orders
  <2> HIDE DEF opens, T
  <2>2. ~ (s < t) /\ ~ (t < s)
    BY <1>5, <2>1
  <2> QED BY <1>6, <2>2 DEF T
<1> HIDE DEF w, m, entries, opens, N, T, chunk
<1> DEFINE at(k) == CHOOSE i \in 1..N : place[i] = <<n, k>>
           in(k) == CHOOSE t \in 1..T : at(k) \in chunk(begins[t])
<1>13. ASSUME NEW k \in 1..m
       PROVE  at(k) \in 1..N /\ place[at(k)] = <<n, k>> /\ entries[at(k)] = Entries(w)[k]
  <2>1. at(k) \in 1..N /\ place[at(k)] = <<n, k>>
    BY <1>4, <1>8
  <2> HIDE DEF at
  <2>2. entries[at(k)] = Entries(items[place[at(k)][1]])[place[at(k)][2]]
    BY <1>4, <2>1
  <2> QED BY <2>1, <2>2 DEF w
<1> HIDE DEF at
<1>14. ASSUME NEW k \in 1..m
       PROVE  in(k) \in 1..T /\ at(k) \in chunk(begins[in(k)])
  <2>1. PICK i \in opens : at(k) \in chunk(i)
    BY <1>9, <1>13
  <2>2. PICK t \in 1..T : begins[t] = i
    BY <1>5
  <2> QED BY <2>1, <2>2
<1> HIDE DEF in
<1>15. ASSUME NEW k \in 1..m PROVE in(k) \in mine
  <2>1. entries[at(k)].id = w.id
    BY <1>2, <1>3, <1>13 DEF w
  <2>2. w.id \in {entries[j].id : j \in chunk(begins[in(k)])}
    BY <1>14, <2>1
  <2> QED BY <1>11, <1>14, <2>2
<1>16. ASSUME NEW t \in mine PROVE \E k \in 1..m : in(k) = t
  <2>1. PICK j \in chunk(begins[t]) : entries[j].id = w.id
    BY <1>11
  <2>2. begins[t] \in opens /\ t \in 1..T
    BY <1>5
  <2>3. j \in 1..N
    BY <1>10, <2>2
  <2> DEFINE a == place[j][1]
             k == place[j][2]
  <2>4. place[j] = <<a, k>> /\ a \in 1..Len(items) /\ k \in DOMAIN Entries(items[a])
    BY <1>7, <2>3
  <2>5. entries[j] = Entries(items[a])[k]
    BY <1>4, <2>3
  <2> HIDE DEF a, k
  <2>6. items[a].id = items[n].id
    BY <1>3, <2>1, <2>4, <2>5 DEF w
  <2>7. a = n
    BY <2>4, <2>6 DEF NumberedOnce
  <2>8. k \in 1..m
    BY <1>2, <2>4, <2>7 DEF w
  <2>9. at(k) = j
    BY <1>4, <1>13, <2>3, <2>4, <2>7, <2>8
  <2>10. begins[in(k)] = begins[t]
    BY <1>5, <1>9, <1>14, <2>1, <2>2, <2>3, <2>8, <2>9
  <2>11. in(k) = t
    BY <1>12, <1>14, <2>2, <2>8, <2>10
  <2> QED BY <2>8, <2>11
<1>17. ASSUME NEW k \in 1..m, NEW l \in 1..m, in(k) = in(l) PROVE k = l
  <2>1. begins[in(k)] \in opens
    BY <1>5, <1>14
  <2>2. at(k) \in chunk(begins[in(k)]) /\ at(l) \in chunk(begins[in(k)])
    BY <1>14, <1>17
  <2>3. SameGroup(entries[at(k)], entries[at(l)])
    BY <1>10, <2>1, <2>2
  <2> QED BY <1>3, <1>13, <2>3
<1> DEFINE f == [k \in 1..m |-> in(k)]
<1> HIDE DEF mine
<1>18. f \in Surjection(1..m, mine) /\ f \in Injection(1..m, mine)
  BY <1>15, <1>16, <1>17 DEF Surjection, Injection, IsInjective
<1>19. IsFiniteSet(1..m) /\ Cardinality(1..m) = m
  BY <1>2, FS_Interval
<1> HIDE DEF f
<1>20. Cardinality(mine) = m
  BY <1>18, <1>19, FS_Surjection
<1> QED BY <1>1, <1>20 DEF w, m

\* A task of a plan holds no more than it may.
LEMMA TasksSmall ==
  ASSUME NEW items, Items(items), NumberedOnce(items), NEW t \in DOMAIN MakePlan(items),
         NEW S, S = {n \in 1..Len(items) : items[n].id \in MakePlan(items)[t].items}
  PROVE  /\ Cardinality(S) <= MaxFunctions
         /\ \/ Cardinality(S) = 1
            \/ Cardinality(CasesOf(items, S, MakePlan(items)[t].type)) <= MaxCases
<1> DEFINE entries == Places(items)
           opens == Opens(entries)
           N == Len(entries)
           T == Len(Tasks(items))
           task == Tasks(items)[t]
<1>1. t \in 1..T /\ MakePlan(items)[t].items = task.items /\ MakePlan(items)[t].type = task.type
  <2>1. DOMAIN Tasks(items) = 1..T
    BY TasksListed DEF IsList
  <2> QED BY <2>1 DEF MakePlan, InWaves, Todo
<1>2. PICK place \in [1..N -> PlaceSet(items)] :
        /\ \A i \in 1..N : entries[i] = Entries(items[place[i][1]])[place[i][2]]
        /\ \A i, j \in 1..N : place[i] = place[j] => i = j
        /\ \A p \in PlaceSet(items) : \E i \in 1..N : place[i] = p
  BY PlacesListed
<1>3. PICK begins \in [1..T -> opens] :
        /\ \A s \in 1..T : Tasks(items)[s] = Task(entries, opens, begins[s])
        /\ \A r, s \in 1..T : r < s => <<begins[r], begins[s]>> \in RankOrder(entries)
        /\ \A i \in opens : \E s \in 1..T : begins[s] = i
  BY TasksListed
<1>4. Entered(entries) /\ N \in Nat /\ DOMAIN entries = 1..N /\ opens \subseteq 1..N
  BY TasksListed, OpensAre DEF Entered, IsList
<1>5. \A i \in 1..N : /\ place[i][1] \in 1..Len(items)
                      /\ place[i][2] \in DOMAIN Entries(items[place[i][1]])
  BY <1>2, PlacesFinite
<1> DEFINE o == begins[t]
           C == Chunk(entries, opens, o)
           of(j) == place[j][1]
<1>6. o \in opens /\ task = Task(entries, opens, o)
  BY <1>1, <1>3
<1>7. /\ IsFiniteSet(C) /\ IsFiniteSet(Load(entries, C)) /\ o \in C
      /\ Cardinality(C) <= MaxFunctions
      /\ Cardinality(C) = 1 \/ Cardinality(Load(entries, C)) <= MaxCases
  BY <1>4, <1>6, ChunkHolds
<1>8. \A j \in C : j \in 1..N /\ entries[j].type = entries[o].type
  BY <1>4 DEF Chunk, SameGroup
<1> HIDE DEF o, opens, entries, N, T
<1>9. task.items = {entries[j].id : j \in C} /\ task.type = entries[o].type
  <2>1. /\ Task(entries, opens, o).items = {entries[j].id : j \in C}
        /\ Task(entries, opens, o).type = entries[o].type
    BY DEF Task
  <2> HIDE DEF task, C
  <2> QED BY <1>6, <2>1, Zenon
<1> HIDE DEF task, C
<1>10. ASSUME NEW j \in C
       PROVE  /\ of(j) \in 1..Len(items) /\ entries[j].id = items[of(j)].id
              /\ entries[j].weight = Cases(items[of(j)], task.type)
              /\ entries[j].weight \in Nat
  <2>1. /\ of(j) \in 1..Len(items) /\ place[j][2] \in DOMAIN Entries(items[of(j)])
        /\ entries[j] = Entries(items[of(j)])[place[j][2]] /\ entries[j].type = task.type
    BY <1>2, <1>5, <1>8, <1>9
  <2> HIDE DEF of
  <2>2. IsItem(items[of(j)])
    BY <2>1 DEF Items
  <2>3. entries[j].id = items[of(j)].id /\ entries[j].weight = Cases(items[of(j)], entries[j].type)
    BY <2>1, <2>2, EntriesApart, EntriesWeigh
  <2>4. entries[j].weight \in Nat
    BY <1>4, <1>8 DEF Entered, IsEntry, N
  <2> QED BY <2>1, <2>3, <2>4
<1>11. ASSUME NEW j \in C PROVE of(j) \in S
  <2>1. entries[j].id \in task.items
    BY <1>9
  <2> QED BY <1>1, <1>10, <2>1
<1>12. ASSUME NEW n \in S PROVE \E j \in C : of(j) = n
  <2>1. n \in 1..Len(items) /\ items[n].id \in task.items
    BY <1>1
  <2>2. PICK j \in C : items[n].id = entries[j].id
    BY <1>9, <2>1
  <2>3. of(j) = n
    BY <1>10, <2>1, <2>2 DEF NumberedOnce
  <2> QED BY <2>3
<1> HIDE DEF of
<1> DEFINE f == [j \in C |-> of(j)]
<1>13. f \in Surjection(C, S)
  BY <1>11, <1>12 DEF Surjection
<1> HIDE DEF f
<1>14. IsFiniteSet(S) /\ Cardinality(S) <= Cardinality(C)
  BY <1>7, <1>13, FS_Surjection
<1> DEFINE K == CasesOf(items, S, task.type)
           h == [jc \in Load(entries, C) |-> <<of(jc[1]), jc[2]>>]
<1>15. K = UNION {{n} \X (1..Cases(items[n], task.type)) : n \in S}
  BY DEF CasesOf, Cases
<1> HIDE DEF K
<1>16. ASSUME NEW jc \in Load(entries, C) PROVE <<of(jc[1]), jc[2]>> \in K
  <2>1. PICK j \in C : jc \in {j} \X (1..entries[j].weight)
    BY DEF Load
  <2>2. jc[1] = j /\ jc[2] \in 1..Cases(items[of(j)], task.type)
    BY <1>10, <2>1
  <2> QED BY <1>11, <1>15, <2>2
<1>17. ASSUME NEW nc \in K PROVE \E jc \in Load(entries, C) : <<of(jc[1]), jc[2]>> = nc
  <2>1. PICK n \in S : nc \in {n} \X (1..Cases(items[n], task.type))
    BY <1>15
  <2>2. PICK j \in C : of(j) = n
    BY <1>12
  <2>3. nc[2] \in 1..entries[j].weight /\ nc = <<n, nc[2]>>
    BY <1>10, <2>1, <2>2
  <2>4. <<j, nc[2]>> \in Load(entries, C)
    BY <2>3 DEF Load
  <2>5. <<of(<<j, nc[2]>>[1]), <<j, nc[2]>>[2]>> = nc
    BY <2>2, <2>3
  <2> QED BY <2>4, <2>5
<1>18. h \in Surjection(Load(entries, C), K)
  BY <1>16, <1>17 DEF Surjection
<1> HIDE DEF h
<1>19. IsFiniteSet(K) /\ Cardinality(K) <= Cardinality(Load(entries, C))
  BY <1>7, <1>18, FS_Surjection
<1>20. /\ Cardinality(S) \in Nat /\ Cardinality(K) \in Nat /\ Cardinality(C) \in Nat
       /\ Cardinality(Load(entries, C)) \in Nat
  BY <1>7, <1>14, <1>19, FS_CardinalityType
<1>21. Cardinality(S) # 0
  <2>1. of(o) \in S
    BY <1>7, <1>11
  <2> QED BY <1>14, <2>1, FS_EmptySet
<1> DEFINE s == Cardinality(S)
           k == Cardinality(K)
           c == Cardinality(C)
           l == Cardinality(Load(entries, C))
<1>22. /\ s \in Nat /\ k \in Nat /\ c \in Nat /\ l \in Nat /\ s # 0
       /\ s <= c /\ k <= l /\ c <= MaxFunctions /\ (c = 1 \/ l <= MaxCases)
  BY <1>7, <1>14, <1>19, <1>20, <1>21
<1> HIDE DEF s, k, c, l
<1>23. s <= MaxFunctions /\ (s = 1 \/ k <= MaxCases)
  BY <1>22 DEF MaxFunctions, MaxCases
<1> QED BY <1>1, <1>23 DEF s, k, K

\* A task of a later wave waits for every task that may write one of its files.
LEMMA PlanOrdered ==
  ASSUME NEW items, Items(items), NEW i \in DOMAIN MakePlan(items), NEW j \in DOMAIN MakePlan(items),
         MakePlan(items)[i].wave < MakePlan(items)[j].wave,
         MakePlan(items)[i].touches \cap MakePlan(items)[j].touches # {}
  PROVE  i \in MakePlan(items)[j].depends
<1> DEFINE tasks == Tasks(items)
           waves == {tasks[k].wave : k \in DOMAIN tasks}
           upto(w) == {v \in waves : v <= w}
           earlier(k) == {l \in DOMAIN tasks : /\ tasks[l].wave < tasks[k].wave
                                               /\ tasks[l].touches \cap tasks[k].touches # {}}
           plan == MakePlan(items)
<1>1. DOMAIN tasks = 1..Len(tasks) /\ \A k \in DOMAIN tasks : tasks[k].wave \in 1..4
  BY TasksAre DEF IsList
<1>2. /\ DOMAIN plan = DOMAIN tasks
      /\ \A k \in DOMAIN tasks : /\ plan[k].wave = Cardinality(upto(tasks[k].wave))
                                 /\ plan[k].touches = tasks[k].touches
                                 /\ earlier(k) \subseteq plan[k].depends
  BY DEF MakePlan, InWaves, Todo
<1>3. waves \subseteq 1..4
  BY <1>1
<1>4. i \in DOMAIN tasks /\ j \in DOMAIN tasks
  BY <1>2
<1> HIDE DEF tasks, waves, plan
<1>5. \A w \in 1..4 : IsFiniteSet(upto(w)) /\ Cardinality(upto(w)) \in Nat
  BY <1>3, UpToFinite
<1>6. ASSUME NEW v \in 1..4, NEW w \in 1..4, v <= w PROVE Cardinality(upto(v)) <= Cardinality(upto(w))
  BY <1>3, <1>6, UpToFinite
<1> HIDE DEF upto, earlier
<1>7. tasks[i].wave < tasks[j].wave
  <2>1. Cardinality(upto(tasks[i].wave)) < Cardinality(upto(tasks[j].wave))
    BY <1>2, <1>4 DEF plan
  <2>2. ~ (tasks[j].wave <= tasks[i].wave)
    BY <1>1, <1>4, <1>5, <1>6, <2>1
  <2> QED BY <1>1, <1>4, <2>2
<1>8. i \in earlier(j)
  BY <1>2, <1>4, <1>7 DEF plan, earlier
<1> QED BY <1>2, <1>4, <1>8 DEF plan

-----------------------------------------------------------------------------
\* Why items have numbers of their own: discovery numbers them by their places, and the
\* first import of a coverage report goes on from there

ByPlace(items) == \A i \in 1..Len(items) : items[i].id = i

\* What the running command will save.
Carries ==
  \/ sess.cmd = "none"
  \/ sess.cmd \in {"baseline", "kb", "run"} /\ sess.st.items = disk.items
  \/ sess.cmd = "coverage" /\ sess.pc = "work" /\ ByPlace(sess.st.items) /\ uses["coverage"] > 0
  \/ sess.cmd = "coverage" /\ sess.pc = "save" /\ NumberedOnce(sess.st.items) /\ uses["coverage"] > 0
  \/ sess.cmd = "plan" /\ sess.pc \in {"access", "approve"} /\ sess.st = Replanned(disk)

NumbersInv ==
  /\ uses["coverage"] \in Nat
  /\ NumberedOnce(disk.items)
  /\ uses["coverage"] = 0 => ByPlace(disk.items)
  /\ Carries

LEMMA PlacesAreNumbers ==
  ASSUME NEW items, ByPlace(items)
  PROVE  NumberedOnce(items)
BY DEF ByPlace, NumberedOnce

\* Items with the same numbers.
LEMMA SameNumbers ==
  ASSUME NEW items, NEW new, Len(new) = Len(items), \A i \in 1..Len(items) : new[i].id = items[i].id
  PROVE  /\ ByPlace(items) => ByPlace(new)
         /\ NumberedOnce(items) => NumberedOnce(new)
BY DEF ByPlace, NumberedOnce

LEMMA FoundNumbers ==
  ASSUME NEW found \in Findings, NEW problems, Named(problems)
  PROVE  ByPlace(found \o BaselineItems(problems, Len(found)))
<1> DEFINE failed == BaselineItems(problems, Len(found))
           items == found \o failed
<1>1. IsList(found) /\ Len(found) \in Nat /\ \A i \in 1..Len(found) : found[i].id = i
  BY InputAssumption DEF IsList
<1>2. IsList(failed) /\ \A i \in 1..Len(failed) : failed[i].id = Len(found) + i
  BY <1>1, BaselineItemsAre DEF Numbered, Items
<1> HIDE DEF failed
<1>3. ASSUME NEW i \in 1..Len(items) PROVE items[i].id = i
  <2>1. CASE i \in 1..Len(found)
    BY <1>1, <1>2, <2>1, ConcatLists
  <2>2. CASE i - Len(found) \in 1..Len(failed)
    <3> DEFINE k == i - Len(found)
    <3>1. Len(found) + k = i
      BY <1>1, <1>2, ConcatLists
    <3>2. k \in 1..Len(failed)
      BY <2>2
    <3> HIDE DEF k
    <3>3. items[i] = failed[k]
      BY <1>1, <1>2, <3>1, <3>2, ConcatLists
    <3> QED BY <1>2, <3>1, <3>2, <3>3
  <2> QED BY <1>1, <1>2, <2>1, <2>2, ConcatLists
<1> QED BY <1>3 DEF ByPlace, failed

LEMMA CoverageNumbers ==
  ASSUME NEW st, StateGood(st), ByPlace(st.items), NEW gaps \in CoverageGaps
  PROVE  NumberedOnce(Coverage(st, gaps).items)
<1>1. PICK list : /\ Coverage(st, gaps) = [st EXCEPT !.items = st.items \o list]
                  /\ Numbered(list) /\ NumberedOnce(list)
                  /\ \A i \in 1..Len(list) : list[i].id > Len(st.items)
  BY CoverageListed
<1> DEFINE old == st.items
           items == old \o list
<1>2. Coverage(st, gaps).items = items
  BY <1>1 DEF StateGood
<1>3. IsList(old) /\ Len(old) \in Nat /\ IsList(list) /\ Len(list) \in Nat
  BY <1>1 DEF StateGood, Numbered, Items, IsList
<1>4. \A i \in 1..Len(old) : old[i].id = i
  BY DEF ByPlace
<1> HIDE DEF old
<1>5. ASSUME NEW i \in 1..Len(items)
      PROVE  \/ i \in 1..Len(old) /\ items[i].id = i
             \/ \E k \in 1..Len(list) : i = Len(old) + k /\ items[i] = list[k]
  <2>1. CASE i \in 1..Len(old)
    BY <1>3, <1>4, <2>1, ConcatLists
  <2>2. CASE i - Len(old) \in 1..Len(list)
    <3> DEFINE k == i - Len(old)
    <3>1. k \in 1..Len(list) /\ i = Len(old) + k
      BY <1>3, <2>2, ConcatLists
    <3> HIDE DEF k
    <3>2. items[i] = list[k]
      BY <1>3, <3>1, ConcatLists
    <3> QED BY <3>1, <3>2
  <2> QED BY <1>3, <2>1, <2>2, ConcatLists
<1> HIDE DEF items
<1>6. ASSUME NEW i \in 1..Len(items), NEW j \in 1..Len(items), items[i].id = items[j].id
      PROVE  i = j
  <2>1. CASE i \in 1..Len(old) /\ items[i].id = i /\ j \in 1..Len(old) /\ items[j].id = j
    BY <1>6, <2>1
  <2>2. ASSUME NEW k \in 1..Len(list), items[j] = list[k], i \in 1..Len(old), items[i].id = i
        PROVE  FALSE
    <3>1. list[k].id = i /\ list[k].id > Len(old)
      BY <1>1, <1>6, <2>2 DEF old
    <3> QED BY <1>3, <2>2, <3>1
  <2>3. ASSUME NEW k \in 1..Len(list), items[i] = list[k], j \in 1..Len(old), items[j].id = j
        PROVE  FALSE
    <3>1. list[k].id = j /\ list[k].id > Len(old)
      BY <1>1, <1>6, <2>3 DEF old
    <3> QED BY <1>3, <2>3, <3>1
  <2>4. ASSUME NEW k \in 1..Len(list), i = Len(old) + k, items[i] = list[k],
               NEW l \in 1..Len(list), j = Len(old) + l, items[j] = list[l]
        PROVE  i = j
    BY <1>1, <1>6, <2>4 DEF NumberedOnce
  <2> QED BY <1>5, <2>1, <2>2, <2>3, <2>4
<1> QED BY <1>2, <1>6 DEF NumberedOnce

LEMMA ReplannedNumbers ==
  ASSUME NEW st, StateGood(st)
  PROVE  /\ Len(Replanned(st).items) = Len(st.items)
         /\ \A i \in 1..Len(st.items) : /\ Replanned(st).items[i] = AfterPlanning(st.items[i])
                                        /\ Replanned(st).items[i].id = st.items[i].id
         /\ Replanned(st).tasks = MakePlan(st.items)
<1> DEFINE new == [i \in DOMAIN st.items |-> AfterPlanning(st.items[i])]
<1>1. Replanned(st).items = new /\ Replanned(st).tasks = MakePlan(st.items)
  BY DEF Replanned, StateGood
<1>2. Len(st.items) \in Nat /\ DOMAIN st.items = 1..Len(st.items)
  BY DEF StateGood, Numbered, Items, IsList
<1>3. Len(new) = Len(st.items)
  BY <1>2
<1>4. \A i \in 1..Len(st.items) : AfterPlanning(st.items[i]).id = st.items[i].id
  BY PlacesOfItem DEF StateGood, Numbered, Items
<1> QED BY <1>1, <1>2, <1>3, <1>4

\* Every command but the import of a coverage report leaves the numbers alone.
LEMMA UsesCoverage ==
  ASSUME uses \in [Commands -> Nat], NEW cmd \in Commands, uses' = [uses EXCEPT ![cmd] = @ + 1]
  PROVE  uses'["coverage"] = IF cmd = "coverage" THEN uses["coverage"] + 1 ELSE uses["coverage"]
BY DEF Commands

LEMMA InitNumbers == Init => NumbersInv
<1> SUFFICES ASSUME Init PROVE NumbersInv
  OBVIOUS
<1>1. disk.items = <<>> /\ sess.cmd = "none" /\ uses["coverage"] = 0
  BY DEF Init, NoState, Idle, Commands
<1>2. Len(<<>>) = 0 /\ 1..0 = {}
  OBVIOUS
<1> QED BY <1>1, <1>2 DEF NumbersInv, NumberedOnce, ByPlace, Carries

LEMMA OneSaveNumbers ==
  ASSUME NumbersInv, uses \in [Commands -> Nat], NEW cmd \in Commands \ {"coverage"}, NEW st,
         InOneSave(cmd, st), NumberedOnce(st.items), uses["coverage"] = 0 => ByPlace(st.items)
  PROVE  NumbersInv'
<1>1. disk' = st /\ UNCHANGED sess /\ sess.cmd = "none" /\ uses' = [uses EXCEPT ![cmd] = @ + 1]
  BY DEF InOneSave, Use
<1>2. uses'["coverage"] = uses["coverage"]
  BY <1>1, UsesCoverage
<1>3. NumberedOnce(disk'.items) /\ (uses'["coverage"] = 0 => ByPlace(disk'.items))
  BY <1>1, <1>2
<1> QED BY <1>1, <1>2, <1>3 DEF NumbersInv, Carries

LEMMA DiscoveredNumbers ==
  ASSUME TypesInv, NumbersInv, NEW items \in Discovered
  PROVE  /\ NumberedOnce(items)
         /\ uses["coverage"] = 0 => ByPlace(items)
<1>1. ASSUME NEW found \in Findings PROVE ByPlace(found)
  BY <1>1, InputAssumption DEF ByPlace
<1>2. ASSUME NEW found \in Findings
      PROVE  ByPlace(found \o BaselineItems(disk.problems, Len(found)))
  BY <1>2, FoundNumbers DEF TypesInv, StateGood
<1>3. ByPlace(<<>>)
  BY DEF ByPlace
<1>4. items = disk.items \/ ByPlace(items)
  BY <1>1, <1>2, <1>3 DEF Discovered
<1> QED BY <1>4, PlacesAreNumbers DEF NumbersInv

LEMMA QuickNumbers ==
  ASSUME TypesInv, NumbersInv, uses \in [Commands -> Nat],
         cmd_init \/ cmd_discover \/ cmd_scope \/ cmd_seams
  PROVE  NumbersInv'
<1>0. {"init", "discover", "scope", "seams"} \subseteq Commands \ {"coverage"}
  BY DEF Commands
<1>1. CASE cmd_init
  <2>1. [disk EXCEPT !.ready = TRUE].items = disk.items
    BY DEF TypesInv, StateGood
  <2> QED BY <1>0, <1>1, <2>1, OneSaveNumbers DEF cmd_init, NumbersInv
<1>2. CASE cmd_discover
  <2>1. PICK items \in Discovered : InOneSave("discover", [disk EXCEPT !.items = items])
    BY <1>2 DEF cmd_discover
  <2> DEFINE st == [disk EXCEPT !.items = items]
  <2>2. NumberedOnce(items) /\ (uses["coverage"] = 0 => ByPlace(items))
    BY DiscoveredNumbers
  <2>3. InOneSave("discover", st)
    BY <2>1
  <2>4. st.items = items
    BY DEF TypesInv, StateGood
  <2> HIDE DEF st
  <2> QED BY <1>0, <2>2, <2>3, <2>4, OneSaveNumbers
<1>3. CASE cmd_scope
  <2>1. PICK out :
          InOneSave("scope",
            [disk EXCEPT
               !.items = [i \in DOMAIN @ |->
                            LET w == disk.items[i]
                            IN  [w EXCEPT !.scope = IF w.id \notin out /\ w.cat # "I"
                                                    THEN "yes" ELSE "no"]]])
    BY <1>3 DEF cmd_scope
  <2> DEFINE said(w) == IF w.id \notin out /\ w.cat # "I" THEN "yes" ELSE "no"
             items == [i \in DOMAIN disk.items |-> [disk.items[i] EXCEPT !.scope = said(disk.items[i])]]
             st == [disk EXCEPT !.items = items]
  <2>2. InOneSave("scope", st)
    BY <2>1
  <2>3. /\ items = [i \in DOMAIN disk.items |-> items[i]]
        /\ \A i \in DOMAIN disk.items : \E x : items[i] = [disk.items[i] EXCEPT !.scope = x]
    <3> HIDE DEF said
    <3> QED OBVIOUS
  <2> HIDE DEF items, said, st
  <2>4. Len(items) = Len(disk.items) /\ \A i \in 1..Len(disk.items) : items[i].id = disk.items[i].id
    <3>1. Numbered(disk.items)
      BY DEF TypesInv, StateGood
    <3> DEFINE old == disk.items
    <3>2. /\ items = [i \in DOMAIN old |-> items[i]] /\ Numbered(old)
          /\ \A i \in DOMAIN old : items[i] = old[i] \/ \E x : items[i] = [old[i] EXCEPT !.scope = x]
      BY <2>3, <3>1
    <3> HIDE DEF old
    <3>3. Len(items) = Len(old) /\ \A i \in 1..Len(old) : items[i].id = old[i].id
      BY <3>2, MappedNumbered
    <3> QED BY <3>3 DEF old
  <2>5. /\ NumberedOnce(items)
        /\ uses["coverage"] = 0 => ByPlace(items)
    BY <2>4, SameNumbers DEF NumbersInv
  <2>6. st.items = items
    BY DEF TypesInv, StateGood, st
  <2> QED BY <1>0, <2>2, <2>5, <2>6, OneSaveNumbers
<1>4. CASE cmd_seams
  <2>1. UNCHANGED <<disk, sess>> /\ uses' = [uses EXCEPT !["seams"] = @ + 1]
    BY <1>4 DEF cmd_seams
  <2>2. uses'["coverage"] = uses["coverage"]
    BY <1>0, <2>1, UsesCoverage
  <2>3. Carries' = Carries
    BY <2>1, <2>2 DEF Carries
  <2> QED BY <2>1, <2>2, <2>3 DEF NumbersInv
<1> QED BY <1>1, <1>2, <1>3, <1>4

LEMMA StartNumbers ==
  ASSUME NumbersInv, uses \in [Commands -> Nat], uses'["coverage"] <= 1,
         StartBaseline \/ StartKb \/ StartCoverage \/ StartPlan \/ StartRun
  PROVE  NumbersInv'
<1>1. UNCHANGED disk
  BY DEF StartBaseline, StartKb, StartCoverage, StartPlan, StartRun
<1>2. CASE StartBaseline \/ StartKb \/ StartRun
  <2>1. PICK cmd \in {"baseline", "kb", "run"} :
          Use(cmd) /\ sess'.cmd = cmd /\ sess'.st = disk
    BY <1>2 DEF StartBaseline, StartKb, StartRun, Begin, Idle
  <2>2. uses'["coverage"] = uses["coverage"]
    BY <2>1, UsesCoverage DEF Use, Commands
  <2>3. Carries'
    BY <1>1, <2>1 DEF Carries
  <2> QED BY <1>1, <2>2, <2>3 DEF NumbersInv
<1>3. CASE StartPlan
  <2>1. Use("plan") /\ sess'.cmd = "plan" /\ sess'.st = Replanned(disk) /\ sess'.pc \in {"access", "approve"}
    BY <1>3 DEF StartPlan, Idle
  <2>2. uses'["coverage"] = uses["coverage"]
    BY <2>1, UsesCoverage DEF Use, Commands
  <2>3. Carries'
    <3>1. Replanned(disk)' = Replanned(disk)
      BY <1>1
    <3> QED BY <1>1, <2>1, <3>1 DEF Carries
  <2> QED BY <1>1, <2>2, <2>3 DEF NumbersInv
<1>4. CASE StartCoverage
  <2>1. Use("coverage") /\ sess'.cmd = "coverage" /\ sess'.pc = "work" /\ sess'.st = disk
    BY <1>4 DEF StartCoverage, Begin, Idle
  <2>2. uses'["coverage"] = uses["coverage"] + 1
    BY <2>1, UsesCoverage DEF Use, Commands
  <2>3. uses["coverage"] = 0 /\ uses'["coverage"] = 1
    BY <2>2 DEF NumbersInv
  <2>4. Carries'
    BY <2>1, <2>3 DEF Carries, NumbersInv
  <2> QED BY <1>1, <2>3, <2>4 DEF NumbersInv
<1> QED BY <1>2, <1>3, <1>4

LEMMA WorkNumbers ==
  ASSUME IInv, TypesInv, NumbersInv, BaselineRan \/ KnowledgeBuilt \/ CoverageImported
  PROVE  NumbersInv'
<1>1. UNCHANGED <<disk, uses>> /\ sess.pc = "work" /\ sess'.pc = "save" /\ sess'.cmd = sess.cmd
  BY DEF BaselineRan, KnowledgeBuilt, CoverageImported, SaveKb, IInv, SessOk
<1>2. CASE BaselineRan \/ KnowledgeBuilt
  <2>1. sess'.st.items = sess.st.items /\ sess.cmd \in {"baseline", "kb"}
    BY <1>2 DEF BaselineRan, KnowledgeBuilt, SaveKb, IInv, SessOk, StateOk
  <2>2. Carries'
    BY <1>1, <2>1 DEF NumbersInv, Carries
  <2> QED BY <1>1, <2>2 DEF NumbersInv
<1>3. CASE CoverageImported
  <2>1. PICK gaps \in CoverageGaps : sess'.st = Coverage(sess.st, gaps)
    BY <1>3 DEF CoverageImported, SaveKb, IInv, SessOk
  <2>2. sess.cmd = "coverage"
    BY <1>3 DEF CoverageImported
  <2>3. ByPlace(sess.st.items) /\ uses["coverage"] > 0
    BY <1>1, <2>2 DEF NumbersInv, Carries
  <2>4. NumberedOnce(Coverage(sess.st, gaps).items)
    BY <2>3, CoverageNumbers DEF TypesInv, SessGood
  <2>5. NumberedOnce(sess'.st.items)
    BY <2>1, <2>4
  <2>6. Carries'
    BY <1>1, <2>2, <2>3, <2>5 DEF Carries
  <2> QED BY <1>1, <2>6 DEF NumbersInv
<1> QED BY <1>2, <1>3

LEMMA EndNumbers ==
  ASSUME NumbersInv, UNCHANGED uses, sess' = Idle, NumberedOnce(disk'.items),
         uses["coverage"] = 0 => ByPlace(disk'.items)
  PROVE  NumbersInv'
<1>1. sess'.cmd = "none"
  BY DEF Idle
<1> QED BY <1>1 DEF NumbersInv, Carries

LEMMA SaveNumbers ==
  ASSUME IInv, TypesInv, NumbersInv, Save \/ EndRun \/ Die
  PROVE  NumbersInv'
<1>1. UNCHANGED uses /\ sess' = Idle
  BY DEF Save, EndRun, Die
<1>2. CASE Die
  <2>1. UNCHANGED disk
    BY <1>2 DEF Die
  <2> QED BY <1>1, <2>1, EndNumbers DEF NumbersInv
<1>3. CASE Save \/ EndRun
  <2>1. disk' = sess.st /\ (sess.pc = "save" \/ (sess.cmd = "run" /\ sess.pc = "end"))
    BY <1>3 DEF Save, EndRun
  <2>2. CASE sess.st.items = disk.items
    BY <1>1, <2>1, <2>2, EndNumbers DEF NumbersInv
  <2>3. CASE sess.st.items # disk.items
    <3>1. NumberedOnce(sess.st.items) /\ uses["coverage"] > 0
      BY <2>1, <2>3 DEF NumbersInv, Carries, IInv, Idling
    <3> QED BY <1>1, <2>1, <3>1, EndNumbers DEF NumbersInv
  <2> QED BY <2>2, <2>3
<1> QED BY <1>2, <1>3

\* What a plan saves are the items it read, and the tasks for them.
LEMMA ApproveNumbers ==
  ASSUME IInv, TypesInv, NumbersInv, decide_access \/ Approve
  PROVE  NumbersInv'
<1>1. sess.cmd = "plan" /\ sess.st = Replanned(disk) /\ UNCHANGED uses
  BY DEF decide_access, Approve, NumbersInv, Carries
<1>2. CASE decide_access
  <2>1. UNCHANGED disk /\ sess'.cmd = sess.cmd /\ sess'.st = sess.st /\ sess'.pc = "approve"
    BY <1>2 DEF decide_access, IInv, SessOk
  <2>2. Replanned(disk)' = Replanned(disk)
    BY <2>1
  <2>3. Carries'
    BY <1>1, <2>1, <2>2 DEF Carries
  <2> QED BY <1>1, <2>1, <2>3 DEF NumbersInv
<1>3. CASE Approve
  <2>1. sess' = Idle /\ (disk' = Replanned(disk) \/ disk' = disk)
    BY <1>1, <1>3 DEF Approve
  <2>2. /\ NumberedOnce(Replanned(disk).items)
        /\ uses["coverage"] = 0 => ByPlace(Replanned(disk).items)
    BY ReplannedNumbers, SameNumbers DEF TypesInv, NumbersInv
  <2>3. NumberedOnce(disk'.items) /\ (uses["coverage"] = 0 => ByPlace(disk'.items))
    BY <2>1, <2>2 DEF NumbersInv
  <2> QED BY <1>1, <2>1, <2>3, EndNumbers
<1> QED BY <1>2, <1>3

LEMMA RunNumbers ==
  ASSUME IInv, NumbersInv,
         Pick \/ DryRun \/ call_agent \/ Passes \/ Fails \/ Blocks \/ Record \/ checkpoint \/ NothingReady
  PROVE  NumbersInv'
<1>1. sess.cmd = "run" /\ UNCHANGED uses
  BY DEF Pick, DryRun, call_agent, Passes, Fails, Blocks, Record, checkpoint, NothingReady
<1>2. sess.st.items = disk.items
  BY <1>1 DEF NumbersInv, Carries
<1>3. /\ \A st : \A i, s : StateOk(st) => WithStatus(st, i, s).items = st.items
      /\ \A st : \A w, r : StateOk(st) => Checked(st, w, r).items = st.items
  BY DEF WithStatus, Checked, StateOk
<1>4. sess'.cmd = "run" /\ sess'.st.items = disk.items /\ disk'.items = disk.items
  <2>1. CASE Pick
    <3>1. PICK i \in DOMAIN sess.st.tasks :
            /\ disk' = WithStatus(sess.st, i, "IN_PROGRESS")
            /\ sess'.cmd = sess.cmd /\ sess'.st = WithStatus(sess.st, i, "IN_PROGRESS")
      BY <2>1 DEF Pick, IInv, SessOk
    <3> QED BY <1>1, <1>2, <1>3, <3>1 DEF IInv
  <2>2. CASE DryRun
    BY <1>1, <1>2, <1>3, <2>2 DEF DryRun, IInv, SessOk
  <2>3. CASE call_agent \/ Fails \/ NothingReady
    BY <1>1, <1>2, <2>3 DEF call_agent, Fails, NothingReady, IInv, SessOk
  <2>4. CASE Passes
    BY <1>1, <1>2, <1>3, <2>4 DEF Passes, IInv, SessOk
  <2>5. CASE Blocks
    BY <1>1, <1>2, <1>3, <2>5 DEF Blocks, IInv, SessOk
  <2>6. CASE Record
    BY <1>1, <1>2, <2>6 DEF Record, IInv, SessOk
  <2>7. CASE checkpoint
    <3>1. CASE UNCHANGED disk /\ sess' = [sess EXCEPT !.pc = "pick", !.work = NoWork]
      BY <1>1, <1>2, <3>1 DEF IInv, SessOk
    <3>2. ASSUME NEW w, NEW r, disk' = Checked(sess.st, w, r),
                 sess' = [sess EXCEPT !.st = Checked(sess.st, w, r), !.pc = "pick", !.work = NoWork]
          PROVE  sess'.cmd = "run" /\ sess'.st.items = disk.items /\ disk'.items = disk.items
      <4>1. sess'.cmd = sess.cmd /\ sess'.st = Checked(sess.st, w, r)
        BY <3>2 DEF IInv, SessOk
      <4> QED BY <1>1, <1>2, <1>3, <3>2, <4>1 DEF IInv
    <3> QED BY <2>7, <3>1, <3>2 DEF checkpoint
  <2> QED BY <2>1, <2>2, <2>3, <2>4, <2>5, <2>6, <2>7
<1>5. Carries'
  BY <1>4 DEF Carries
<1> QED BY <1>1, <1>4, <1>5 DEF NumbersInv

LEMMA NextNumbers ==
  ASSUME IInv, TypesInv, NumbersInv, uses \in [Commands -> Nat], uses'["coverage"] <= 1, [Next]_vars
  PROVE  NumbersInv'
<1>1. CASE UNCHANGED vars
  <2>1. UNCHANGED <<disk, sess, uses>>
    BY <1>1 DEF vars
  <2>2. Replanned(disk)' = Replanned(disk)
    BY <2>1
  <2>3. Carries' = Carries
    BY <2>1, <2>2 DEF Carries
  <2> QED BY <2>1, <2>3 DEF NumbersInv
<1>2. CASE CommandSteps
  BY <1>2, WorkNumbers, SaveNumbers, ApproveNumbers, RunNumbers DEF CommandSteps, RunSteps
<1>3. CASE Next
  BY <1>2, <1>3, QuickNumbers, StartNumbers, SaveNumbers DEF Next
<1> QED BY <1>1, <1>3

\* The tasks change under a plan only when it is approved.
LEMMA PlanSaves ==
  ASSUME IInv, Next, sess.cmd = "plan", disk'.tasks # disk.tasks
  PROVE  Approve
<1>1. ~(cmd_init \/ cmd_discover \/ cmd_scope \/ StartBaseline \/ StartKb \/ StartCoverage
          \/ StartPlan \/ StartRun)
  BY DEF cmd_init, cmd_discover, cmd_scope, InOneSave, StartBaseline, StartKb, StartCoverage,
         Begin, StartPlan, StartRun
<1>2. ~(cmd_seams \/ decide_access \/ Die)
  BY DEF cmd_seams, decide_access, Die
<1>3. ~RunSteps
  BY DEF RunSteps, Pick, DryRun, call_agent, Passes, Fails, Blocks, Record, checkpoint,
         NothingReady, EndRun
<1>4. ~(BaselineRan \/ KnowledgeBuilt \/ CoverageImported)
  BY DEF BaselineRan, KnowledgeBuilt, CoverageImported
<1>5. ~Save
  BY DEF Save, IInv, Holds, SamePlan
<1> QED BY <1>1, <1>2, <1>3, <1>4, <1>5 DEF Next, CommandSteps

\* Coverage was imported at most once.
OneImport == uses["coverage"] <= 1

\* plan.py:41-156: a saved plan has every item in as many tasks as the item must be in,
\* and orders two tasks of different waves that may write the same file.  A second import
\* of a coverage report can give two items the same number (__main__.py:180): this is
\* about every history with at most one.
THEOREM PlanAlwaysCovers == Spec /\ []OneImport => PlanCovers
<1> DEFINE Covers ==
             sess.cmd = "plan" /\ disk'.tasks # disk.tasks =>
               LET tasks == disk'.tasks
                   TasksOf(w) == {i \in DOMAIN tasks : w.id \in tasks[i].items}
                   ItemsOf(i) == {n \in DOMAIN disk'.items : disk'.items[n].id \in tasks[i].items}
               IN  /\ \A n \in DOMAIN disk'.items :
                        LET w == disk'.items[n]
                        IN  Cardinality(TasksOf(w)) =
                              IF w.scope # "yes" \/ w.cat = "H" THEN 0
                              ELSE IF w.kind = "type" THEN Len(w.includers) ELSE 1
                   /\ \A i, j \in DOMAIN tasks :
                        tasks[i].wave < tasks[j].wave /\ tasks[i].touches \cap tasks[j].touches # {}
                          => i \in tasks[j].depends
                   /\ \A i \in DOMAIN tasks :
                        /\ Cardinality(ItemsOf(i)) <= MaxFunctions
                        /\ \/ Cardinality(ItemsOf(i)) = 1
                           \/ Cardinality(CasesOf(disk'.items, ItemsOf(i), tasks[i].type)) <= MaxCases
           Both == IInv /\ TypesInv /\ SInvAll
<1>1. ASSUME Both, NumbersInv, Next PROVE Covers
  <2> SUFFICES ASSUME sess.cmd = "plan", disk'.tasks # disk.tasks PROVE Covers
    OBVIOUS
  <2> HIDE DEF Covers
  <2>1. Approve
    BY <1>1, PlanSaves
  <2>2. disk' = Replanned(disk)
    BY <1>1, <2>1 DEF Approve, NumbersInv, Carries
  <2>3. Items(disk.items) /\ NumberedOnce(disk.items) /\ StateGood(disk)
    BY <1>1 DEF TypesInv, StateGood, Numbered, NumbersInv
  <2> DEFINE items == disk.items
             tasks == MakePlan(items)
             new == Replanned(disk)
             TasksOf(w) == {i \in DOMAIN tasks : w.id \in tasks[i].items}
             ItemsOf(i) == {n \in DOMAIN new.items : new.items[n].id \in tasks[i].items}
  <2>4. new.tasks = tasks /\ Len(new.items) = Len(items)
    BY <2>3, ReplannedNumbers
  <2>5. \A n \in 1..Len(items) : /\ new.items[n] = AfterPlanning(items[n])
                                 /\ new.items[n].id = items[n].id
    BY <2>3, ReplannedNumbers
  <2>6. DOMAIN new.items = 1..Len(items)
    BY <2>3, <2>4, ReplannedGood DEF StateGood, Numbered, Items, IsList
  <2> HIDE DEF items, tasks, new
  <2>7. ASSUME NEW n \in DOMAIN new.items
        PROVE  Cardinality(TasksOf(new.items[n])) = Share(new.items[n])
    <3>1. n \in 1..Len(items)
      BY <2>6
    <3>2. Cardinality({t \in DOMAIN tasks : items[n].id \in tasks[t].items})
            = Share(AfterPlanning(items[n]))
      BY <2>3, <3>1, ItemsPlanned DEF items, tasks
    <3>3. TasksOf(new.items[n]) = {t \in DOMAIN tasks : items[n].id \in tasks[t].items}
      BY <2>5, <3>1
    <3> QED BY <2>5, <3>1, <3>2, <3>3
  <2>8. ASSUME NEW i \in DOMAIN tasks, NEW j \in DOMAIN tasks, tasks[i].wave < tasks[j].wave,
               tasks[i].touches \cap tasks[j].touches # {}
        PROVE  i \in tasks[j].depends
    BY <2>3, <2>8, PlanOrdered DEF tasks, items
  <2>9. ASSUME NEW i \in DOMAIN tasks
        PROVE  /\ Cardinality(ItemsOf(i)) <= MaxFunctions
               /\ \/ Cardinality(ItemsOf(i)) = 1
                  \/ Cardinality(CasesOf(new.items, ItemsOf(i), tasks[i].type)) <= MaxCases
    <3> DEFINE S == {n \in 1..Len(items) : items[n].id \in tasks[i].items}
    <3>1. /\ Cardinality(S) <= MaxFunctions
          /\ Cardinality(S) = 1 \/ Cardinality(CasesOf(items, S, tasks[i].type)) <= MaxCases
      BY <2>3, TasksSmall DEF items, tasks
    <3>2. ItemsOf(i) = S
      BY <2>5, <2>6
    <3>3. CasesOf(new.items, S, tasks[i].type) = CasesOf(items, S, tasks[i].type)
      <4>1. \A n \in S : Cases(new.items[n], tasks[i].type) = Cases(items[n], tasks[i].type)
        BY <2>3, <2>5, CasesKept DEF items, Items
      <4> DEFINE c(n) == Cases(items[n], tasks[i].type)
                 d(n) == Cases(new.items[n], tasks[i].type)
      <4>2. /\ CasesOf(items, S, tasks[i].type) = UNION {{n} \X (1..c(n)) : n \in S}
            /\ CasesOf(new.items, S, tasks[i].type) = UNION {{n} \X (1..d(n)) : n \in S}
        BY DEF CasesOf, Cases
      <4>3. \A n \in S : d(n) = c(n)
        BY <4>1
      <4> HIDE DEF c, d, S
      <4>4. UNION {{n} \X (1..d(n)) : n \in S} = UNION {{n} \X (1..c(n)) : n \in S}
        BY <4>3
      <4> QED BY <4>2, <4>4
    <3> QED BY <3>1, <3>2, <3>3
  <2>10. disk'.tasks = tasks /\ disk'.items = new.items
    BY <2>2, <2>4 DEF new
  <2> QED BY <2>7, <2>8, <2>9, <2>10 DEF Covers, Share
<1>2. Both /\ NumbersInv /\ [Next]_vars => [Covers]_vars
  BY <1>1
<1>8. PlanCovers <=> [][Covers]_vars
  BY DEF PlanCovers
<1> HIDE DEF Covers
<1>3. Init => Both /\ NumbersInv
  BY InitIsGood, TypesInit, InitSeams, InitNumbers
<1>4. Both /\ [Next]_vars => Both'
  BY NextGood, NextTypes, NextSeams DEF Good
<1>5. Both /\ NumbersInv /\ OneImport' /\ [Next]_vars => NumbersInv'
  BY NextNumbers DEF SInvAll, SInv, OneImport
<1> HIDE DEF Both
<1>6. Spec /\ []OneImport => [](Both /\ NumbersInv)
  BY <1>3, <1>4, <1>5, PTL DEF Spec
<1>7. Spec /\ []OneImport => [][Covers]_vars
  BY <1>2, <1>6, PTL DEF Spec
<1> QED BY <1>7, <1>8, PTL
=============================================================================

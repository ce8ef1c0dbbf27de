------------------------------- MODULE UtTask -------------------------------
(***************************************************************************)
(* A task of the ut tool: its phases (utcli/__main__.py), its executor     *)
(* (utcli/run.py) and the two files they keep their state in.  Every       *)
(* command reads state.json as a whole when it starts and writes it as a   *)
(* whole when it saves; kb.json, the knowledge base of the repository,     *)
(* is read and written in the same way.  A command may die between any two *)
(* steps: it is interrupted, or the agent it waits for takes more than the *)
(* hour that subprocess allows and the exception is not caught.            *)
(*                                                                         *)
(* One command works on the task at a time; only `ut seams --set`, which   *)
(* reads and writes in one moment, may come in between.  A save is one     *)
(* step here: a crash in the middle of one leaves a file that is not JSON, *)
(* and then every command of the tool fails.                               *)
(***************************************************************************)
EXTENDS UtPlan

CONSTANTS
  Findings,      \* what discovery may find: sequences of work items
  CoverageGaps,  \* what a coverage report may add: sequences of work items
  BuildProblems, \* what a baseline may find: sequences of a file its errors name and
                 \* the stage, "build" or "test"
  Present,       \* the files that exist at the start
  Need,          \* the needs for a test seam; "access" is one
  Technique,     \* Technique[n]: the techniques of the catalogue for need n
  Detected,      \* Detected[n]: the one the existing tests use, or Undecided
  Undecided,
  MaxAttempts,   \* --attempts
  MayDrop,       \* bound: the work items the user may leave out of the scope
  Turn,          \* bound: the user goes through the phases in order; a command
                 \* is not used once one of a later turn was
  MaxUses,       \* bound: how often each command is used
  MaxPartial,    \* bound: how many tasks the agent calls partial
  MaxDeaths      \* bound: how many commands die

Commands == {"init", "baseline", "kb", "discover", "scope", "coverage", "plan", "run", "seams"}

ASSUME UtTaskAssumption ==
  /\ "access" \in Need /\ "A1" \in Technique["access"]
  /\ \A n \in Need : Detected[n] \in Technique[n] \cup {Undecided} /\ Undecided \notin Technique[n]
  /\ MaxAttempts \in Nat \ {0}
  /\ Present \subseteq Files

\* A phase writes down sequences of work items; discovery numbers them by their
\* places.
IsList(s) == Len(s) \in Nat /\ s = [i \in 1..Len(s) |-> s[i]]
ASSUME InputAssumption ==
  /\ \A found \in Findings \cup CoverageGaps :
       IsList(found) /\ \A i \in 1..Len(found) : IsItem(found[i])
  /\ \A found \in Findings : \A i \in 1..Len(found) : found[i].id = i
  /\ \A p \in BuildProblems : IsList(p) /\ \A i \in 1..Len(p) : p[i].file \in Files

VARIABLES
  disk,   \* state.json
  kb,     \* the seams of kb.json: the technique decided for each need
  tree,   \* the files of the repository: absent, as they were, with an attempt
          \* of the agent, or with work that was built and tested
  sess,   \* the command that runs, what it loaded and how far it is
  lost,   \* the files that a command which died was writing to
  missed, \* the waves whose last run died between its save and their checkpoint
  uses,   \* how often each command was used
  deaths

vars == <<disk, kb, tree, sess, lost, missed, uses, deaths>>

\* The state before init: there is no state.json.
NoState == [ready |-> FALSE, problems |-> <<>>, items |-> <<>>,
            tasks |-> <<>>, checks |-> <<>>]

NoWork == [task |-> 0, attempt |-> 0, before |-> <<>>, partial |-> FALSE]
Idle == [cmd |-> "none", pc |-> "idle", st |-> NoState, kb |-> [n \in Need |-> Undecided],
         dry |-> FALSE, work |-> NoWork]

Final == {"DONE", "PARTIAL", "BLOCKED"}

Init ==
  /\ disk = NoState
  /\ kb = [n \in Need |-> Undecided]
  /\ tree = [f \in Files |-> IF f \in Present THEN "asWas" ELSE "absent"]
  /\ sess = Idle
  /\ lost = {} /\ missed = {}
  /\ uses = [c \in Commands |-> 0]
  /\ deaths = 0

-----------------------------------------------------------------------------
\* The commands that only ask and compute

Use(cmd) ==
  /\ uses[cmd] < MaxUses[cmd]
  /\ {c \in Commands : uses[c] > 0 /\ Turn[c] > Turn[cmd]} = {}
  /\ uses' = [uses EXCEPT ![cmd] = @ + 1]

\* Every command but init refuses a task without a repository.
Begin(cmd, pc) ==
  /\ sess.cmd = "none"
  /\ cmd # "init" => disk.ready
  /\ Use(cmd)
  /\ sess' = [Idle EXCEPT !.cmd = cmd, !.pc = pc, !.st = disk, !.kb = kb]

\* Load, one save, end: nothing can come in between that changes state.json.
InOneSave(cmd, st) ==
  /\ sess.cmd = "none"
  /\ cmd # "init" => disk.ready
  /\ Use(cmd)
  /\ disk' = st
  /\ UNCHANGED <<kb, tree, sess, lost, missed, deaths>>

cmd_init == InOneSave("init", [disk EXCEPT !.ready = TRUE])

\* The work items are those of the range and of what failed in the baseline, none when
\* the impact of the range cannot be told, those of the names asked for, or with
\* neither range nor names the ones there are.
Discovered ==
  {found \o BaselineItems(disk.problems, Len(found)) : found \in Findings}
    \cup Findings \cup {<<>>, disk.items}

cmd_discover ==
  \E items \in Discovered : InOneSave("discover", [disk EXCEPT !.items = items])

\* An item that reports a production bug is never in scope.
cmd_scope ==
  \E out \in SUBSET MayDrop :
    InOneSave("scope",
                 [disk EXCEPT
                    !.items = [i \in DOMAIN @ |->
                                 LET w == disk.items[i]
                                 IN  [w EXCEPT !.scope = IF w.id \notin out /\ w.cat # "I"
                                                         THEN "yes" ELSE "no"]]])

\* The user changes the technique for a need (bound: before the first run, which
\* only copies the decisions into its prompts).
cmd_seams ==
  \E n \in Need : \E t \in Technique[n] :
    /\ disk.ready
    /\ uses["run"] = 0
    /\ uses["seams"] < MaxUses["seams"]
    /\ uses' = [uses EXCEPT !["seams"] = @ + 1]
    /\ kb' = [kb EXCEPT ![n] = t]
    /\ UNCHANGED <<disk, tree, sess, lost, missed, deaths>>

-----------------------------------------------------------------------------
\* The commands that take long and write kb.json: each writes back the whole
\* knowledge base it read when it started

StartBaseline == Begin("baseline", "work") /\ UNCHANGED <<disk, kb, tree, lost, missed, deaths>>
StartKb == Begin("kb", "work") /\ UNCHANGED <<disk, kb, tree, lost, missed, deaths>>
StartCoverage == Begin("coverage", "work") /\ UNCHANGED <<disk, kb, tree, lost, missed, deaths>>

SaveKb(new, st) ==
  /\ kb' = new
  /\ sess' = [sess EXCEPT !.st = st, !.pc = "save"]
  /\ UNCHANGED <<disk, tree, lost, missed, uses, deaths>>

\* A build that fails names files; so do failing tests.
BaselineRan ==
  /\ sess.cmd = "baseline" /\ sess.pc = "work"
  /\ \E p \in BuildProblems :
       SaveKb(sess.kb, [sess.st EXCEPT !.problems = p])

\* What the existing tests use becomes the decision of an undecided need.
\*
\* Mutant: what was found last is the decision.
MergeOverDecision(seams) == [n \in Need |-> IF Detected[n] = Undecided THEN seams[n] ELSE Detected[n]]
merge_detected(seams) == [n \in Need |-> IF seams[n] = Undecided THEN Detected[n] ELSE seams[n]]

KnowledgeBuilt ==
  /\ sess.cmd = "kb" /\ sess.pc = "work"
  /\ SaveKb(merge_detected(sess.kb), sess.st)

\* The gaps of functions that are no work items yet become work items; their
\* numbers go on from the number of work items.
Coverage(st, gaps) ==
  LET known == {<<st.items[i].file, st.items[i].fn>> : i \in 1..Len(st.items)}
      numbered == [i \in 1..Len(gaps) |-> [gaps[i] EXCEPT !.id = Len(st.items) + i]]
      new == {i \in 1..Len(gaps) : <<gaps[i].file, gaps[i].fn>> \notin known}
      order == Sorted(new, {ij \in new \X new : ij[1] < ij[2]})
  IN  [st EXCEPT !.items = @ \o [i \in DOMAIN order |-> numbered[order[i]]]]

CoverageImported ==
  /\ sess.cmd = "coverage" /\ sess.pc = "work"
  /\ \E gaps \in CoverageGaps : SaveKb(sess.kb, Coverage(sess.st, gaps))

\* The command's last step writes its state.json.
Save ==
  /\ sess.pc = "save"
  /\ disk' = sess.st
  /\ sess' = Idle
  /\ UNCHANGED <<kb, tree, lost, missed, uses, deaths>>

-----------------------------------------------------------------------------
\* plan: the tasks, the one question on static code, the approval

Replanned(st) ==
  [st EXCEPT !.tasks = MakePlan(st.items), !.checks = <<>>,
             !.items = [i \in DOMAIN @ |-> AfterPlanning(@[i])]]

\* decide_access reads kb.json again, and asks only when nothing is decided and
\* a task is on static or private code.
StartPlan ==
  /\ sess.cmd = "none" /\ disk.ready
  /\ Use("plan")
  /\ LET st == Replanned(disk)
         ask == kb["access"] = Undecided /\ \E i \in 1..Len(st.tasks) : st.tasks[i].hidden
     IN  sess' = [Idle EXCEPT !.cmd = "plan", !.pc = IF ask THEN "access" ELSE "approve",
                              !.st = st, !.kb = kb]
  /\ UNCHANGED <<disk, kb, tree, lost, missed, deaths>>

decide_access ==
  /\ sess.cmd = "plan" /\ sess.pc = "access"
  /\ \E t \in Technique["access"] : kb' = [sess.kb EXCEPT !["access"] = t]
  /\ sess' = [sess EXCEPT !.pc = "approve"]
  /\ UNCHANGED <<disk, tree, lost, missed, uses, deaths>>

\* A plan that is not approved is not saved.
Approve ==
  /\ sess.cmd = "plan" /\ sess.pc = "approve"
  /\ \/ disk' = sess.st /\ missed' = {}
     \/ UNCHANGED <<disk, missed>>
  /\ sess' = Idle
  /\ UNCHANGED <<kb, tree, lost, uses, deaths>>

-----------------------------------------------------------------------------
\* run: the executor's loop

WithStatus(st, i, s) == [st EXCEPT !.tasks[i].status = s]

\* A task that is TODO, with all it depends on done and all earlier waves passed.
\*
\* Mutants: without the checkpoints; a partial task does not count as done.
ReadyUnchecked(st, i) ==
  /\ st.tasks[i].status = "TODO"
  /\ \A d \in st.tasks[i].depends : st.tasks[d].status \in {"DONE", "PARTIAL", "DROPPED"}
ReadyAfterDone(st, i) ==
  /\ st.tasks[i].status = "TODO"
  /\ \A d \in st.tasks[i].depends : st.tasks[d].status \in {"DONE", "DROPPED"}
  /\ \A j \in DOMAIN st.tasks :
       st.tasks[j].wave < st.tasks[i].wave =>
         st.tasks[j].wave \in DOMAIN st.checks /\ st.checks[st.tasks[j].wave] = "PASSED"
Ready(st, i) ==
  /\ st.tasks[i].status = "TODO"
  /\ \A d \in st.tasks[i].depends : st.tasks[d].status \in {"DONE", "PARTIAL", "DROPPED"}
  /\ \A j \in DOMAIN st.tasks :
       st.tasks[j].wave < st.tasks[i].wave =>
         st.tasks[j].wave \in DOMAIN st.checks /\ st.checks[st.tasks[j].wave] = "PASSED"

\* The first of the ready tasks, in the order of the plan.
IsNext(st, i) == Ready(st, i) /\ \A j \in 1..(i - 1) : ~Ready(st, j)

StartRun ==
  /\ disk.tasks # <<>>
  /\ \E dry \in BOOLEAN :
       /\ sess.cmd = "none" /\ disk.ready
       /\ Use("run")
       /\ sess' = [Idle EXCEPT !.cmd = "run", !.pc = "pick", !.st = disk, !.kb = kb, !.dry = dry]
  /\ UNCHANGED <<disk, kb, tree, lost, missed, deaths>>

\* The first ready task is saved as IN_PROGRESS, and the files it may write
\* are kept.
Pick ==
  /\ sess.cmd = "run" /\ sess.pc = "pick"
  /\ \E i \in DOMAIN sess.st.tasks :
       /\ IsNext(sess.st, i)
       /\ LET st == WithStatus(sess.st, i, "IN_PROGRESS")
          IN  /\ disk' = st
              /\ sess' = [sess EXCEPT !.st = st, !.pc = "agent",
                                      !.work = [task |-> i, attempt |-> 1, partial |-> FALSE,
                                                before |-> [f \in st.tasks[i].touches |-> tree[f]]]]
  /\ UNCHANGED <<kb, tree, lost, missed, uses, deaths>>

\* A dry run writes the first task's prompt, puts the task back and returns.
DryRun ==
  /\ sess.cmd = "run" /\ sess.pc = "agent" /\ sess.dry
  /\ LET st == WithStatus(sess.st, sess.work.task, "TODO")
     IN  /\ disk' = st
         /\ sess' = [sess EXCEPT !.st = st, !.pc = "end"]
  /\ UNCHANGED <<kb, tree, lost, missed, uses, deaths>>

\* The agent writes some of the files it may write (bound: at least one), and
\* says how it went.
call_agent ==
  /\ sess.cmd = "run" /\ sess.pc = "agent" /\ ~sess.dry
  /\ \E written \in SUBSET sess.st.tasks[sess.work.task].touches \ {{}}, partial \in BOOLEAN :
       /\ partial => Cardinality({i \in DOMAIN sess.st.tasks :
                                    sess.st.tasks[i].status = "PARTIAL"}) < MaxPartial
       /\ tree' = [f \in Files |-> IF f \in written THEN "attempt" ELSE tree[f]]
       /\ sess' = [sess EXCEPT !.pc = "judge", !.work.partial = partial]
  /\ UNCHANGED <<disk, kb, lost, missed, uses, deaths>>

\* The build and the task's tests pass: what the agent wrote stays.
Passes ==
  /\ sess.cmd = "run" /\ sess.pc = "judge"
  /\ LET w == sess.work
         touches == DOMAIN w.before
     IN  /\ tree' = [f \in Files |-> IF f \in touches /\ tree[f] = "attempt" THEN "tested" ELSE tree[f]]
         /\ sess' = [sess EXCEPT !.pc = "record",
                       !.st = WithStatus(@, w.task, IF w.partial THEN "PARTIAL" ELSE "DONE")]
  /\ UNCHANGED <<disk, kb, lost, missed, uses, deaths>>

\* A new test file is not registered, the build fails or the tests fail.
Fails ==
  /\ sess.cmd = "run" /\ sess.pc = "judge"
  /\ sess.work.attempt < MaxAttempts
  /\ sess' = [sess EXCEPT !.pc = "agent", !.work.attempt = @ + 1]
  /\ UNCHANGED <<disk, kb, tree, lost, missed, uses, deaths>>

\* After the last attempt every file is what it was when the task began.
\*
\* Mutant: only the files that were there are written back.
BlocksKeepNew ==
  /\ sess.cmd = "run" /\ sess.pc = "judge"
  /\ sess.work.attempt = MaxAttempts
  /\ LET w == sess.work
         old == {f \in DOMAIN w.before : w.before[f] # "absent"}
     IN  /\ tree' = [f \in Files |-> IF f \in old THEN w.before[f] ELSE tree[f]]
         /\ sess' = [sess EXCEPT !.pc = "record", !.st = WithStatus(@, w.task, "BLOCKED")]
  /\ UNCHANGED <<disk, kb, lost, missed, uses, deaths>>
Blocks ==
  /\ sess.cmd = "run" /\ sess.pc = "judge"
  /\ sess.work.attempt = MaxAttempts
  /\ LET w == sess.work
     IN  /\ tree' = [f \in Files |-> IF f \in DOMAIN w.before THEN w.before[f] ELSE tree[f]]
         /\ sess' = [sess EXCEPT !.pc = "record", !.st = WithStatus(@, w.task, "BLOCKED")]
  /\ UNCHANGED <<disk, kb, lost, missed, uses, deaths>>

Record ==
  /\ sess.cmd = "run" /\ sess.pc = "record"
  /\ disk' = sess.st
  /\ sess' = [sess EXCEPT !.pc = "checkpoint"]
  /\ UNCHANGED <<kb, tree, lost, missed, uses, deaths>>

WaveOpen(st, w) ==
  \E i \in DOMAIN st.tasks : st.tasks[i].wave = w /\ st.tasks[i].status \in {"TODO", "IN_PROGRESS"}

Checked(st, w, result) ==
  [st EXCEPT !.checks = [v \in DOMAIN @ \cup {w} |-> IF v = w THEN result ELSE @[v]]]

\* The full build and all tests, once, when no task of the wave is left.
\*
\* Mutant: a partial task keeps the wave open.
CheckpointAllDone ==
  /\ sess.cmd = "run" /\ sess.pc = "checkpoint"
  /\ LET st == sess.st
         w == st.tasks[sess.work.task].wave
         open == \E i \in DOMAIN st.tasks :
                   st.tasks[i].wave = w /\ st.tasks[i].status \notin {"DONE", "BLOCKED"}
     IN  \E result \in {"PASSED", "FAILED"} :
           LET after == IF open \/ w \in DOMAIN st.checks THEN st ELSE Checked(st, w, result)
           IN  /\ disk' = after
               /\ sess' = [sess EXCEPT !.st = after, !.pc = "pick", !.work = NoWork]
  /\ UNCHANGED <<kb, tree, lost, missed, uses, deaths>>
checkpoint ==
  /\ sess.cmd = "run" /\ sess.pc = "checkpoint"
  /\ LET st == sess.st
         w == st.tasks[sess.work.task].wave
     IN  \/ /\ WaveOpen(st, w) \/ w \in DOMAIN st.checks
            /\ sess' = [sess EXCEPT !.pc = "pick", !.work = NoWork]
            /\ UNCHANGED disk
         \/ /\ ~WaveOpen(st, w) /\ w \notin DOMAIN st.checks
            /\ \E result \in {"PASSED", "FAILED"} :
                 /\ disk' = Checked(st, w, result)
                 /\ sess' = [sess EXCEPT !.st = Checked(st, w, result), !.pc = "pick", !.work = NoWork]
  /\ UNCHANGED <<kb, tree, lost, missed, uses, deaths>>

NothingReady ==
  /\ sess.cmd = "run" /\ sess.pc = "pick"
  /\ \A i \in DOMAIN sess.st.tasks : ~Ready(sess.st, i)
  /\ sess' = [sess EXCEPT !.pc = "end"]
  /\ UNCHANGED <<disk, kb, tree, lost, missed, uses, deaths>>

EndRun ==
  /\ sess.cmd = "run" /\ sess.pc = "end"
  /\ disk' = sess.st
  /\ sess' = Idle
  /\ UNCHANGED <<kb, tree, lost, missed, uses, deaths>>

\* The wave that the run was about to check.
UncheckedWave ==
  {w \in {sess.st.tasks[sess.work.task].wave} :
     ~WaveOpen(sess.st, w) /\ w \notin DOMAIN sess.st.checks}

\* The command dies: the process ends and what it had in memory is gone.
Die ==
  /\ sess.cmd # "none" /\ deaths < MaxDeaths
  /\ deaths' = deaths + 1
  /\ lost' = IF sess.pc \in {"agent", "judge"} THEN lost \cup DOMAIN sess.work.before ELSE lost
  /\ missed' = IF sess.pc = "checkpoint" THEN missed \cup UncheckedWave ELSE missed
  /\ sess' = Idle
  /\ UNCHANGED <<disk, kb, tree, uses>>

RunSteps == Pick \/ DryRun \/ call_agent \/ Passes \/ Fails \/ Blocks \/ Record
              \/ checkpoint \/ NothingReady \/ EndRun
CommandSteps == RunSteps \/ BaselineRan \/ KnowledgeBuilt \/ CoverageImported \/ Save
                  \/ decide_access \/ Approve

Next ==
  \/ cmd_init \/ cmd_discover \/ cmd_scope \/ cmd_seams
  \/ StartBaseline \/ StartKb \/ StartCoverage \/ StartPlan \/ StartRun
  \/ CommandSteps \/ Die

\* A command that was started goes on (the user answers its questions) until it
\* ends or dies.
Spec == Init /\ [][Next]_vars /\ WF_vars(CommandSteps)

-----------------------------------------------------------------------------
\* Properties

StateType(st) ==
  /\ st.ready \in BOOLEAN
  /\ \A i \in DOMAIN st.items : st.items[i].id \in Nat \ {0}
  /\ \A i \in DOMAIN st.tasks :
       /\ st.tasks[i].type \in Types
       /\ st.tasks[i].status \in {"TODO", "IN_PROGRESS"} \cup Final
       /\ st.tasks[i].depends \subseteq 1..(i - 1)
       /\ st.tasks[i].touches \subseteq Files
  /\ DOMAIN st.checks \subseteq {st.tasks[i].wave : i \in DOMAIN st.tasks}

\* The types of the variables; a task depends only on tasks before it.
TypeOK ==
  /\ StateType(disk) /\ StateType(sess.st)
  /\ kb \in [Need -> (UNION {Technique[n] : n \in Need}) \cup {Undecided}]
  /\ tree \in [Files -> {"absent", "asWas", "attempt", "tested"}]
  /\ lost \subseteq Files
  /\ sess.work.task \in 0..Len(sess.st.tasks) /\ sess.work.attempt \in 0..MaxAttempts

\* What WavePlan sees of the tasks.
Outline(tasks) ==
  [i \in DOMAIN tasks |-> [wave |-> tasks[i].wave, depends |-> tasks[i].depends,
                           status |-> tasks[i].status]]

Waves == INSTANCE WavePlan WITH tasks <- Outline(disk.tasks), checks <- disk.checks

\* What state.json says of the tasks keeps the promise of WavePlan through
\* every save, every death and every other command that saves it: a task is
\* worked on only when all earlier waves are over and passed, a result is never
\* taken back but by a new plan, and each wave is checked once, when it is over.
WavesKept == Waves!Spec

\* The files hold an unfinished attempt only while its task is worked on, or
\* when a command died in the middle of it: a task that ends BLOCKED leaves the
\* files as they were (run.py:239).
OnlyTheDeadLeaveAttempts ==
  \A f \in Files :
    tree[f] = "attempt" =>
      f \in lost \/ (sess.pc \in {"agent", "judge"} /\ f \in DOMAIN sess.work.before)

\* A decided test seam changes only through `ut seams --set`, unless a command
\* that read kb.json before the user's decision writes its copy back after it.
SeamStep ==
  \A n \in Need :
    kb[n] # Undecided /\ kb'[n] # kb[n] =>
      uses'["seams"] # uses["seams"] \/ sess.kb[n] # kb[n]
SeamKept == [][SeamStep]_vars

\* The cases of a task of the given type that has the items at the places S.
CasesOf(items, S, type) ==
  UNION {{n} \X (1..(IF items[n].kind \in {"baseline", "type"} THEN 1 ELSE Weight(items[n], type)))
           : n \in S}

\* A saved plan has every item of the scope in as many tasks as it must be: a
\* changed type in one for each test file that includes it, another item in
\* one; and no other item.  Two tasks that may write the same file in different
\* waves are ordered by a dependency (plan.py:125).  A task holds at most four items,
\* and at most twelve cases unless it is one item that has more (plan.py:160).
PlanCovers ==
  [][sess.cmd = "plan" /\ disk'.tasks # disk.tasks =>
       LET tasks == disk'.tasks
           TasksOf(w) == {i \in DOMAIN tasks : w.id \in tasks[i].items}
           ItemsOf(i) == {n \in DOMAIN disk'.items : disk'.items[n].id \in tasks[i].items}
       IN  /\ \A n \in DOMAIN disk'.items :
                LET w == disk'.items[n]
                IN  Cardinality(TasksOf(w)) =
                      IF w.scope # "yes" \/ w.cat = "H" THEN 0
                      ELSE IF w.kind = "type" THEN Len(w.includers) ELSE 1
           /\ \A i, j \in DOMAIN tasks :
                tasks[i].wave < tasks[j].wave /\ tasks[i].touches \cap tasks[j].touches # {}
                  => i \in tasks[j].depends
           /\ \A i \in DOMAIN tasks :
                /\ Cardinality(ItemsOf(i)) <= MaxFunctions
                /\ \/ Cardinality(ItemsOf(i)) = 1
                   \/ Cardinality(CasesOf(disk'.items, ItemsOf(i), tasks[i].type)) <= MaxCases]_vars

\* A run that comes to its end leaves a task TODO only behind a task that is
\* blocked or was interrupted, or a checkpoint that failed or was missed.
RunFinishesThePlan ==
  [][sess.cmd = "run" /\ sess.pc = "end" /\ ~sess.dry /\ sess'.cmd = "none" /\ deaths' = deaths =>
       \/ \A i \in DOMAIN disk'.tasks : disk'.tasks[i].status # "TODO"
       \/ \E i \in DOMAIN disk'.tasks : disk'.tasks[i].status \in {"BLOCKED", "IN_PROGRESS"}
       \/ \E w \in DOMAIN disk'.checks : disk'.checks[w] = "FAILED"
       \/ missed # {}]_vars

\* The waves that are finished and not checked.
Unchecked ==
  {disk.tasks[i].wave : i \in {j \in DOMAIN disk.tasks : ~WaveOpen(disk, disk.tasks[j].wave)}}
    \ (DOMAIN disk.checks \cup missed)

\* When a wave is finished its checkpoint runs, unless the run dies between the
\* save of the last task and the checkpoint (run.py:255).
WaveChecked == (Unchecked # {}) ~> (Unchecked = {})
=============================================================================

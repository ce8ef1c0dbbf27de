# Formal models of roborajni

TLA+ models of the parts of this repository in which several processes or
threads share state: what they promise, what the code does, and the checks and
proofs that connect the two. Read this beside the source; every definition of a
model names the lines it stands for in `PROJECT.json` ("map").

## The system

The repository holds three programs, and experiments that measure the second.

| Program | Where | What it does |
|---|---|---|
| `team` | `team/mb`, `team/*.md` | A manager and any number of engineers, all of them agents in their own terminals, work on one task. They share a message board (`mb`, a SQLite file), path locks (`lock.sh`, files) and the `crew` launcher (tmux). |
| `ut` | `.agents/skills/ut` | A tool that prepares and runs unit-test tasks in waves: plan, run with retries, checkpoints, state file, knowledge base, code index. |
| `cvaccel` | `examples/cvaccel` | A C++ service for an accelerator with five cores: sessions, a memory pool, priority queues, a dispatcher, a simulated device with one thread per core, a client library. |

### Components, state, interaction

**Path locks, `team/mb/src/mb/lock.sh`.** State: one file per locked path
(`held/`: owner, time), one heartbeat file per owner (`owners/`: last seen, busy
until), a mutex directory made by `mkdir` with a time in it. Operations: acquire,
wait, release, release-all, alive, reap, break; every one is a shell process that
does many file operations, and any of them can be killed. Agents interact only
through these files. Hard: the mutex is removed by waiters once its time is too
old; a conflict check and the files it permits are far apart; heartbeats are
written outside the mutex; `reap` judges an owner before it takes the mutex.
Correct means: two owners never hold overlapping paths, a call takes all of its
paths or none, nobody's lock disappears unless he, a reap of him or a break of
that path did it, and every call ends.

**Message board, `team/mb/src/mb/cli.py`.** State: a log of messages, a cursor
per agent, subscriptions, projects, jobs, applications. Operations: the `mb`
commands, most of them one SQLite transaction, some several. Agents poll `inbox`;
the manager posts jobs, hires and closes; engineers look for a job, apply, and
read their channels. Hard: `inbox` is four statements, `job close`, `project
close` and `job show --next` decide in one transaction and act in another, jobs
expire inside the transactions of other commands, and a hire moves the engineer's
cursor back to the start of the project. Correct means: one engineer per job,
everybody who applied gets one answer and is shown it, an answer is final,
nobody but the members of a job or project is subscribed to its channel or writes
in it, no message is skipped, and engineers that look at the same moment are shown
different jobs.

**Crew, `team/mb/src/mb/crew.py`.** State: tmux windows, `config.json`. Launches
read the names in use and then create windows; harness commands rewrite
`config.json` as a whole, and so does `mb config`.

**cvaccel, `examples/cvaccel`.** State: sessions, blocks, posted requests, one
priority queue per core, running jobs, a flag per core, completions at the
client. Client threads call `handle` under one mutex; a worker thread per core
calls the completion handler, which takes the same mutex, wakes the client and
starts the next job. Hard: the order of completion and busy flag, re-enqueueing,
closing a session with jobs in flight, session ids that are given out again,
memory released under a running job, shutdown.

**ut task runner, `utcli/__main__.py`, `plan.py`, `run.py`, `state.py`,
`baseline.py`, `kb.py`, `seams.py`.** State: `state.json` (findings of the
baseline, work items, tasks with status, wave, dependencies and files,
checkpoints), `kb.json` (decided test seams), the files of the repository. The
phases `init`, `baseline`, `kb`, `discover`, `coverage`, `scope`, `plan`, `run`
each read a file as a whole and write it as a whole, some after minutes of work.
The executor picks a ready task, runs an agent, builds and tests, retries,
restores the files of a task that failed for good, and runs the checkpoint of a
finished wave. Hard: a death between any two saves, stale copies written back, a
failed checkpoint, dependencies on blocked tasks, tasks of different waves that
write the same file, the splitting of large groups. Correct means: work on a wave
starts only after every earlier wave passed; a failed task leaves no half-done
file; every work item is in the plan exactly as often as it must be; a run stops
early only for a reason; a user's decision is not undone.

**MC/DC measurement, `codeindex/mcdc.py`, `coverage.py`, and
`experiments/mcdc.py`.** State: the profile of the tests, `coverage.json`, the
tests somebody writes from it. `cov-import --llvm` merges what llvm-cov recorded
for the template instantiations of a decision and works out which conditions are
shown independent and which test would show each of the others; the experiment's
tool computes a smallest test set for the same decisions. Hard: short-circuit
evaluation with its "not evaluated" values, pairs that span instantiations,
reports that are older than the tests, minimality. Correct means: a condition
counts as shown exactly when two executions show it, a suggested test works
whatever it does with the conditions that are not evaluated, following the
suggestions ends with everything shown, and the smallest set is smallest.

The rest (code index, graph scripts, other experiments) is batch processing of
text without shared state. It is listed in `PROJECT.json` as not modelled.

## Modules

| Module | Stands for |
|---|---|
| `LockTable` | What the path locks promise: a table from paths to owners in which a set of paths is taken in one step, and only when nobody else holds an overlapping one. |
| `PathLock` | `lock.sh`: every file system operation that matters is a step of a process. Implements `LockTable`. |
| `PathLockProofs` | Every safety property of the locks, and the refinement of `LockTable`. |
| `MCPathLock` | Small instances: a directory, a file inside it, another path. |
| `Board` | The commands of `mb` that change messages, cursors, subscriptions, projects, jobs or applications. One action per transaction. |
| `BoardProofs` | Every safety property of the board. |
| `MCBoard` | Small instances of `Board`. |
| `MemoryPool` | `memory_pool.cpp`: first-fit allocation, as operators on a set of blocks. |
| `MemoryPoolProofs` | Allocation and release keep the pool well formed. |
| `CvService` | The service (sessions, pool, posted requests, queues, dispatcher, monitor), its clients, the simulated transport and the block with one worker per core. Builds on `MemoryPool`. |
| `CvQueueProofs` | What the operations on a queue do to its entries. |
| `CvServiceProofs` | Every safety property of the service. |
| `MCCvService` | Small instances of `CvService`. |
| `WavePlan` | What a plan promises: tasks in waves, a checkpoint after each. |
| `WavePlanProofs` | The promise implies that started work has passed waves behind it. |
| `UtPlan` | `plan.py`: from work items to tasks, as operators. The places that the items take are put in order, some of them open a task, and a task is what follows until the next one opens. |
| `UtTask` | The phases and the executor on `state.json`, `kb.json` and the files. Builds on `UtPlan`, implements `WavePlan`. |
| `UtTaskProofs` | Every safety property of `UtTask`, and the refinement of `WavePlan`. |
| `MCUtTask` | A small repository with every kind of work item. |
| `TestSets` | `experiments/mcdc.py`, `solve` and `_min_cover`: independence pairs and the search for the smallest test set. |
| `ShortCircuit` | The evaluation of a decision in both MC/DC tools, and the paths through it. Recursive, so no theorem is about it. |
| `Mcdc` | The loop of measuring, reporting and testing one decision. Builds on `TestSets`. |
| `McdcProofs` | Theorems about `Mcdc`. |
| `MCMcdc` | Ten decisions, evaluated by `ShortCircuit`. |

### How `PathLock` corresponds to the script

A process `p` is an invocation of `lock.sh`; `pc[p]` is the point it has reached:
`hbread`, `hbwrite` (`heartbeat`), `reapcheck` (the test of `reap`), `mkdir`,
`judge` (`mutex_lock`'s loop), `stamp`, `scan`, `write`, `remove`, `unlock`
(inside the mutex). `holder` and `lockedAt` are the files of `held/`, `lastSeen`
and `busyUntil` those of `owners/`, `mutex` the directory `.mutex` and the time in
it. Paths are canonical already; `Below` is the inside-of relation that `covers`
computes from their names. The clock ticks by itself up to `MaxTime`.

`granted` is not stored by the script: the paths an owner was given and has not
given up. It is what the owner relies on when it edits files, and it is the
variable `LockTable` speaks of; `Exclusive` is about it and not about the files.

`Kill` ends a process at one of `KillPoints` and leaves its files as they are.
`CanStall` says whether a step may take longer than the age at which a mutex
counts as stale. `Reliable` stands for "no call dies or stalls inside the mutex".

### How `Board` corresponds to `mb`

`log` is the table of messages in `seq` order; a message keeps its topic, its
sender and the first word of its body. `job`, `app`, `project`, `subs`, `cursor`
are the tables. A command that reads in one transaction and acts in a later one
leaves what it read in `call[a]`: `inbox` (cursor, topics, messages, new cursor),
`job show --next`, `job close`, `project close`. `got` and `told` are on the
agents' screens: the messages that were printed, and the note "your job is closed".

A project id stands for its manager, too, and an application id for the engineer
that looks for a job before it applies: the code gives every application a new
agent id.

Two restrictions are stated as parameters. An agent runs one command of several
transactions at a time (any of the others may run meanwhile); that is how
`SKILL.md` tells agents to work. With `CalmJoin`, nobody is made a member of a
channel in the middle of its own `inbox`; without it, messages are skipped (see
*Disagreements*), so the property about skipping is checked with it and refuted
without it.

`job hire` rejects the losers of each job just before it hires for that job; the
model posts all rejections of a transaction before all hires. No topic receives
both, apart from the lobby's FILLED, so no reader can tell.

### How `CvService` corresponds to the service

A request is its number, `req` what `postConfig` wrote down. `posted`, `queue`,
`running` and `silenced` (a job whose `clientFd` was set to -1) are the members of
the service and the dispatcher, `worker[k]` is the thread of core `k`: it has no
job, it works, or it has called the completion handler and not yet cleared its
busy flag. Every call into the service holds its one mutex, so a call is one
action, the pump it ends with included; workers and clients interleave between
the calls. `waitsFor` and `inbox` are the client's blocked `wait` and the
completions its wake handler stored. `phase` takes a client's objects down in the
order of its destructor, which is where late wake-ups could hurt. `mine` is the
library's `session_`: `OpenSession` asks for no closed session first, because the
code does not, so a client may open a second session and forget the first, and all
its later calls are for the second.

Abstracted: a status of the block other than OK is "done" like OK (nobody looks at
it but the caller); `arrived` orders what `tQueued` orders. History variables
(`told`, `taken`, `ended`, `hasty`, `pushedBack`) are written and never read.

### How `UtTask` corresponds to the tool

`disk` is `state.json`, `kb` the seams of `kb.json`, `tree` the files of the
repository (absent, as they were, with an attempt of the agent, or built and
tested). `sess` is the command that runs: what it loaded and how far it is. A
command that loads, changes and saves without waiting for anything is one action;
the others are several, with a death possible at each. `Pick`, `call_agent`,
`Fails`, `Blocks`, `Record` and `checkpoint` are the steps of `run_tasks`. The
list of finished phases in `state.json` is left out: nothing decides by it.
`Discovered` has the four outcomes of `cmd_discover`: the items of a range with
those of the baseline behind them, none when the impact of the range cannot be
told, the items of `--names` without those of the baseline, and those there were.
`UtPlan` keeps of a work item what the planner looks at (kind, category, file,
function, tests, mocks, includers, number of cases) and of a task what the
executor looks at.

`lost` and `missed` remember what a command that died was doing; they name the
exceptions the code has and no action reads them.

`WavePlan` knows tasks and checkpoints only. `Waves` in `UtTask` substitutes what
`state.json` says of the tasks for its variables, and `WavesKept` is its whole
specification as a property.

### How `Mcdc` corresponds to the tools

An evaluation is the value of each condition, `"-"` for one that was not asked,
and the outcome. `Evaluation` is a constant of `Mcdc`, so that the proofs hold for
every decision that evaluates by the rule `EvaluationAssumption` states (asked
conditions have their value, others no influence); `MCMcdc` gives it the value
that `ShortCircuit!Evaluate` computes as `all_vectors` does. `Paths`, what
`evaluations` finds, is a constant in the same way: `PathAssumption` says that the
decision is read from left to right (whether a condition is asked follows from the
values before it) and that what can happen is among the paths; `MCMcdc` gives it
`ShortCircuit!Possible`. `runs` is the
profile, per instantiation; `report` is what the last import wrote. `Suggestions`
is the set of which the code prints the first it finds. The properties measure the
report with the rule of the other tool (`experiments/README.md:93-99`), written as
the set of differing conditions.

## Runs

TLC, two workers. "States" are distinct states.

| Run | Question | States |
|---|---|---|
| `locks_exclusive` | Two agents wait for, release and reap a directory, a file inside it and another path, with busy windows and a call killed outside the mutex. Are locks exclusive, complete, kept, and does every acquire look like one step of `LockTable`? | 4.3 M |
| `locks_return` | Calls are killed anywhere, also inside the mutex, and steps may stall. Does every call end, and is a dead mutex removed? | 344 k |
| `board_hiring` | Two projects, two jobs of which one can expire, two engineers, jobs closed in two steps. One engineer per job? Nobody waiting for a job that is over? Nothing undone? Are looks spread over the jobs? | 2.4 M |
| `board_outcomes` | Without `--ttl`: is every applicant sent one right answer, shown it, and told when its job is closed, with inboxes killed anywhere, `ack`, and hires in the middle of an inbox? | liveness |
| `board_mail` | A manager and one of two engineers read mail, killed anywhere, while messages are written, an engineer is hired and job and project are closed. Is a message ever passed over? Is anybody subscribed to a channel, or has anybody written in one, who is not of the job or project? | 4.6 M |
| `cv_service` | Two clients, one core, three requests, a queue of two, two blocks freed or closed under running jobs, refusals with BUSY and with an error, waits that time out, clients that open a second session over the first, or die. Is every request in one place and answered once, in order? Is a client that is gone left alone, and is nothing of it left? Do accounts, pool and statistics agree? With the maintenance call, is every request answered? | 965 k |
| `ut_task` | From `init` to a second `run`: what discovery may find, a baseline with two failures or none, coverage, the choice of a seam in between, two plans, agents that write, fail or give up, a command that dies anywhere. Are the waves kept (refinement of `WavePlan`), is the plan complete, do only the dead leave attempts, is every finished wave checked? | 1.6 M |
| `mcdc_loop` | Ten decisions with two to four conditions, templates, coupled conditions; tests run, are measured and written from reports that may be old. Is the report true, does each suggestion work, does the loop end with everything shown, is the other tool's test set the smallest? | 22 k |
| `v_cv_stuck` | Refuted: `EveryRequestAnswered` when nobody calls `pump()`. | |
| `v_stale_mutex` | Refuted: `Exclusive` when a call dies inside the mutex. | |
| `v_expired_untold` | Refuted: `ToldOutcome` when a job expires. | |
| `v_hired_in_inbox` | Refuted: `NothingSkipped` when an applicant is hired in the middle of its inbox. | |

**Bounds.** Locks: two processes, because every clause of the properties relates
two calls, and three paths, because a conflict is direct, through a directory, or
absent; a call names one or two paths so that "all or nothing" has a part to
lose. The clock has two or three values: all comparisons are "older than a limit"
and the limits are 0 or 1. One kill: a second one adds no new kind of leftover.
Board: two applicants race for a job and two jobs for an applicant; a second
project separates "the manager" from "a manager"; `MaxViews` 2 lets views and
pending applications tie in both ways; `MaxLog` is larger than the messages a
behaviour of the instance posts in the runs about mail, so that it ends nothing
early, but for one thing: the 11 messages of `board_mail` do not hold a behaviour
in which both engineers apply, one is hired, something is said and both job and
project are closed; in `board_hiring` it does cut the longest behaviours (11 messages hold one
project with both its jobs filled; or two projects, two jobs, two applications, a
hire and its rejection; or a hire over a rival and the closing of that job), and
the theorems cover the rest. Deadlock is not checked on the board, where a finished project stops.

cvaccel: three requests are one running, one queued and one that finds the queue
at its limit or waits behind it; one core, because cores share nothing but the
sessions and the pool; two sessions opened over two numbers with `MaxOpens` 2, so
that a number is given out again while a job of its earlier session runs, and that
one client holds both; blocks
of 1 and 3 units in a pool of 4, so that rounding, fragmentation and exhaustion
occur; one refusal with BUSY. `ut_task`: two modules with their tests and a mock,
items of all kinds, one group with more cases than a task may have, two
attempts, one death, two uses of `plan` and `run`; a command is not used once a
later phase was (`Turn`), which keeps the phases in the order `SKILL.md` tells,
and the seam is set before the first run. The plan is arbitrary in the theorems.
`mcdc_loop`: all shapes of three conditions up to symmetry, two shapes of four,
two conditions that exclude each other and a condition that occurs twice; two
instantiations for the smaller ones; two tests that the report did not ask for.
The uses of commands, requests and tests are bounded, so `cv_service` and
`ut_task` may stop and do not check deadlock; `mcdc_loop` never stops.

**Symmetry.** Applicants in `board_hiring`, which checks invariants and action
properties only.

**Fairness.** `PathLock!FairSpec`: a running process takes its next step, and time
passes. Nobody has to type a command or to die. `Board!FairSpec`: `SKILL.md` tells
every agent to poll `inbox` whenever it has nothing else to do, so `inbox` is
weakly fair; and since an inbox may be killed at any point, strong fairness says
that not every one of them is killed at the same point. Nothing is assumed of the
manager: it may never hire or close. `CvService!Spec`: a worker thread with a job
goes on; `Maintain`, the call of `pump()` that `service.hpp:35` asks of whoever
runs the service, is made again and again, and is strongly fair in starting a core
because a BUSY answer is "retry later" (`hw_block.hpp:23`) and not for ever. The
demo does not make that call, and `SpecUnattended` is refuted. `UtTask!Spec`: a
command that was started goes on until it ends or dies; nobody has to start one.
`Mcdc!Spec`: somebody follows the report and measures again, which is the loop
`tools/llvm-mcdc.md` prescribes; it is an assumption about the user.

**Mutants.** For every property of every passing run, `PROJECT.json` names a
plausible bug (a forgotten parent directory, a stale rule the wrong way round,
losers left pending, a cursor moved to the newest message, ...), written as an
operator beside the definition it replaces, under which that property fails.

## Proofs

For any sets of processes, owners, paths and any bounds (`PathLockProofs`), for
any projects, jobs, applicants and any log length (`BoardProofs`), any clients,
cores, pool and alignment (`MemoryPoolProofs`, `CvServiceProofs`), any repository,
findings, agents and number of attempts (`WavePlanProofs`, `UtTaskProofs`), and
any decisions, instantiations and tests (`McdcProofs`). The assumptions on the
constants are the named `ASSUME`s of the modules; TLC evaluates them.

Every invariant, action property and refinement that a passing run checks is a
theorem. The work is always the same: the property
does not follow from itself, so the invariant that a module proves says more.
Where a lemma needs induction over data (a list of places, a set of paths, the
bytes of a session), it is stated of the least counterexample: the library's
induction rules take an operator and no prover here can use them, but a nonempty
set of numbers has a least member (`LeastIn`, `LeastNat`) and the strict subsets of
a finite set are well founded.

**Locks.** Assuming `Reliable`, `IInv` is inductive: at most one process is inside
the mutex, the directory exists exactly then and is never stale
(`MutexInv`); what a conflict check found still holds while the files are written
(`ScanStillValid`), which the mutex exists for; lock files of two owners do not
overlap and cover what was granted (`FilesInv`). `Exclusive` alone is not
inductive: a step of `Write` keeps it only because of `ScanStillValid`, and that
only because of `MutexInv`. From it: mutual exclusion (`MutualExclusion`), no
overlapping grants (`ExclusiveLocks`), success means held (`SuccessIsHeld`), the
refinement of `LockTable` (`Implementation`), no lock removed by a stranger
(`OnlyOnPurpose`). `Typing` needs no assumption. `WindowKept` needs none on
failures, but one call per owner at a time.

`AllOrNothingHolds` is about loops over files and not about one step, so its
invariant (`Wholeness`) says that a list is held in part only while a call is
writing it or removing from it (`PartsInv`), and that what the removing loop has
passed holds nothing that it may remove (`LoopInv`). Besides `Reliable` it assumes `WholeLists`: two argument lists are the
same or disjoint and nobody uses `break`. Both are needed. Who holds `{a, b}` and
releases `{b, c}` is left with a part of a list, and so is the owner of a list of
which somebody breaks one path; neither is wrong, so this is a limit of what the
property can say and not of the code.

**Board.** `IInv` is inductive together with "the log is a sequence". To keep one
engineer per job across a hire of the first applicant of every job, the winners
must be distinct per job: applications are ordered by the length of the log when
they were made, and that length grows with each (`AppOrder`). To keep closed jobs
in the table's life cycle across the two steps of `job close`, the job it is about
to close must have been posted (`Closing`). Theorems:
`BoardInvariant`, `OneEngineerPerJob`, `NothingUndone`. `IInv` is what the proofs
need, so it is proved here and no run checks it.

The theorems about mail rest on what the log says. `BookInv` adds that jobs were
posted at places of their own (`PostOrder`) and that every message is about a job
or an application that exists (`Fine`); `Books` that cursors and what was shown
lie in the log (`BoardTypes`). `EveryDecisionTold` counts the answers in the log:
an applicant that was decided about has one, of the right kind, and any other has
none (`ToldInv`), so that a second answer would need an application that is
pending again. It assumes that no job expires, and the run `v_expired_untold`
shows that it must. `ChannelsForMembers` needs both halves of `ChannelsOfMembers` at once: what an
agent may write follows from what it is subscribed to, a job keeps its project and
its engineer once it has them (`MembersStay`), so whoever was a member when it
wrote or subscribed is one for good. `NoMailSkipped` keeps for each reader that its mail up to the
cursor was shown, in the middle of an `inbox` also up to the cursor that it will
set, and that the topics it asked for are still all it has (`MailInv`); the last
part is what `CalmJoin` is for, and `v_hired_in_inbox` shows that it is needed.
`FreshJobsShownFirst` needs that the job somebody reads was counted as shown and
that a count is never taken back (`ReadInv`).

**cvaccel.** `AllocateKeepsWellFormed`: a first fit of the rounded size lies in the
pool and apart from every block, so no two blocks ever overlap.
`PoolAlwaysSound` carries it through every action of the service; what it needs
besides is that a block's owner is an open session (closing a session frees its
blocks in the same step) and that handles only grow.

`ServiceInv` is the invariant of the rest: the pool, the types, a request in one
place (`Placed`), answers for the requests that are over and no others
(`Answered`), an open session behind whatever is not over, completions at their
clients, and memory behind every job whose client did not free it. `Placed` is
the hard part, because a call can take requests from one place, end them, start
others and push some back, all in one step. `CvQueueProofs` says what each
of these does to a queue, and the lemma `StepKinds` says once, for every action,
which requests it ends and that each of the others is still in one place. From it
follow `AlwaysOnePlace`, `HwMemoryAlways`, `NothingLostEver` and `TypesAlwaysOK`;
and, with whose sessions are open at each point of a client's end
(`SessionsHeld`), `NeverLateWake` and `DisconnectedIsGone`. `QueueAlwaysOrdered` adds
that what is queued has arrived, once (`HasArrived`), and that a queue is in the
order of arrival but for what was pushed back (`QueuesOrdered`);
`StatsAlwaysMatch` that the monitor counts what has ended (`MonitorInv`);
`AccountsAlwaysRight` that a session's count is below what it has open, equal when
its number is new (`CountsInv`), and that bytes are those of the blocks
(`BytesInv`, a sum over a set that every step changes by at most a session's
blocks).

**ut.** `WavesAlwaysInOrder` is proved of `WavePlan` alone: a result is never taken
back, so a wave that was over when it was checked stays over. `TaskKeepsWaves`
shows that every step of `UtTask` is a step of `WavePlan` on `state.json` or
changes nothing there. A save replaces the whole file, so the step is what the
plan promises only if the copy that is saved differs from the file in the one
task the command worked on. That is the invariant (`Holds`, proved in
`CommandsHoldTheFile`): by the point the command has reached, its copy has the
file's plan, a fresh plan, or the file's plan with one result. `NoAttemptLeft`
needs that the restored files are the ones the attempts could write;
`SeamAlwaysKept` that a detected seam never overrides a decided one.

The planner is proved from its operators. `SortedLists` says of `Sorted` that it
is a list of all elements, each of them once, in the order of any strict total
order. So the places of the items are listed once (`PlacesListed`), the tasks are
those that the opening places begin (`TasksListed`), and each place lies in the
task of exactly one of them: the last one of its group that opens at or before it
(`OneChunk`, which does not depend on where the planner cuts as long as it opens a
task at the first place of each group). Where it cuts is a recursive function,
`Filled`: what the open task of a group holds at each place, told from the place of
the group before it. TLAPS knows of a recursive function only that it is a choice,
so `FilledIs` shows first, by induction over the list, that something satisfies the
equation. A second induction (`FilledHolds`) shows that the numbers it carries
are the members and the cases of the task so far (`Sofar`, `Load`) and that these
never pass the limits; the task of an opening place is what its last place says
(`ChunkHolds`). `TasksSmall` takes this from places to items: `items[n]`
may have several places, but the places of one task map onto its items, and their
cases onto the items' cases. `TaskTypes` carries the types of items and
tasks through every command. `PlanAlwaysCovers` adds up how many tasks an item is
in (`ItemsPlanned`), that tasks of different waves that may write the same
file are ordered (`PlanOrdered`, also after the waves were numbered again), and that
no task holds more than four items, or more than twelve cases unless it is one
item (`TasksSmall`). An
item is known by its number, so the invariant keeps that numbers are unique
(`NumbersInv`), and this is where the code sets a limit: `cmd_coverage` starts
from the number of items and counts the gaps that are known already
(`__main__.py:180`), so after one import the numbers have holes and a second
import may use one again. The theorem is therefore about histories with at most
one import (`OneImport`), and its run has one. `RunsFinish` argues from the end: waves rise
with the tasks, and every wave that is over was checked or its run died
(`SettledInv`); so where nothing failed and nothing was missed, the first task
that is left is ready (`FirstIsReady`), and the run would not have stopped.

What the phases find is not modelled but assumed (`InputAssumption`, `IsItem`):
lists of items on files of the repository, numbered by their places, with each
test file that includes a changed header listed once. `graphify_ut.py:1518-1581`
produces them that way.

**MC/DC.** `ReportAlwaysTrue`: the rules of the two tools agree on evaluations
(`SameRule`), merging instantiations loses no pair (`CoveredByAll`), and inputs
that take the named values reproduce the suggested evaluation
(`TestReproduces`). The invariant keeps that every condition counted as covered is
shown by the executions of the report (`CoveredIsShown`). Nothing is claimed of one
report against the next: a new measurement may start from an empty profile. That a
suggestion exists for every condition would need induction over the expression; TLC checks
it through `EveryConditionShown`.

`TestSetAlwaysMinimal` needs to know that `_min_cover` may start at one test more
than there are conditions to show (`mcdc.py:397`). `OneMoreThanShown` says so: a
set of paths shows fewer conditions than it has members. The paths of a set ask the
same conditions up to the first one in which two of them differ
(`FirstDifference`), so that one splits the set in two; every pair that shows
another condition lies in one half, because a pair across differs in the splitting
condition. Each half shows fewer conditions than it has members, and with the
splitting condition the sum is still smaller. Don't-cares and coupled conditions
only take paths away. The rest is that the search finds the smallest set from there
on (`SmallestIsSmallest`) and that the executions of tests are paths
(`StepExecuted`). TLC evaluates `PathAssumption` on the ten decisions of `MCMcdc`.

**Checked by TLC only:** liveness (`EveryCallReturns`, `DeadMutexRemoved`,
`DecisionShown`, `EngineerStops`, `EveryRequestAnswered`, `WaveChecked`,
`EveryConditionShown`), which the prover does not do; and that `ShortCircuit`,
which is recursive, gives every decision an evaluation and paths as
`EvaluationAssumption` and `PathAssumption` say.

## Disagreements between code and documentation

* `v_stale_mutex`: `lock.sh:87` removes a mutex long after it read the time in it.
  Two waiters that both read the time of a dead call remove two mutexes, the
  second of them alive; both go on to write, and `LOCKING.md`'s "Locks prevent
  both" fails.
* `v_expired_untold`: `_expire` rejects applications without a message, and
  `SKILL.md:118` tells the applicant to poll for `HIRED` or `REJECTED`.
* `v_hired_in_inbox`: a hire between the statements of `inbox` moves the cursor
  back, `inbox` then moves it forward, and the project's history is never shown.

* `v_cv_stuck`: the worker reports a completion while its core is still busy, the
  pump of that completion is refused, and the next request waits for a call that
  nobody makes; `SPEC.md` promises that it is forwarded.

Known limits without a run of their own.

*Locks and board.* A call killed
between `mkdir` and the time stamp leaves a mutex that no rule removes
(`MutexStale` needs a time), so all later calls die after their attempts until
somebody removes the directory by hand; a call killed between two lock files
leaves a part of its paths locked until it is reaped; `reap` judges the owner
before it takes the mutex, so that an owner that comes back at that moment loses
its locks; two calls of one owner at the same time can lose a busy window;
`project close` does not repeat its check, so that a job posted in between stays
open in a closed project. A channel is private only to write in: `mb pub` asks
whether the sender is a member (`cli.py:311`), while `mb tail --topic job/<id>`
prints any topic to anybody (`cli.py:433-440`), as `team/README.md` tells whoever
watches; `ChannelsOfMembers` is about subscribing and writing for that reason.

*cvaccel.* `cvclient.hpp:21` says "One Client per session", and nothing in
the library or the service keeps to it (`SPEC.md:10` allows a client several): a
second `openSession` overwrites `session_` (`cvclient.cpp:36`), the first session
stays open, and `~Client` closes the last one only. A job of the first that ends
after `~Client` and before the transport unregisters the client calls a wake
handler whose `impl_` is deleted. `NoLateWake` names this exception (`LeftOpen`) and
shows that there is no other; `NothingLeftBehind` shows that it is over when the fd
is closed, because the service closes all sessions of the fd
(`service.cpp:137-142`). A request that the block refuses is dequeued and enqueued again behind
later ones of its priority, although the comment says it is put "back where it
came from" (`dispatcher.cpp:48-50`; `QueueOrder` names the exception). The memory
of a running job is released when its client frees it or closes the session
(`service.cpp:63`; `HwMemory` names the exception), and a queued job then goes to
the hardware with address 0 (`dispatcher.cpp:22`). Requests that were posted and
not submitted are dropped without an answer on close. A session number that is
given out again under-counts `openRequests` while old jobs end
(`dispatcher.cpp:107`) and inherits the counts of `GET_STATS`
(`perf_monitor.cpp:41`). The block's destructor notifies without its mutex
(`sim_accel_block.cpp:15`), so a worker may miss it.

*ut.* An agent that takes more than its hour raises out of the executor and leaves
its task `IN_PROGRESS` in the file; no later run takes it (`run.py:140`). A death
between `run.py:255` and `256` leaves a finished wave without its checkpoint for
ever, although a checkpoint is promised for each. A checkpoint that failed is
never run again. `cmd_run` marks the phase as executed when no task is `TODO`,
even with one `IN_PROGRESS` (`__main__.py:319`). A long command writes back the
`kb.json` it read before `ut seams --set` (`__main__.py:102`; `SeamStep` names the
exception). Two executors on one `state.json` overwrite each other, and a crash
during a save leaves a torn file (`state.py:40`). A plan that is rejected has
already overwritten the task files. A second coverage import may number work items
again from an id that is in use (`__main__.py:180`), and a task then stands for
both; `ut_task` has one import, and `PlanAlwaysCovers` says so. The register file that all tasks share makes one
blocked task hold back all later ones that write it.

*MC/DC.* `codeindex/mcdc.py` does not know that two conditions are the same
expression or exclude each other, and may suggest a test that nobody can write;
the loop then does not end (`EveryConditionShown` is stated for decisions whose
conditions are free, and `experiments/mcdc/README.md` reports agents that kept
trying). For a template whose condition is constant in each instantiation but
differs between them, the gap line says "no test can show it independent" while
`mcdc.py:198` would count a pair of two instantiations. A later import from
another source replaces `coverage.json` without its MC/DC part.

## Not modelled, and why

* `lock.sh` check, list, status, watch; `mb` tail, stats, log, config, who: they
  only read, or change nothing that anything depends on. `mb tail` shows any topic
  to anybody.
* Path canonicalisation, text of messages and postings, labels and job kinds,
  schema migrations: data that no property tells apart.
* SQLite's own locking and durability: a transaction is atomic, as the code
  relies on.
* cvaccel: times, averages and per-core statistics, `largestFree`, shutdown and
  the destructors of service and block, payloads that are too short (rejected
  before anything changes), the failure injection of the simulation; a second
  `Client` on the transport of a first, whose wake handler it would replace.
* ut: pilot, harness, close, trace and status, `--only`, prompts, cards, exemplars
  and diagrams, the written task files, detection of compilers and frameworks,
  index refresh, hand edits of `state.json`. They produce text, ask the user, or
  call the modelled phases.
* MC/DC: the parsing of llvm-cov, lcov, gcov and CTC reports, decisions with
  compile-time constants or with text that is not conditions and `&&`, `||`, `!`
  (no suggestion is made for them), more than six conditions, line and branch
  outcomes, bitwise operators, the greedy fallback of the test set.
* `crew.py`: it drives tmux, whose windows and panes would be a model of a program
  outside the repository. Its two races (names read before windows are created,
  `config.json` rewritten as a whole) are listed as a hazard.
* Code index, graph scripts, the other experiments: parsers and reports over one
  source tree, one process each, with no state to interleave. They are two thirds
  of the repository's lines, and modelling them would mean transcribing text
  processing.

## Plan

1. Done: path locks and their proofs, with the refinement of `LockTable`.
2. Done: the board and the proofs of its invariant.
3. Done: the cvaccel service, liveness under maintenance, proof of the pool.
4. Done: the ut task, its planner and executor, proof of the refinement of
   `WavePlan`.
5. Done: the MC/DC loop and test sets, proof that the report is true.
6. Left: `Crew`; a team of `PathLock` and `Board` in which an engineer releases
   its locks before it takes its next job.
7. Done: proofs of every invariant and action property that the runs check, the
   smallest test set among them.
8. Done: that no task of a plan is above the limit of cases and functions.

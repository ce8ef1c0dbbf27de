------------------------------- MODULE UtPlan -------------------------------
(***************************************************************************)
(* The ut tool's plan (utcli/plan.py): from the work items in scope to     *)
(* tasks with their waves, the files they may write and their              *)
(* dependencies.  Only operators; UtTask runs the plan.                    *)
(*                                                                         *)
(* A work item is what discovery found: one changed, deleted, targeted or  *)
(* uncovered function, a changed type with the test files that include it, *)
(* or a file in which the baseline fails.                                  *)
(***************************************************************************)
EXTENDS Integers, Sequences, FiniteSets, SequencesExt

CONSTANTS
  FileOrder,    \* the files of the repository, sorted by name
  TestFileOf,   \* the test file of a module: its first one in the KB, else the
                \* name the pattern gives
  MockFiles,    \* the files whose name says mock, stub or fake
  RegisterFile, \* the build file of exemplars/register.md, or NoFile
  NoFile

Files == Range(FileOrder)

ASSUME UtPlanAssumption ==
  /\ FileOrder \in Seq(Files)
  /\ TestFileOf \in [Files -> Files]
  /\ MockFiles \subseteq Files
  /\ RegisterFile \in Files \cup {NoFile}
  /\ NoFile \notin Files

MaxCases == 12  \* of one task
MaxFunctions == 4

Types == {"fix-build", "fix-mocks", "remove-tests", "update-tests", "add-tests",
          "fix-run", "raise-coverage"}

WAVE(type) ==
  CASE type = "fix-build" -> 1
    [] type \in {"fix-mocks", "remove-tests", "update-tests"} -> 2
    [] type \in {"add-tests", "fix-run"} -> 3
    [] type = "raise-coverage" -> 4

CatToType(cat) ==
  CASE cat = "A" -> "remove-tests"    [] cat \in {"B", "H"} -> "update-tests"
    [] cat = "C" -> "fix-mocks"       [] cat = "D" -> "add-tests"
    [] cat = "E" -> "fix-build"       [] cat = "F" -> "fix-run"
    [] cat = "G" -> "raise-coverage"  [] OTHER -> "add-tests"

(***************************************************************************)
(* What discovery writes down of an item.  `home` is the file of an        *)
(* existing test the item names; `scope` is empty until the scope phase.   *)
(***************************************************************************)
Item(id, file, fn, kind, cat) ==
  [id |-> id, file |-> file, fn |-> fn, kind |-> kind, cat |-> cat, tests |-> 0,
   mocks |-> {}, includers |-> <<>>, cases |-> 1, gaps |-> 0, home |-> NoFile,
   hidden |-> FALSE, scope |-> ""]

\* The files that an item names are files of the repository, but for the header
\* of a changed type, of which only the files that include it matter, each of them
\* listed once.
IsItem(w) ==
  /\ {"id", "file", "fn", "kind", "cat", "tests", "mocks", "includers", "cases", "gaps",
       "home", "hidden", "scope"} \subseteq DOMAIN w
  /\ w.kind = "type" \/ w.file \in Files
  /\ w.mocks \subseteq Files /\ w.home \in Files \cup {NoFile}
  /\ w.includers \in Seq(Files) /\ IsInjective(w.includers)
  /\ w.cases \in Nat /\ w.gaps \in Nat

\* A failing baseline becomes one item per file its errors name, in the order in
\* which they name them.
BaselineItems(problems, n) ==
  [i \in 1..Len(problems) |->
     Item(n + i, problems[i].file, "-", "baseline",
          IF problems[i].stage = "build" THEN "E" ELSE "F")]

Planned(w) == w.scope = "yes" /\ w.cat # "H"
Unreferenced(w) == w.kind = "deleted" /\ w.tests = 0 /\ w.mocks = {}
NotIncluded(w) == w.kind = "type" /\ w.includers = <<>>

\* Planning takes an item that nothing can be done for out of the scope.
AfterPlanning(w) ==
  IF Planned(w) /\ Unreferenced(w) THEN [w EXCEPT !.scope = "unreferenced"]
  ELSE IF Planned(w) /\ ~Unreferenced(w) /\ NotIncluded(w)
  THEN [w EXCEPT !.scope = "notIncluded"]
  ELSE w

\* How much of a task an item takes.
Weight(w, type) ==
  IF type = "raise-coverage" /\ w.gaps > 0 THEN w.gaps
  ELSE IF type \in {"add-tests", "raise-coverage", "update-tests"} THEN w.cases
  ELSE 1

Entry(w, file, type, header) ==
  [id |-> w.id, file |-> file, type |-> type, header |-> header,
   weight |-> IF header THEN 1 ELSE Weight(w, type),
   mocks |-> w.mocks, home |-> w.home, hidden |-> w.hidden /\ ~header]

\* The places in the groups that an item takes: a changed header is checked in
\* every test file that includes it, any other item has one place.
Entries(w) ==
  IF ~Planned(w) \/ Unreferenced(w) THEN <<>>
  ELSE CASE w.kind = "baseline" ->
         <<Entry(w, w.file, IF w.cat = "E" THEN "fix-build" ELSE "fix-run", TRUE)>>
    [] w.kind = "type" ->
         [i \in 1..Len(w.includers) |->
            LET f == w.includers[i]
            IN  Entry(w, f, IF f \in MockFiles THEN "fix-mocks" ELSE "update-tests", TRUE)]
    [] OTHER -> <<Entry(w, w.file, CatToType(w.cat), FALSE)>>

\* A sequence (of which TLC then evaluates each element once).
Evaluated(seq) == <<>> \o seq

\* The elements of S in the order of a set of pairs that orders them strictly.
Sorted(S, before) ==
  Evaluated([n \in 1..Cardinality(S) |->
               CHOOSE x \in S : Cardinality({y \in S : <<y, x>> \in before}) = n - 1])

\* The places that all items take, in the order of the items.
Places(items) ==
  LET places == UNION {{n} \X DOMAIN Entries(items[n]) : n \in DOMAIN items}
      before == {pq \in places \X places :
                   \/ pq[1][1] < pq[2][1]
                   \/ pq[1][1] = pq[2][1] /\ pq[1][2] < pq[2][2]}
      order == Sorted(places, before)
  IN  Evaluated([i \in DOMAIN order |-> Entries(items[order[i][1]])[order[i][2]]])

\* Items of one file and one type of task are a group.
SameGroup(d, e) == d.file = e.file /\ d.type = e.type

\* A task holds at most 12 cases or 4 functions: what the open task of a group holds
\* when the place e comes in and it held t before.
Nothing == [held |-> 0, size |-> 0]
Put(t, e) ==
  IF t.held > 0 /\ (t.size + e.weight > MaxCases \/ t.held >= MaxFunctions)
  THEN [held |-> 1, size |-> e.weight]
  ELSE [held |-> t.held + 1, size |-> t.size + e.weight]

\* What the task of each place holds, with the places of its group up to there.
Filled(entries) ==
  LET Earlier(i) == {j \in 1..(i - 1) : SameGroup(entries[j], entries[i])}
      filled[i \in DOMAIN entries] ==
        Put(IF Earlier(i) = {} THEN Nothing ELSE filled[Max(Earlier(i))], entries[i])
  IN  filled

\* The places at which a task begins.
Opens(entries) == {i \in DOMAIN entries : Filled(entries)[i].held = 1}

\* The places in the task that begins at i.
\*
\* Mutant: the chunk is not emptied when the next one begins.
ChunkNotEmptied(entries, opens, i) ==
  {j \in DOMAIN entries :
     /\ SameGroup(entries[j], entries[i])
     /\ \A k \in opens : i < k /\ k <= j => ~SameGroup(entries[k], entries[i])}
Chunk(entries, opens, i) ==
  {j \in DOMAIN entries :
     /\ i <= j /\ SameGroup(entries[j], entries[i])
     /\ \A k \in opens : i < k /\ k <= j => ~SameGroup(entries[k], entries[i])}

\* The test file a task is for: a header task's own file, else the file of
\* the first existing test the items name, else the module's.
TestFile(entries, opens, i) ==
  LET chunk == Chunk(entries, opens, i)
      homes == {j \in chunk : entries[j].home # NoFile}
  IN  IF \E j \in chunk : entries[j].header THEN entries[i].file
      ELSE IF homes # {} THEN entries[Min(homes)].home
      ELSE TestFileOf[entries[i].file]

Touches(entries, opens, i) ==
  {TestFile(entries, opens, i)}
    \cup (IF entries[i].type = "fix-mocks"
          THEN UNION {entries[j].mocks : j \in Chunk(entries, opens, i)} ELSE {})
    \cup ({RegisterFile} \ {NoFile})

\* The task that begins at i.
Task(entries, opens, i) ==
  LET chunk == Chunk(entries, opens, i)
  IN  [type |-> entries[i].type, file |-> entries[i].file,
       items |-> {entries[j].id : j \in chunk}, wave |-> WAVE(entries[i].type),
       touches |-> Touches(entries, opens, i), hidden |-> \E j \in chunk : entries[j].hidden]

\* A task of a fresh plan.
Todo(task, wave, depends) ==
  [type |-> task.type, items |-> task.items, wave |-> wave, depends |-> depends,
   touches |-> task.touches, hidden |-> task.hidden, status |-> "TODO"]

PositionOf(f) == CHOOSE i \in 1..Len(FileOrder) : FileOrder[i] = f

\* The tasks, by wave and then by file; groups equal in both stay in the order in
\* which they were opened.
Grouped(entries) ==
  LET opens == Opens(entries)
      Group(i) == {j \in DOMAIN entries : SameGroup(entries[j], entries[i])}
      rank == Evaluated([i \in DOMAIN entries |->
                <<WAVE(entries[i].type), PositionOf(entries[i].file), Min(Group(i)), i>>])
      before == {ij \in opens \X opens :
                   \E n \in 1..4 : /\ rank[ij[1]][n] < rank[ij[2]][n]
                                  /\ \A m \in 1..(n - 1) : rank[ij[1]][m] = rank[ij[2]][m]}
      order == Sorted(opens, before)
  IN  Evaluated([n \in DOMAIN order |-> Task(entries, opens, order[n])])
Tasks(items) == Grouped(Places(items))

\* The waves are numbered again without holes.  A task waits for the one before it
\* in its group, and for every task of an earlier wave that may write one of its files.
\*
\* Mutant: every task waits for those of any other wave.
InBothWays(tasks) ==
  LET Related(i) == {j \in DOMAIN tasks : tasks[j].wave # tasks[i].wave
                                          /\ tasks[j].touches \cap tasks[i].touches # {}}
  IN  [i \in DOMAIN tasks |-> Todo(tasks[i], tasks[i].wave, Related(i))]
InWaves(tasks) ==
  LET waves == {tasks[i].wave : i \in DOMAIN tasks}
      Renumbered(w) == Cardinality({v \in waves : v <= w})
      Previous(i) == {j \in 1..(i - 1) : j = i - 1 /\ SameGroup(tasks[j], tasks[i])}
      Earlier(i) == {j \in DOMAIN tasks : tasks[j].wave < tasks[i].wave
                                          /\ tasks[j].touches \cap tasks[i].touches # {}}
  IN  [i \in DOMAIN tasks |->
         Todo(tasks[i], Renumbered(tasks[i].wave), Previous(i) \cup Earlier(i))]
MakePlan(items) == InWaves(Tasks(items))
=============================================================================

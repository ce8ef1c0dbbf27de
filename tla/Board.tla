------------------------------- MODULE Board -------------------------------
(***************************************************************************)
(* team/mb/src/mb/cli.py: the message board of a team of agents, a SQLite  *)
(* file with a log of messages, a read cursor per agent, projects, jobs    *)
(* and applications.  One action is one transaction of an `mb` command (or *)
(* one autocommit statement).  The commands that read in one transaction   *)
(* and act in a later one (inbox, job show --next, job close, project      *)
(* close) are in call[a] meanwhile; an agent runs one of these at a time,  *)
(* and any of the others at any time.                                      *)
(*                                                                         *)
(* Two variables are not in the board but on the agents' screens: `got`,   *)
(* the messages an agent was shown, and `told`, the engineers that were    *)
(* told that their job is over.                                            *)
(***************************************************************************)
EXTENDS Integers, Sequences, FiniteSets, FiniteSetsExt

CONSTANTS
  Project,    \* project ids; the id stands for its manager manager@<id>, too
  Job,        \* job ids
  Applicant,  \* the ids that `job apply` gives out, one per application; before it
              \* applies, the id stands for the engineer that is looking for a job
  None,
  Cmds,       \* the commands in use, besides posting, applying and hiring
  Readers,    \* bound: the agents that run inbox, ack and sub
  SayTo,      \* whom messages go to besides members of a channel: "all", "agent"
  TtlJobs,    \* jobs posted with --ttl
  CalmJoin,   \* TRUE: nobody joins a channel in the middle of its inbox
  MaxViews,   \* bound: how often a job is shown
  MaxSays,    \* bound: messages that agents write
  MaxLog      \* bound: messages on the board

Commands == {"say", "sub", "ack", "show", "list", "job close", "project close", "kill"}

ASSUME BoardAssumption ==
  /\ Project \cap Applicant = {}
  /\ IsFiniteSet(Job) /\ IsFiniteSet(Applicant)
  /\ None \notin Project \cup Applicant \cup Job
  /\ Cmds \subseteq Commands
  /\ Readers \subseteq Project \cup Applicant
  /\ SayTo \subseteq {"all", "agent"}
  /\ TtlJobs \subseteq Job
  /\ CalmJoin \in BOOLEAN
  /\ {MaxViews, MaxSays, MaxLog} \subseteq Nat

Agent == Project \cup Applicant

VARIABLES
  log,      \* table messages, in seq order
  project,  \* table projects: status and start_seq
  job,      \* table jobs: status, project, engineer, views; post: the posting order
  app,      \* table applications: status, job; seq: the length of the log then
  subs,     \* tables subscriptions and memberships: topics by agent
  cursor,   \* table cursors
  overdue,  \* jobs older than their ttl
  got, told,
  call      \* the command of several transactions an agent is in

board == <<project, job, app>>
mail == <<log, subs, cursor, got, told>>
vars == <<board, mail, overdue, call>>

-----------------------------------------------------------------------------
(* Messages                                                                *)

Lobby == <<"lobby">>
All == <<"all">>
AgentTopic(a) == <<"agent", a>>
JobTopic(j) == <<"job", j>>
ProjectTopic(p) == <<"project", p>>

\* A message, by what its first word says.
Msg(topic, from, kind) == [topic |-> topic, from |-> from, kind |-> kind]
System(topic, kind) == Msg(topic, "mb", kind)

Post(msgs) == Len(log) + Len(msgs) <= MaxLog /\ log' = log \o msgs

\* The topics an agent reads without a subscription.
Own(a) == {AgentTopic(a), All}

\* Managers of posted projects, and applicants.
Known == {p \in Project : project[p].status # "none"}
           \cup {a \in Applicant : app[a].status # "none"}

\* The rows of S in the order of a column in which no two of them are the same.
InOrder(S, order) ==
  CHOOSE list \in [1..Cardinality(S) -> S] :
    \A m, n \in 1..Cardinality(S) : m < n => order[list[m]] < order[list[n]]

Call(cmd, arg, topics) == [cmd |-> cmd, arg |-> arg, topics |-> topics]
Idle == Call("idle", None, {})
Goto(a, cmd, arg) == call' = [call EXCEPT ![a] = Call(cmd, arg, {})]
Begin(a, cmd, arg) == call[a] = Idle /\ Goto(a, cmd, arg)
End(a) == call' = [call EXCEPT ![a] = Idle]
MayJoin(a) == CalmJoin => call[a].cmd \notin {"topics", "inbox", "mark"}

Init ==
  /\ log = <<>>
  /\ project = [p \in Project |-> [status |-> "none", start |-> 0]]
  /\ job = [j \in Job |-> [status |-> "none", project |-> None, engineer |-> None,
                           post |-> 0, views |-> 0]]
  /\ app = [a \in Applicant |-> [status |-> "none", job |-> None, seq |-> 0]]
  /\ subs = [a \in Agent |-> {}]
  /\ cursor = [a \in Agent |-> 0]
  /\ overdue = {}
  /\ got = [a \in Agent |-> {}]
  /\ told = {}
  /\ call = [a \in Agent |-> Idle]

\* pub, say and job update: job and project channels are for their members, an
\* agent's topic and `all` for everybody.
MaySay(a) ==
  (subs[a] \ {Lobby})
    \cup (IF "all" \in SayTo THEN {All} ELSE {})
    \cup (IF "agent" \in SayTo THEN {AgentTopic(b) : b \in Known} ELSE {})

Says == Cardinality({n \in DOMAIN log : log[n].kind = "SAY"})

Say(a) ==
  /\ "say" \in Cmds
  /\ a \in Known
  /\ Says < MaxSays
  /\ \E t \in MaySay(a) : Post(<<Msg(t, a, "SAY")>>)
  /\ UNCHANGED <<board, subs, cursor, got, told, overdue, call>>

\* A topic of its own choice; a member has its job and project channels already.
Sub(a) ==
  /\ "sub" \in Cmds
  /\ a \in Readers \cap Known
  /\ subs' = [subs EXCEPT ![a] = @ \cup {Lobby}]
  /\ UNCHANGED <<board, log, cursor, got, told, overdue, call>>

\* ack: the agent says itself how far it has read.
Ack(a) ==
  /\ "ack" \in Cmds
  /\ a \in Readers \cap Known
  /\ \E n \in 0..Len(log) : /\ cursor' = [cursor EXCEPT ![a] = n]
                            /\ got' = [got EXCEPT ![a] = @ \cup 1..n]
  /\ UNCHANGED <<board, log, subs, told, overdue, call>>

\* _unread, three statements: the cursor, the subscriptions ...
InboxCursor(a) ==
  /\ a \in Readers \cap Known
  /\ Begin(a, "topics", cursor[a])
  /\ UNCHANGED <<board, mail, overdue>>

InboxTopics(a) ==
  /\ call[a].cmd = "topics"
  /\ call' = [call EXCEPT ![a] = Call("inbox", call[a].arg, Own(a) \cup subs[a])]
  /\ UNCHANGED <<board, mail, overdue>>

\* ... and the messages, which are printed.
Unread(a) ==
  {n \in DOMAIN log : /\ n > call[a].arg
                      /\ log[n].topic \in call[a].topics
                      /\ log[n].from # a}

\* Mutant: the cursor is to be the next message.
InboxRead_Next(a) ==
  /\ call[a].cmd = "inbox"
  /\ got' = [got EXCEPT ![a] = @ \cup Unread(a)]
  /\ Goto(a, "mark", 1 + Max({0} \cup Unread(a)))
  /\ UNCHANGED <<board, log, subs, cursor, told, overdue>>

InboxRead(a) ==
  /\ call[a].cmd = "inbox"
  /\ got' = [got EXCEPT ![a] = @ \cup Unread(a)]
  /\ Goto(a, "mark", Max({0} \cup Unread(a)))
  /\ UNCHANGED <<board, log, subs, cursor, told, overdue>>

\* Mutant: everything there is by now counts as read.
InboxMark_Newest(a) ==
  /\ call[a].cmd = "mark"
  /\ cursor' = [cursor EXCEPT ![a] = Len(log)]
  /\ End(a)
  /\ UNCHANGED <<board, log, subs, got, told, overdue>>
\* Mutant: no note when there is mail.
InboxMark_Silent(a) ==
  /\ call[a].cmd = "mark"
  /\ cursor' = IF call[a].arg = 0 THEN cursor ELSE [cursor EXCEPT ![a] = call[a].arg]
  /\ End(a)
  /\ UNCHANGED <<board, log, subs, got, told, overdue>>

\* The cursor moves to the last message that was read, if there was one, and the
\* call ends with _job_note.  inbox --peek does not move the cursor: that is Kill.
InboxMark(a) ==
  /\ call[a].cmd = "mark"
  /\ cursor' = IF call[a].arg = 0 THEN cursor ELSE [cursor EXCEPT ![a] = call[a].arg]
  /\ told' = told \cup {b \in {a} \cap Applicant : /\ app[b].status = "hired"
                                                   /\ job[app[b].job].status = "closed"}
  /\ End(a)
  /\ UNCHANGED <<board, log, subs, got, overdue>>

-----------------------------------------------------------------------------
(* Expiry, and the next job for an engineer                                *)

Pending(j) == {a \in Applicant : app[a].status = "pending" /\ app[a].job = j}

\* Time passes: a job posted with a ttl becomes too old.
Age(j) ==
  /\ j \in TtlJobs \ overdue
  /\ job[j].status = "open"
  /\ overdue' = overdue \cup {j}
  /\ UNCHANGED <<board, mail, call>>

\* _expire, the first statement of several transactions.
\* Mutant: whatever its status is.
TooOld_Any == overdue
TooOld == {j \in overdue : job[j].status = "open"}
ExpiredJobs == [j \in Job |-> IF j \in TooOld THEN [job[j] EXCEPT !.status = "expired"] ELSE job[j]]
ExpiredApps ==
  [a \in Applicant |-> IF app[a].status = "pending" /\ app[a].job \in TooOld
                       THEN [app[a] EXCEPT !.status = "rejected"]
                       ELSE app[a]]
ExpiryMsgs == [n \in 1..Cardinality(TooOld) |-> System(Lobby, "EXPIRED")]

\* job list, and job show of a given job.
JobList ==
  /\ "list" \in Cmds
  /\ TooOld # {}
  /\ job' = ExpiredJobs
  /\ app' = ExpiredApps
  /\ Post(ExpiryMsgs)
  /\ UNCHANGED <<project, subs, cursor, got, told, overdue, call>>

\* job show --next expires in a first transaction ...
ShowStart(a) ==
  /\ "show" \in Cmds
  /\ a \in Applicant \ Known
  /\ job' = ExpiredJobs
  /\ app' = ExpiredApps
  /\ Post(ExpiryMsgs)
  /\ Begin(a, "show", None)
  /\ UNCHANGED <<project, subs, cursor, got, told, overdue>>

\* _pick_open: the fewest views and pending applications, then the oldest.
Load(j) == job[j].views + Cardinality(Pending(j))
Before(j, k) == Load(j) < Load(k) \/ (Load(j) = Load(k) /\ job[j].post <= job[k].post)
OpenJobs == {j \in Job : job[j].status = "open"}
PickOpen == {j \in OpenJobs : \A k \in OpenJobs : Before(j, k)}

\* Mutant: the view is not recorded.
ShowPick_Unreserved(a) ==
  /\ call[a].cmd = "show"
  /\ \E j \in PickOpen : Goto(a, "reading", j)
  /\ UNCHANGED <<board, mail, overdue>>

\* ... and picks and reserves a job in a second one, tried again until there is a job.
\* The engineer then reads the job.
ShowPick(a) ==
  /\ call[a].cmd = "show"
  /\ \E j \in PickOpen :
       /\ job[j].views < MaxViews
       /\ job' = [job EXCEPT ![j].views = @ + 1]
       /\ Goto(a, "reading", j)
  /\ UNCHANGED <<project, app, mail, overdue>>

\* The wait is over, or the engineer has decided.
ShowEnd(a) ==
  /\ call[a].cmd \in {"show", "reading"}
  /\ End(a)
  /\ UNCHANGED <<board, mail, overdue>>

-----------------------------------------------------------------------------
(* Projects and jobs                                                       *)

ProjectPost(p) ==
  /\ project[p].status = "none"
  /\ project' = [project EXCEPT ![p] = [status |-> "active", start |-> Len(log)]]
  /\ subs' = [subs EXCEPT ![p] = @ \cup {ProjectTopic(p)}]
  /\ cursor' = [cursor EXCEPT ![p] = Len(log)]
  /\ Post(<<System(Lobby, "PROJECT")>>)
  /\ UNCHANGED <<job, app, got, told, overdue, call>>

Managed(p) == {j \in Job : job[j].project = p}
Active(j) == job[j].status \in {"open", "filled"}

\* project close looks for active jobs ...
ProjectCloseCheck(p) ==
  /\ "project close" \in Cmds
  /\ p \in Known
  /\ ~\E j \in Managed(p) : Active(j)
  /\ Begin(p, "project close", None)
  /\ UNCHANGED <<board, mail, overdue>>

\* ... and closes the project in a transaction of its own.
ProjectClose(p) ==
  /\ call[p].cmd = "project close"
  /\ project' = [project EXCEPT ![p].status = "closed"]
  /\ Post(<<System(ProjectTopic(p), "CLOSED"), System(Lobby, "CLOSED")>>)
  /\ End(p)
  /\ UNCHANGED <<job, app, subs, cursor, got, told, overdue>>

\* job post does not ask for the status of the project.
JobPost(p, j) ==
  /\ p \in Known
  /\ MayJoin(p)
  /\ job[j].status = "none"
  /\ job' = [ExpiredJobs EXCEPT ![j] = [status |-> "open", project |-> p, engineer |-> None,
                                        post |-> Len(log) + Len(ExpiryMsgs), views |-> 0]]
  /\ app' = ExpiredApps
  /\ subs' = [subs EXCEPT ![p] = @ \cup {JobTopic(j)}]
  /\ Post(ExpiryMsgs \o <<System(Lobby, "JOB")>>)
  /\ UNCHANGED <<project, cursor, got, told, overdue, call>>

\* Mutant: the applicant joins the channel of the job at once.
JobApply_Joins(a, j) ==
  /\ app[a].status = "none"
  /\ call[a].cmd \in {"idle", "reading"}
  /\ ExpiredJobs[j].status = "open"
  /\ LET seq == Len(log) + Len(ExpiryMsgs)
     IN  /\ app' = [ExpiredApps EXCEPT ![a] = [status |-> "pending", job |-> j, seq |-> seq]]
         /\ cursor' = [cursor EXCEPT ![a] = seq]
  /\ job' = ExpiredJobs
  /\ subs' = [subs EXCEPT ![a] = {JobTopic(j)}]
  /\ Post(ExpiryMsgs \o <<Msg(AgentTopic(job[j].project), a, "APPLY")>>)
  /\ End(a)
  /\ UNCHANGED <<project, got, told, overdue>>

\* An application for a job that is not open, or that expires in the same
\* transaction, is rolled back.
JobApply(a, j) ==
  /\ app[a].status = "none"
  /\ call[a].cmd \in {"idle", "reading"}
  /\ ExpiredJobs[j].status = "open"
  /\ LET seq == Len(log) + Len(ExpiryMsgs)
     IN  /\ app' = [ExpiredApps EXCEPT ![a] = [status |-> "pending", job |-> j, seq |-> seq]]
         /\ cursor' = [cursor EXCEPT ![a] = seq]
  /\ job' = ExpiredJobs
  /\ Post(ExpiryMsgs \o <<Msg(AgentTopic(job[j].project), a, "APPLY")>>)
  /\ End(a)
  /\ UNCHANGED <<project, subs, got, told, overdue>>

\* job hire: an applicant of choice (the first one of a job included), or the first
\* one of every open job.
Wanted(p) == {j \in Managed(p) : job[j].status = "open" /\ Pending(j) # {}}
FirstOf(j) == {a \in Pending(j) : \A b \in Pending(j) : app[a].seq <= app[b].seq}
Picks(p) ==
  {{a} : a \in UNION {Pending(j) : j \in Wanted(p)}}
    \cup {UNION {FirstOf(j) : j \in Wanted(p)}}

\* REJECTED for some applicants, in the order they applied.
Rejections(losers) ==
  LET turn == InOrder(losers, [a \in Applicant |-> app[a].seq])
  IN  [n \in 1..Cardinality(losers) |-> System(AgentTopic(turn[n]), "REJECTED")]

\* HIRED on its own and on the job's topic, and FILLED, for each winner.
Hirings(won) ==
  LET turn == InOrder(won, [a \in won |-> job[app[a].job].post])
      Sent(a) == <<System(Lobby, "FILLED"), System(AgentTopic(a), "HIRED"),
                   System(JobTopic(app[a].job), "HIRED")>>
  IN  [n \in 1..3 * Cardinality(won) |-> Sent(turn[((n + 2) \div 3)])[1 + (n % 3)]]

\* Mutant: the losers are not told.
HireMsgs_NoRejections(won, losers) == Hirings(won)

\* What _hire posts.  (With several jobs the code rejects the losers of a job just
\* before it hires for that job; it is one transaction, and no topic of an agent, a job
\* or a project can tell the difference.)
HireMsgs(won, losers) == Rejections(losers) \o Hirings(won)

\* Mutant: the losers keep waiting.
Decided_WinnersOnly(won, jobs) ==
  [a \in Applicant |-> IF a \in won THEN [app[a] EXCEPT !.status = "hired"] ELSE app[a]]
\* The applications of the losers and winners of some jobs.
Decided(won, jobs) ==
  [a \in Applicant |->
     IF a \in won THEN [app[a] EXCEPT !.status = "hired"]
     ELSE IF a \in UNION {Pending(j) : j \in jobs} THEN [app[a] EXCEPT !.status = "rejected"]
     ELSE app[a]]

\* An engineer starts reading at the start of the project.
JobHire(p) ==
  /\ Wanted(p) # {}
  /\ \E won \in Picks(p) :
       LET jobs == {app[a].job : a \in won}
       IN  /\ \A a \in won : MayJoin(a)
           /\ job' = [j \in Job |->
                        IF j \in jobs
                        THEN [job[j] EXCEPT !.status = "filled",
                                            !.engineer = CHOOSE a \in won : app[a].job = j]
                        ELSE job[j]]
           /\ app' = Decided(won, jobs)
           /\ subs' = [a \in Agent |->
                         IF a \in won THEN subs[a] \cup {JobTopic(app[a].job), ProjectTopic(p)}
                         ELSE subs[a]]
           /\ cursor' = [a \in Agent |-> IF a \in won THEN project[p].start ELSE cursor[a]]
           /\ Post(HireMsgs(won, (UNION {Pending(j) : j \in jobs}) \ won))
  /\ UNCHANGED <<project, got, told, overdue, call>>

\* job close picks the job, the given one or the only active one ...
JobCloseResolve(p, j) ==
  /\ "job close" \in Cmds
  /\ j \in Managed(p)
  /\ Begin(p, "job close", j)
  /\ UNCHANGED <<board, mail, overdue>>

\* ... and closes it whatever its status is by then.
JobClose(p) ==
  /\ call[p].cmd = "job close"
  /\ LET j == call[p].arg
     IN  /\ job' = [job EXCEPT ![j].status = "closed"]
         /\ app' = Decided({}, {j})
         /\ Post(Rejections(Pending(j))
                   \o <<System(JobTopic(j), "CLOSED"), System(Lobby, "CLOSED")>>)
  /\ End(p)
  /\ UNCHANGED <<project, subs, cursor, got, told, overdue>>

\* A process is killed between its transactions.
Kill(a) ==
  /\ "kill" \in Cmds
  /\ call[a] # Idle
  /\ End(a)
  /\ UNCHANGED <<board, mail, overdue>>

Inbox(a) == InboxCursor(a) \/ InboxTopics(a) \/ InboxRead(a) \/ InboxMark(a)

Next ==
  \/ \E a \in Agent : Say(a) \/ Sub(a) \/ Ack(a) \/ Inbox(a) \/ Kill(a)
  \/ \E j \in Job : Age(j)
  \/ JobList
  \/ \E a \in Applicant : ShowStart(a) \/ ShowPick(a) \/ ShowEnd(a)
  \/ \E a \in Applicant, j \in Job : JobApply(a, j)
  \/ \E p \in Project : \/ ProjectPost(p) \/ ProjectCloseCheck(p) \/ ProjectClose(p)
                        \/ JobHire(p) \/ JobClose(p)
  \/ \E p \in Project, j \in Job : JobPost(p, j) \/ JobCloseResolve(p, j)

Spec == Init /\ [][Next]_vars

\* Every agent keeps polling, as SKILL.md asks, and not every poll is killed.
Polling ==
  \A a \in Readers : /\ WF_vars(Inbox(a))
                     /\ SF_vars(InboxTopics(a)) /\ SF_vars(InboxRead(a)) /\ SF_vars(InboxMark(a))
FairSpec == Spec /\ Polling

-----------------------------------------------------------------------------
(* Properties                                                              *)

JobStatus == {"none", "open", "filled", "expired", "closed"}
AppStatus == {"none", "pending", "hired", "rejected"}
JobRow == [status : JobStatus, project : Project \cup {None},
           engineer : Applicant \cup {None}, post : Nat, views : Nat]
AppRow == [status : AppStatus, job : Job \cup {None}, seq : Nat]
Channel == {Lobby} \cup {JobTopic(j) : j \in Job} \cup {ProjectTopic(p) : p \in Project}

Rows ==
  /\ job \in [Job -> JobRow]
  /\ app \in [Applicant -> AppRow]
  /\ subs \in [Agent -> SUBSET Channel]
  /\ overdue \subseteq Job
  /\ DOMAIN call = Agent

\* The types of the variables; cursors and screens never run ahead of the log.
TypeOK ==
  /\ Rows
  /\ \A n \in DOMAIN log : log[n].kind \in {"SAY", "APPLY", "HIRED", "REJECTED", "CLOSED",
                                            "EXPIRED", "PROJECT", "JOB", "FILLED"}
  /\ project \in [Project -> [status : {"none", "active", "closed"}, start : Nat]]
  /\ told \subseteq Applicant
  /\ \A a \in Agent : /\ cursor[a] \in 0..Len(log)
                      /\ got[a] \subseteq DOMAIN log

\* A job is filled, or was filled before it was closed, by exactly one engineer: the
\* one whose application is hired.
OneEngineer ==
  /\ \A j \in Job : job[j].status = "filled" => job[j].engineer # None
  /\ \A j \in Job : job[j].engineer # None =>
       LET e == job[j].engineer
       IN  e \in Applicant /\ app[e].status = "hired" /\ app[e].job = j
             /\ job[j].status \in {"filled", "closed"}
  /\ \A a \in Applicant : app[a].status = "hired" =>
       app[a].job \in Job /\ job[app[a].job].engineer = a

\* Nobody waits for an answer from a job that can no longer hire: whatever ends an
\* open job (job hire, job close, _expire) decides about every application.
NobodyLeftWaiting ==
  \A a \in Applicant : app[a].status = "pending" =>
    app[a].job \in Job /\ job[app[a].job].status = "open"

Hiring == OneEngineer /\ NobodyLeftWaiting

\* The channel of a job is for its manager and its engineer, that of a project for the
\* manager and the engineers of all its jobs.
Member(a, topic) ==
  /\ \A j \in Job : topic = JobTopic(j) =>
       job[j].status # "none" /\ a \in {job[j].project, job[j].engineer}
  /\ \A p \in Project : topic = ProjectTopic(p) =>
       a = p \/ \E j \in Managed(p) : job[j].engineer = a

\* "job and project channels are private" (cli.py:311, where an agent publishes): nobody
\* else is subscribed to one, and every message in one is a member's or the board's own.
\* This is not about reading: `mb tail` prints any topic to anybody.
Subscribed == \A a \in Agent : \A topic \in subs[a] : Member(a, topic)
ByMember(msg) == msg.from = "mb" \/ Member(msg.from, msg.topic)
ChannelsOfMembers == Subscribed /\ \A n \in DOMAIN log : ByMember(log[n])

\* A job has a project as soon as it is posted, and only then.
PostedJobs ==
  \A j \in Job : job[j].status = "none" <=> job[j].project = None

\* Applications are in the order of the messages they posted; _hire asks for the first.
AppOrder ==
  /\ \A a \in Applicant : app[a].status # "none" => app[a].seq < Len(log)
  /\ \A a, b \in Applicant :
       app[a].status # "none" /\ app[b].status # "none" /\ app[a].seq = app[b].seq => a = b

\* job close is about to close a job that was posted.
Closing ==
  \A a \in Agent :
    call[a].cmd = "job close" => call[a].arg \in Job /\ job[call[a].arg].status # "none"

\* The inductive invariant: one engineer per job because the applications of a job are
\* ordered and its losers are decided in the same transaction; channels of members
\* because a job keeps its project and its engineer.
IInv ==
  /\ Rows
  /\ PostedJobs
  /\ AppOrder
  /\ Closing
  /\ OneEngineer
  /\ NobodyLeftWaiting
  /\ Subscribed

\* What a job and an application may go through: a closed or expired job never opens
\* again, an engineer is not replaced, an answer to an application is final.
Life(from) ==
  CASE from = "none" -> {"none", "open"}
    [] from = "open" -> {"open", "filled", "expired", "closed"}
    [] from = "filled" -> {"filled", "closed"}
    [] from = "expired" -> {"expired", "closed"}
    [] from = "closed" -> {"closed"}
NoWayBack ==
  [][/\ \A j \in Job : /\ job'[j].status \in Life(job[j].status)
                       /\ job[j].engineer # None => job'[j].engineer = job[j].engineer
     /\ \A a \in Applicant : app[a].status \in {"hired", "rejected"} => app'[a] = app[a]]_vars

\* SKILL.md step 3: an applicant polls for HIRED or REJECTED.  Who was decided about
\* was sent one of them, the right one, once; nobody else was.
Outcomes(a) ==
  {n \in DOMAIN log : log[n].topic = AgentTopic(a) /\ log[n].kind \in {"HIRED", "REJECTED"}}
ToldOutcome ==
  \A a \in Applicant :
    IF app[a].status \in {"hired", "rejected"}
    THEN \E n \in Outcomes(a) :
           /\ Outcomes(a) = {n}
           /\ log[n].kind = IF app[a].status = "hired" THEN "HIRED" ELSE "REJECTED"
    ELSE Outcomes(a) = {}

\* The mail of an agent: its own topics and the channels it is a member of, since it
\* applied or, for the members of a project, since the project was posted.
Since(a) ==
  IF a \in Project THEN project[a].start
  ELSE IF app[a].status = "hired" THEN project[job[app[a].job].project].start
  ELSE app[a].seq
Mail(a) ==
  {n \in DOMAIN log : n > Since(a) /\ log[n].topic \in Own(a) \cup (subs[a] \ {Lobby})
                         /\ log[n].from # a}

\* README.md, "`mb inbox`: Read unread mail": a message below the cursor of a reader
\* was shown to it, whatever is killed between the printing and the cursor.
NothingSkipped ==
  \A a \in Known : \A n \in Mail(a) : n <= cursor[a] => n \in got[a]

\* An applicant that was decided about is shown the decision, even when it is hired
\* in the middle of its inbox.
DecisionShown ==
  \A a \in Applicant \cap Readers :
    (app[a].status \in {"hired", "rejected"}) ~> (got[a] \cap Outcomes(a) # {})

\* The engineer of a job that was closed learns that it may stop, even when its cursor
\* has skipped the CLOSED message.
EngineerStops ==
  \A a \in Applicant \cap Readers :
    (app[a].status = "hired" /\ job[app[a].job].status = "closed") ~> (a \in told)

\* cli.py:548, "so engineers that look at the same moment are shown different jobs":
\* nobody is shown a job that somebody is reading while nobody has seen or wants another
\* open job.
\* (Views are never taken back, so a job everybody has given up counts as shown.)
ReadBy(j) == {a \in Applicant : call[a].cmd = "reading" /\ call[a].arg = j}
FreshJobsFirst ==
  [][\A a \in Applicant :
       ShowPick(a) /\ ReadBy(call'[a].arg) # {} => \A j \in OpenJobs : Load(j) > 0]_vars
=============================================================================

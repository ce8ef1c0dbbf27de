---------------------------- MODULE BoardProofs ----------------------------
(* Theorems about Board, for any number of projects, jobs and applicants. *)
EXTENDS Board, TLAPS, FiniteSetTheorems, SequenceTheorems

\* What the messages are does not matter here, but they are a sequence.
IsLog(s) == \E S : s \in Seq(S)

LEMMA JobFields ==
  ASSUME NEW r \in JobRow
  PROVE  /\ r.status \in JobStatus /\ r.project \in Project \cup {None}
         /\ r.engineer \in Applicant \cup {None} /\ r.post \in Nat /\ r.views \in Nat
BY DEF JobRow

LEMMA WithStatus ==
  ASSUME NEW r \in JobRow, NEW s \in JobStatus
  PROVE  /\ [r EXCEPT !.status = s] \in JobRow
         /\ [r EXCEPT !.status = s].status = s
         /\ [r EXCEPT !.status = s].project = r.project
         /\ [r EXCEPT !.status = s].engineer = r.engineer
BY DEF JobRow

LEMMA WithViews ==
  ASSUME NEW r \in JobRow, NEW n \in Nat
  PROVE  /\ [r EXCEPT !.views = n] \in JobRow
         /\ [r EXCEPT !.views = n].status = r.status
         /\ [r EXCEPT !.views = n].project = r.project
         /\ [r EXCEPT !.views = n].engineer = r.engineer
BY DEF JobRow

LEMMA AppFields ==
  ASSUME NEW r \in AppRow
  PROVE  /\ r.status \in AppStatus /\ r.job \in Job \cup {None} /\ r.seq \in Nat
         /\ \A s \in AppStatus :
              /\ [r EXCEPT !.status = s] \in AppRow
              /\ [r EXCEPT !.status = s].status = s
              /\ [r EXCEPT !.status = s].job = r.job
              /\ [r EXCEPT !.status = s].seq = r.seq
BY DEF AppRow

LEMMA FcnIsLog ==
  ASSUME NEW n \in Nat, NEW f, f = [i \in 1..n |-> f[i]]
  PROVE  IsLog(f) /\ Len(f) = n
<1>1. f \in [1..n -> {f[i] : i \in 1..n}]
  OBVIOUS
<1>2. f \in Seq({f[i] : i \in 1..n}) /\ Len(f) = n
  BY <1>1, SeqDef, LenProperties
<1> QED
  BY <1>2 DEF IsLog

LEMMA Concat ==
  ASSUME NEW s, NEW t, IsLog(s), IsLog(t)
  PROVE  /\ IsLog(s \o t)
         /\ Len(s) \in Nat /\ Len(t) \in Nat /\ Len(s \o t) = Len(s) + Len(t)
<1>1. PICK S : s \in Seq(S)
  BY DEF IsLog
<1>2. PICK T : t \in Seq(T)
  BY DEF IsLog
<1>3. s \in Seq(S \cup T) /\ t \in Seq(S \cup T)
  BY <1>1, <1>2, SeqDef
<1> QED
  BY <1>3, ConcatProperties, LenProperties DEF IsLog

LEMMA ListIsLog ==
  ASSUME NEW a, NEW b, NEW c
  PROVE  /\ IsLog(<<a>>) /\ Len(<<a>>) = 1
         /\ IsLog(<<a, b>>) /\ Len(<<a, b>>) = 2
         /\ IsLog(<< >>) /\ Len(<< >>) = 0
<1>1. <<a>> \in Seq({a}) /\ <<a, b>> \in Seq({a, b}) /\ << >> \in Seq({a})
  OBVIOUS
<1> QED
  BY <1>1 DEF IsLog

\* What expiry, rejections and hires post are sequences.
LEMMA Finite ==
  /\ \A S \in SUBSET Job : Cardinality(S) \in Nat
  /\ \A S \in SUBSET Applicant : Cardinality(S) \in Nat
BY FS_Subset, FS_CardinalityType, BoardAssumption DEF BoardAssumption

LEMMA ExpiryIsLog ==
  ASSUME Rows
  PROVE  IsLog(ExpiryMsgs) /\ Len(ExpiryMsgs) \in Nat
<1>1. Cardinality(TooOld) \in Nat
  <2>1. TooOld \in SUBSET Job
    BY DEF TooOld, Rows
  <2> QED
    BY <2>1, Finite
<1>2. ExpiryMsgs = [n \in 1..Cardinality(TooOld) |-> ExpiryMsgs[n]]
  BY <1>1 DEF ExpiryMsgs
<1> QED
  BY <1>1, <1>2, FcnIsLog

LEMMA RejectionsIsLog ==
  ASSUME NEW losers \in SUBSET Applicant
  PROVE  IsLog(Rejections(losers)) /\ Len(Rejections(losers)) \in Nat
<1>1. Cardinality(losers) \in Nat
  BY Finite
<1>2. Rejections(losers) = [n \in 1..Cardinality(losers) |-> Rejections(losers)[n]]
  BY <1>1 DEF Rejections
<1> QED
  BY <1>1, <1>2, FcnIsLog

LEMMA HiringsIsLog ==
  ASSUME NEW won \in SUBSET Applicant
  PROVE  IsLog(Hirings(won)) /\ Len(Hirings(won)) \in Nat
<1>1. 3 * Cardinality(won) \in Nat
  <2>1. Cardinality(won) \in Nat
    BY Finite
  <2> QED
    BY <2>1
<1>2. Hirings(won) = [n \in 1..3 * Cardinality(won) |-> Hirings(won)[n]]
  BY <1>1 DEF Hirings
<1> QED
  BY <1>1, <1>2, FcnIsLog

LEMMA HireIsLog ==
  ASSUME NEW won \in SUBSET Applicant, NEW losers \in SUBSET Applicant
  PROVE  IsLog(HireMsgs(won, losers))
BY RejectionsIsLog, HiringsIsLog, Concat DEF HireMsgs

\* The log only grows.
LEMMA PostGrows ==
  ASSUME NEW msgs, IsLog(msgs), IsLog(log), Post(msgs)
  PROVE  IsLog(log') /\ Len(log) \in Nat /\ Len(log') = Len(log) + Len(msgs)
BY Concat DEF Post

-----------------------------------------------------------------------------
(* What a step does to jobs and applications                               *)

Quiet ==
  /\ UNCHANGED <<job, app>>
  /\ \/ UNCHANGED subs
     \/ \E a \in Agent : subs' = [subs EXCEPT ![a] = @ \cup {Lobby}]
     \/ \E p \in Project : subs' = [subs EXCEPT ![p] = @ \cup {ProjectTopic(p)}]
Expiry == job' = ExpiredJobs /\ app' = ExpiredApps /\ UNCHANGED subs
Viewed(j) == job' = [job EXCEPT ![j].views = @ + 1] /\ UNCHANGED <<app, subs>>

LEMMA Cases ==
  ASSUME [Next]_vars
  PROVE  \/ Quiet
         \/ Expiry
         \/ \E j \in Job : Viewed(j)
         \/ \E p \in Project, j \in Job : JobPost(p, j)
         \/ \E a \in Applicant, j \in Job : JobApply(a, j)
         \/ \E p \in Project : JobHire(p)
         \/ \E p \in Project : JobClose(p)
<1> USE DEF Quiet, board, mail
<1>1. CASE UNCHANGED vars
  BY <1>1 DEF vars
<1>2. ASSUME NEW a \in Agent, Say(a) \/ Sub(a) \/ Ack(a) \/ Inbox(a) \/ Kill(a)
      PROVE  Quiet
  BY <1>2 DEF Say, Sub, Ack, Inbox, InboxCursor, InboxTopics, InboxRead, InboxMark, Kill
<1>3. ASSUME NEW j \in Job, Age(j) PROVE Quiet
  BY <1>3 DEF Age
<1>4. CASE JobList
  BY <1>4 DEF JobList, Expiry
<1>5. ASSUME NEW a \in Applicant, ShowStart(a) PROVE Expiry
  BY <1>5 DEF ShowStart, Expiry
<1>6. ASSUME NEW a \in Applicant, ShowPick(a) PROVE \E j \in Job : Viewed(j)
  BY <1>6 DEF ShowPick, Viewed, PickOpen, OpenJobs
<1>7. ASSUME NEW a \in Applicant, ShowEnd(a) PROVE Quiet
  BY <1>7 DEF ShowEnd
<1>8. ASSUME NEW p \in Project, ProjectPost(p) \/ ProjectCloseCheck(p) \/ ProjectClose(p)
      PROVE  Quiet
  BY <1>8 DEF ProjectPost, ProjectCloseCheck, ProjectClose
<1>9. ASSUME NEW p \in Project, NEW j \in Job, JobCloseResolve(p, j) PROVE Quiet
  BY <1>9 DEF JobCloseResolve
<1> QED
  BY <1>1, <1>2, <1>3, <1>4, <1>5, <1>6, <1>7, <1>8, <1>9 DEF Next

\* The winners of a hire have pending applications for open jobs of the manager, one
\* winner for each job.
LEMMA Winners ==
  ASSUME IInv, NEW p \in Project, NEW won \in Picks(p)
  PROVE  /\ won \subseteq Applicant
         /\ \A a \in won : /\ app[a].status = "pending"
                            /\ app[a].job \in Job
                            /\ job[app[a].job].status = "open"
                            /\ job[app[a].job].project = p
         /\ \A a, b \in won : app[a].job = app[b].job => a = b
<1> USE DEF Wanted, Pending, Managed
<1>1. CASE \E a \in UNION {Pending(j) : j \in Wanted(p)} : won = {a}
  BY <1>1
<1>2. CASE won = UNION {FirstOf(j) : j \in Wanted(p)}
  <2>1. ASSUME NEW a \in won
        PROVE  \E j \in Wanted(p) : a \in FirstOf(j)
    BY <1>2
  <2>2. ASSUME NEW a \in won, NEW b \in won, app[a].job = app[b].job
        PROVE  a = b
    <3>1. PICK j \in Wanted(p) : a \in FirstOf(j)
      BY <2>1, <2>2
    <3>2. PICK k \in Wanted(p) : b \in FirstOf(k)
      BY <2>1, <2>2
    <3>3. a \in Pending(j) /\ b \in Pending(k) /\ j = k
      BY <3>1, <3>2, <2>2 DEF FirstOf
    <3>4. app[a].seq <= app[b].seq /\ app[b].seq <= app[a].seq
      BY <3>1, <3>2, <3>3 DEF FirstOf
    <3>5. app[a].seq \in Nat /\ app[b].seq \in Nat
      BY <3>3 DEF IInv, Rows, AppRow
    <3> QED
      BY <3>3, <3>4, <3>5 DEF IInv, AppOrder
  <2> QED
    BY <2>1, <2>2 DEF FirstOf
<1> QED
  BY <1>1, <1>2 DEF Picks

\* What a hire does to the rows.
HireEffect(p, won, jobs) ==
  /\ \A a \in won : /\ app[a].status = "pending" /\ app[a].job \in jobs
                    /\ app'[a] = [app[a] EXCEPT !.status = "hired"]
  /\ \A a \in Applicant \ won :
       app'[a] = IF app[a].status = "pending" /\ app[a].job \in jobs
                 THEN [app[a] EXCEPT !.status = "rejected"] ELSE app[a]
  /\ \A j \in jobs :
       /\ job[j].status = "open" /\ job[j].project = p
       /\ \E e \in won : /\ app[e].job = j
                         /\ \A a \in won : app[a].job = j => a = e
                         /\ job'[j] = [job[j] EXCEPT !.status = "filled", !.engineer = e]
  /\ \A j \in Job \ jobs : job'[j] = job[j]
  /\ \A a \in won : subs'[a] = subs[a] \cup {JobTopic(app[a].job), ProjectTopic(p)}
  /\ \A a \in Agent \ won : subs'[a] = subs[a]
  /\ app' = [a \in Applicant |-> app'[a]]
  /\ job' = [j \in Job |-> job'[j]]
  /\ subs' = [a \in Agent |-> subs'[a]]

\* What it does besides, to the winners and to the log.
HireMail(p, won, jobs) ==
  /\ \A a, b \in won : app[a].job = app[b].job => a = b
  /\ \A a \in won : MayJoin(a)
  /\ Post(HireMsgs(won, (UNION {Pending(j) : j \in jobs}) \ won))
  /\ cursor' = [a \in Agent |-> IF a \in won THEN project[p].start ELSE cursor[a]]

LEMMA HireRows ==
  ASSUME IInv, NEW p \in Project, JobHire(p)
  PROVE  \E won \in SUBSET Applicant, jobs \in SUBSET Job :
           HireEffect(p, won, jobs) /\ HireMail(p, won, jobs)
<1>1. PICK won \in Picks(p) :
        LET jobs == {app[a].job : a \in won}
        IN  /\ \A a \in won : MayJoin(a)
            /\ Post(HireMsgs(won, (UNION {Pending(j) : j \in jobs}) \ won))
            /\ cursor' = [a \in Agent |-> IF a \in won THEN project[p].start ELSE cursor[a]]
            /\ job' = [j \in Job |->
                        IF j \in jobs
                        THEN [job[j] EXCEPT !.status = "filled",
                                            !.engineer = CHOOSE a \in won : app[a].job = j]
                        ELSE job[j]]
            /\ app' = Decided(won, jobs)
            /\ subs' = [a \in Agent |->
                         IF a \in won THEN subs[a] \cup {JobTopic(app[a].job), ProjectTopic(p)}
                         ELSE subs[a]]
  BY DEF JobHire
<1> DEFINE jobs == {app[a].job : a \in won}
<1>2. /\ won \subseteq Applicant
      /\ \A a \in won : /\ app[a].status = "pending"
                         /\ app[a].job \in Job
                         /\ job[app[a].job].status = "open"
                         /\ job[app[a].job].project = p
      /\ \A a, b \in won : app[a].job = app[b].job => a = b
  BY Winners
<1>3. jobs \in SUBSET Job
  BY <1>2
<1>4. ASSUME NEW a \in won
      PROVE  /\ app[a].status = "pending" /\ app[a].job \in jobs
             /\ app'[a] = [app[a] EXCEPT !.status = "hired"]
  BY <1>1, <1>2 DEF Decided
<1>5. ASSUME NEW a \in Applicant \ won
      PROVE  app'[a] = IF app[a].status = "pending" /\ app[a].job \in jobs
                       THEN [app[a] EXCEPT !.status = "rejected"] ELSE app[a]
  <2>1. a \in UNION {Pending(j) : j \in jobs} <=> app[a].status = "pending" /\ app[a].job \in jobs
    BY DEF Pending
  <2>2. app'[a] = IF a \in UNION {Pending(j) : j \in jobs}
                  THEN [app[a] EXCEPT !.status = "rejected"] ELSE app[a]
    BY <1>1 DEF Decided
  <2> QED
    BY <2>1, <2>2
<1>6. ASSUME NEW j \in jobs
      PROVE  /\ job[j].status = "open" /\ job[j].project = p
             /\ \E e \in won : /\ app[e].job = j
                               /\ \A a \in won : app[a].job = j => a = e
                               /\ job'[j] = [job[j] EXCEPT !.status = "filled", !.engineer = e]
  <2>1. PICK e \in won : app[e].job = j
    OBVIOUS
  <2>2. (CHOOSE a \in won : app[a].job = j) = e
    BY <2>1, <1>2
  <2> QED
    BY <2>1, <2>2, <1>1, <1>2
<1>7. /\ \A j \in Job \ jobs : job'[j] = job[j]
      /\ \A a \in won : subs'[a] = subs[a] \cup {JobTopic(app[a].job), ProjectTopic(p)}
      /\ \A a \in Agent \ won : subs'[a] = subs[a]
  BY <1>1, <1>2 DEF Agent
<1>8. /\ app' = [a \in Applicant |-> app'[a]]
      /\ job' = [j \in Job |-> job'[j]]
      /\ subs' = [a \in Agent |-> subs'[a]]
  BY <1>1 DEF Decided
<1>9. HireMail(p, won, jobs)
  BY <1>1, <1>2, Zenon DEF HireMail
<1> HIDE DEF jobs
<1>10. HireEffect(p, won, jobs)
  BY <1>4, <1>5, <1>6, <1>7, <1>8 DEF HireEffect
<1>11. won \in SUBSET Applicant
  BY <1>2
<1> QED
  BY <1>3, <1>9, <1>10, <1>11

\* The log stays a sequence and never gets shorter.
LEMMA LogStep ==
  ASSUME IInv, IsLog(log), [Next]_vars
  PROVE  IsLog(log') /\ Len(log) \in Nat /\ Len(log') \in Nat /\ Len(log) <= Len(log')
<1>1. ASSUME NEW msgs, IsLog(msgs), Post(msgs)
      PROVE  IsLog(log') /\ Len(log) \in Nat /\ Len(log') \in Nat /\ Len(log) <= Len(log')
  BY <1>1, PostGrows, Concat
<1>2. Len(log) \in Nat
  BY Concat
<1>3. IsLog(ExpiryMsgs)
  BY ExpiryIsLog DEF IInv
<1> USE DEF mail
<1>4. CASE UNCHANGED log
  BY <1>2, <1>4
<1>5. ASSUME NEW a \in Agent, Say(a) \/ Sub(a) \/ Ack(a) \/ Inbox(a) \/ Kill(a)
      PROVE  UNCHANGED log \/ \E msgs : IsLog(msgs) /\ Post(msgs)
  BY <1>5, ListIsLog
     DEF Say, Sub, Ack, Inbox, InboxCursor, InboxTopics, InboxRead, InboxMark, Kill
<1>6. CASE JobList
  BY <1>1, <1>3, <1>6 DEF JobList
<1>7. ASSUME NEW a \in Applicant, ShowStart(a) \/ ShowPick(a) \/ ShowEnd(a)
      PROVE  UNCHANGED log \/ \E msgs : IsLog(msgs) /\ Post(msgs)
  BY <1>3, <1>7 DEF ShowStart, ShowPick, ShowEnd
<1>8. ASSUME NEW p \in Project, ProjectPost(p) \/ ProjectCloseCheck(p) \/ ProjectClose(p)
      PROVE  UNCHANGED log \/ \E msgs : IsLog(msgs) /\ Post(msgs)
  BY <1>8, ListIsLog DEF ProjectPost, ProjectCloseCheck, ProjectClose
<1>9. ASSUME NEW p \in Project, NEW j \in Job, JobPost(p, j)
      PROVE  \E msgs : IsLog(msgs) /\ Post(msgs)
  BY <1>3, <1>9, ListIsLog, Concat DEF JobPost
<1>10. ASSUME NEW a \in Applicant, NEW j \in Job, JobApply(a, j)
       PROVE  \E msgs : IsLog(msgs) /\ Post(msgs)
  BY <1>3, <1>10, ListIsLog, Concat DEF JobApply
<1>11. ASSUME NEW p \in Project, JobHire(p)
       PROVE  \E msgs : IsLog(msgs) /\ Post(msgs)
  <2>1. PICK won \in Picks(p) :
          Post(HireMsgs(won, (UNION {Pending(j) : j \in {app[a].job : a \in won}}) \ won))
    BY <1>11 DEF JobHire
  <2>2. won \in SUBSET Applicant
    BY Winners
  <2>3. (UNION {Pending(j) : j \in {app[a].job : a \in won}}) \ won \in SUBSET Applicant
    BY DEF Pending
  <2> QED
    BY <2>1, <2>2, <2>3, HireIsLog
<1>12. ASSUME NEW p \in Project, JobClose(p)
       PROVE  \E msgs : IsLog(msgs) /\ Post(msgs)
  <2>1. Pending(call[p].arg) \in SUBSET Applicant
    BY DEF Pending
  <2> QED
    BY <1>12, <2>1, RejectionsIsLog, ListIsLog, Concat DEF JobClose
<1>13. ASSUME NEW p \in Project, NEW j \in Job, JobCloseResolve(p, j)
       PROVE  UNCHANGED log
  BY <1>13 DEF JobCloseResolve
<1>14. ASSUME NEW j \in Job, Age(j) PROVE UNCHANGED log
  BY <1>14 DEF Age
<1> QED
  BY <1>1, <1>4, <1>5, <1>6, <1>7, <1>8, <1>9, <1>10, <1>11, <1>12, <1>13, <1>14 DEF Next, vars

LEMMA Topics ==
  /\ \A j, k : /\ JobTopic(j) = JobTopic(k) => j = k
               /\ ProjectTopic(j) = ProjectTopic(k) => j = k
               /\ JobTopic(j) # ProjectTopic(k)
  /\ \A j : JobTopic(j) # Lobby /\ ProjectTopic(j) # Lobby
  /\ \A j \in Job : JobTopic(j) \in Channel
  /\ \A p \in Project : ProjectTopic(p) \in Channel
  /\ Lobby \in Channel
BY DEF JobTopic, ProjectTopic, Lobby, Channel

-----------------------------------------------------------------------------
(* The types of the rows                                                   *)

LEMMA ExpiryRows ==
  ASSUME Rows
  PROVE  /\ ExpiredJobs \in [Job -> JobRow]
         /\ \A j \in Job :
              /\ ExpiredJobs[j].status = IF j \in TooOld THEN "expired" ELSE job[j].status
              /\ ExpiredJobs[j].project = job[j].project
              /\ ExpiredJobs[j].engineer = job[j].engineer
         /\ ExpiredApps \in [Applicant -> AppRow]
         /\ \A a \in Applicant :
              /\ ~(app[a].status = "pending" /\ app[a].job \in TooOld) => ExpiredApps[a] = app[a]
              /\ app[a].status = "pending" /\ app[a].job \in TooOld
                   => ExpiredApps[a].status = "rejected"
              /\ ExpiredApps[a].job = app[a].job
              /\ ExpiredApps[a].seq = app[a].seq
<1>1. \A j \in Job : job[j] \in JobRow
  BY DEF Rows
<1>2. \A a \in Applicant : app[a] \in AppRow
  BY DEF Rows
<1>3. "expired" \in JobStatus /\ "rejected" \in AppStatus
  BY DEF JobStatus, AppStatus
<1>4. ASSUME NEW j \in Job
      PROVE  /\ ExpiredJobs[j] \in JobRow
             /\ ExpiredJobs[j].status = IF j \in TooOld THEN "expired" ELSE job[j].status
             /\ ExpiredJobs[j].project = job[j].project
             /\ ExpiredJobs[j].engineer = job[j].engineer
  <2>1. CASE j \in TooOld
    <3>1. ExpiredJobs[j] = [job[j] EXCEPT !.status = "expired"]
      BY <2>1 DEF ExpiredJobs
    <3>2. /\ [job[j] EXCEPT !.status = "expired"] \in JobRow
          /\ [job[j] EXCEPT !.status = "expired"].status = "expired"
          /\ [job[j] EXCEPT !.status = "expired"].project = job[j].project
          /\ [job[j] EXCEPT !.status = "expired"].engineer = job[j].engineer
      BY <1>1, <1>3, WithStatus
    <3> QED
      BY <2>1, <3>1, <3>2
  <2>2. CASE j \notin TooOld
    BY <1>1, <2>2 DEF ExpiredJobs
  <2> QED
    BY <2>1, <2>2
<1>5. ASSUME NEW a \in Applicant
      PROVE  /\ ExpiredApps[a] \in AppRow
             /\ ~(app[a].status = "pending" /\ app[a].job \in TooOld) => ExpiredApps[a] = app[a]
             /\ app[a].status = "pending" /\ app[a].job \in TooOld
                   => ExpiredApps[a].status = "rejected"
             /\ ExpiredApps[a].job = app[a].job
             /\ ExpiredApps[a].seq = app[a].seq
  BY <1>2, <1>3, AppFields DEF ExpiredApps
<1> QED
  BY <1>4, <1>5 DEF ExpiredJobs, ExpiredApps

\* What job close does to the rows.
LEMMA CloseRows ==
  ASSUME IInv, NEW p \in Project, JobClose(p)
  PROVE  \E j \in Job :
           /\ job[j].status # "none"
           /\ job' = [job EXCEPT ![j].status = "closed"]
           /\ app' = [a \in Applicant |-> app'[a]]
           /\ \A a \in Applicant :
                app'[a] = IF app[a].status = "pending" /\ app[a].job = j
                          THEN [app[a] EXCEPT !.status = "rejected"] ELSE app[a]
           /\ UNCHANGED subs
           /\ Post(Rejections(Pending(j))
                     \o <<System(JobTopic(j), "CLOSED"), System(Lobby, "CLOSED")>>)
<1> DEFINE j == call[p].arg
<1>1. j \in Job /\ job[j].status # "none"
  BY DEF JobClose, IInv, Closing, Agent
<1>2. UNION {Pending(k) : k \in {j}} = {a \in Applicant : app[a].status = "pending" /\ app[a].job = j}
  BY DEF Pending
<1>3. /\ app' = Decided({}, {j}) /\ job' = [job EXCEPT ![j].status = "closed"] /\ UNCHANGED subs
      /\ Post(Rejections(Pending(j))
                \o <<System(JobTopic(j), "CLOSED"), System(Lobby, "CLOSED")>>)
  BY DEF JobClose
<1> HIDE DEF j
<1>4. ASSUME NEW a \in Applicant
      PROVE  app'[a] = IF app[a].status = "pending" /\ app[a].job = j
                       THEN [app[a] EXCEPT !.status = "rejected"] ELSE app[a]
  BY <1>2, <1>3 DEF Decided
<1>5. app' = [a \in Applicant |-> app'[a]]
  BY <1>3 DEF Decided
<1> QED
  BY <1>1, <1>3, <1>4, <1>5

\* Every step leads jobs through their life, and they keep their project and engineer.
JobGoesOn(j) ==
  /\ job'[j].status \in Life(job[j].status)
  /\ job[j].status # "none" => job'[j].project = job[j].project
  /\ job'[j].status = "none" <=> job'[j].project = None
  /\ job[j].engineer # None => job'[j].engineer = job[j].engineer

LEMMA LifeStays ==
  ASSUME NEW s \in JobStatus
  PROVE  /\ s \in Life(s)
         /\ s = "open" => {"filled", "expired", "closed"} \subseteq Life(s)
         /\ s # "none" => "closed" \in Life(s)
         /\ s = "none" => "open" \in Life(s)
         /\ s # "none" => "none" \notin Life(s)
BY DEF JobStatus, Life

LEMMA JobStep ==
  ASSUME IInv, IsLog(log), [Next]_vars
  PROVE  job' \in [Job -> JobRow] /\ \A j \in Job : JobGoesOn(j)
<1>1. ASSUME NEW j \in Job
      PROVE  /\ job[j] \in JobRow
             /\ job[j].status \in JobStatus
             /\ job[j].status = "none" <=> job[j].project = None
             /\ job[j].status = "open" => job[j].engineer = None
             /\ job[j].status = "none" => job[j].engineer = None
  <2>1. job[j] \in JobRow
    BY DEF IInv, Rows
  <2>2. job[j].engineer # None => job[j].status \in {"filled", "closed"}
    BY DEF IInv, OneEngineer
  <2> QED
    BY <2>1, <2>2, JobFields DEF IInv, PostedJobs
<1>2. job \in [Job -> JobRow]
  BY DEF IInv, Rows
<1>3. {"open", "filled", "expired", "closed"} \subseteq JobStatus
  BY DEF JobStatus
<1>4. ASSUME NEW j \in Job, job'[j] = job[j]
      PROVE  JobGoesOn(j)
  BY <1>1, <1>4, LifeStays DEF JobGoesOn
<1>5. ASSUME NEW j \in Job
      PROVE  /\ ExpiredJobs[j].status \in Life(job[j].status)
             /\ ExpiredJobs[j].status = "none" <=> job[j].status = "none"
  <2>1. CASE j \in TooOld
    <3>1. ExpiredJobs[j].status = "expired" /\ job[j].status = "open"
      BY <2>1, ExpiryRows DEF IInv, TooOld
    <3> QED
      BY <3>1, <1>1, LifeStays
  <2>2. CASE j \notin TooOld
    <3>1. ExpiredJobs[j].status = job[j].status
      BY <2>2, ExpiryRows DEF IInv
    <3> QED
      BY <3>1, <1>1, LifeStays
  <2> QED
    BY <2>1, <2>2
<1>6. ExpiredJobs \in [Job -> JobRow]
  BY ExpiryRows DEF IInv
<1>7. ASSUME NEW j \in Job, job'[j] = ExpiredJobs[j]
      PROVE  JobGoesOn(j)
  <2>1. ExpiredJobs[j].project = job[j].project /\ ExpiredJobs[j].engineer = job[j].engineer
    BY ExpiryRows DEF IInv
  <2>2. /\ ExpiredJobs[j].status \in Life(job[j].status)
        /\ ExpiredJobs[j].status = "none" <=> job[j].status = "none"
    BY <1>5
  <2>3. job[j].status = "none" <=> job[j].project = None
    BY <1>1
  <2> QED
    BY <1>7, <2>1, <2>2, <2>3 DEF JobGoesOn
<1>8. CASE Quiet
  BY <1>2, <1>4, <1>8 DEF Quiet
<1>9. CASE Expiry
  BY <1>6, <1>7, <1>9 DEF Expiry
<1>10. ASSUME NEW j \in Job, Viewed(j)
       PROVE  job' \in [Job -> JobRow] /\ \A k \in Job : JobGoesOn(k)
  <2>1. job[j].views + 1 \in Nat
    BY <1>1, JobFields
  <2>2. job' = [job EXCEPT ![j] = [job[j] EXCEPT !.views = job[j].views + 1]]
    BY <1>10 DEF Viewed
  <2>3. /\ [job[j] EXCEPT !.views = job[j].views + 1] \in JobRow
        /\ [job[j] EXCEPT !.views = job[j].views + 1].status = job[j].status
        /\ [job[j] EXCEPT !.views = job[j].views + 1].project = job[j].project
        /\ [job[j] EXCEPT !.views = job[j].views + 1].engineer = job[j].engineer
    BY <1>1, <2>1, WithViews
  <2>4. job' \in [Job -> JobRow]
    BY <1>2, <2>2, <2>3
  <2>5. job'[j] = [job[j] EXCEPT !.views = job[j].views + 1]
    BY <1>2, <2>2
  <2>6. JobGoesOn(j)
    BY <1>1, <2>3, <2>5, LifeStays DEF JobGoesOn
  <2>7. \A k \in Job \ {j} : job'[k] = job[k]
    BY <1>2, <2>2
  <2> QED
    BY <1>4, <2>4, <2>6, <2>7
<1>11. ASSUME NEW p \in Project, NEW j \in Job, JobPost(p, j)
       PROVE  job' \in [Job -> JobRow] /\ \A k \in Job : JobGoesOn(k)
  <2> DEFINE new == [status |-> "open", project |-> p, engineer |-> None,
                     post |-> Len(log) + Len(ExpiryMsgs), views |-> 0]
  <2>1. job' = [ExpiredJobs EXCEPT ![j] = new] /\ job[j].status = "none"
    BY <1>11 DEF JobPost
  <2>2. Len(log) + Len(ExpiryMsgs) \in Nat
    BY ExpiryIsLog, Concat DEF IInv
  <2>3. new \in JobRow /\ new.status = "open" /\ new.project = p /\ new.engineer = None
    BY <1>3, <2>2 DEF JobRow
  <2>4. p # None
    BY BoardAssumption DEF BoardAssumption
  <2> HIDE DEF new
  <2>5. job' \in [Job -> JobRow] /\ job'[j] = new /\ \A k \in Job \ {j} : job'[k] = ExpiredJobs[k]
    BY <1>6, <2>1, <2>3
  <2>6. JobGoesOn(j)
    BY <1>1, <2>1, <2>3, <2>4, <2>5, LifeStays DEF JobGoesOn
  <2> QED
    BY <1>7, <2>5, <2>6
<1>12. ASSUME NEW a \in Applicant, NEW j \in Job, JobApply(a, j)
       PROVE  job' = ExpiredJobs
  BY <1>12 DEF JobApply
<1>13. ASSUME NEW p \in Project, JobHire(p)
       PROVE  job' \in [Job -> JobRow] /\ \A k \in Job : JobGoesOn(k)
  <2>1. PICK won \in SUBSET Applicant, jobs \in SUBSET Job : HireEffect(p, won, jobs)
    BY <1>13, HireRows
  <2>2. ASSUME NEW j \in jobs
        PROVE  job'[j] \in JobRow /\ JobGoesOn(j)
    <3>1. job[j].status = "open"
      BY <2>1 DEF HireEffect
    <3>2. PICK e \in won : job'[j] = [job[j] EXCEPT !.status = "filled", !.engineer = e]
      BY <2>1 DEF HireEffect
    <3>3. /\ [job[j] EXCEPT !.status = "filled", !.engineer = e] \in JobRow
          /\ [job[j] EXCEPT !.status = "filled", !.engineer = e].status = "filled"
          /\ [job[j] EXCEPT !.status = "filled", !.engineer = e].project = job[j].project
      <4>1. e \in Applicant /\ j \in Job /\ "filled" \in JobStatus
        BY <1>3
      <4>2. job[j] \in JobRow
        BY <1>1, <4>1
      <4> QED
        BY <4>1, <4>2 DEF JobRow
    <3> QED
      BY <1>1, <3>1, <3>2, <3>3, LifeStays DEF JobGoesOn
  <2>3. /\ \A j \in Job \ jobs : job'[j] = job[j]
        /\ job' = [j \in Job |-> job'[j]]
    BY <2>1 DEF HireEffect
  <2>4. \A j \in Job : job'[j] \in JobRow /\ JobGoesOn(j)
    BY <1>1, <1>4, <2>2, <2>3
  <2> QED
    BY <2>3, <2>4
<1>14. ASSUME NEW p \in Project, JobClose(p)
       PROVE  job' \in [Job -> JobRow] /\ \A k \in Job : JobGoesOn(k)
  <2>1. PICK j \in Job : job[j].status # "none" /\ job' = [job EXCEPT ![j].status = "closed"]
    BY <1>14, CloseRows
  <2>2. /\ [job[j] EXCEPT !.status = "closed"] \in JobRow
        /\ [job[j] EXCEPT !.status = "closed"].status = "closed"
        /\ [job[j] EXCEPT !.status = "closed"].project = job[j].project
        /\ [job[j] EXCEPT !.status = "closed"].engineer = job[j].engineer
    BY <1>1, <1>3, WithStatus
  <2>3. job'[j] = [job[j] EXCEPT !.status = "closed"] /\ \A k \in Job \ {j} : job'[k] = job[k]
    BY <1>2, <2>1
  <2>4. job' \in [Job -> JobRow]
    BY <1>2, <2>1, <2>2
  <2>5. JobGoesOn(j)
    BY <1>1, <2>1, <2>2, <2>3, LifeStays DEF JobGoesOn
  <2> QED
    BY <1>4, <2>3, <2>4, <2>5
<1> QED
  BY <1>6, <1>7, <1>8, <1>9, <1>10, <1>11, <1>12, <1>13, <1>14, Cases

\* An application that was made keeps its job and its place, and a final answer.
AppGoesOn(a) ==
  /\ app'[a].status # "none" <=> app[a].status # "none"
  /\ app'[a].status # "none" => app'[a].seq = app[a].seq
  /\ app[a].status \in {"hired", "rejected"} => app'[a] = app[a]
\* A new application comes after everything on the board.
AppIsNew(a) ==
  app[a].status = "none" /\ Len(log) <= app'[a].seq /\ app'[a].seq < Len(log')

LEMMA AppStep ==
  ASSUME IInv, IsLog(log), [Next]_vars
  PROVE  /\ app' \in [Applicant -> AppRow]
         /\ \/ \A a \in Applicant : AppGoesOn(a)
            \/ \E x \in Applicant : AppIsNew(x) /\ \A a \in Applicant \ {x} : AppGoesOn(a)
<1>1. app \in [Applicant -> AppRow] /\ \A a \in Applicant : app[a] \in AppRow
  BY DEF IInv, Rows
<1>2. {"pending", "hired", "rejected"} \subseteq AppStatus
  BY DEF AppStatus
<1>3. ASSUME NEW a \in Applicant, app'[a] = app[a]
      PROVE  AppGoesOn(a)
  BY <1>3 DEF AppGoesOn
<1>4. ASSUME NEW a \in Applicant, app[a].status = "pending",
             NEW s \in {"hired", "rejected"}, app'[a] = [app[a] EXCEPT !.status = s]
      PROVE  AppGoesOn(a) /\ app'[a] \in AppRow
  <2>1. [app[a] EXCEPT !.status = s] \in AppRow /\ [app[a] EXCEPT !.status = s].seq = app[a].seq
    BY <1>1, <1>2, AppFields
  <2> QED
    BY <1>4, <2>1 DEF AppGoesOn
<1>5. ASSUME NEW a \in Applicant
      PROVE  app'[a] = ExpiredApps[a] => AppGoesOn(a)
  <2>1. CASE app[a].status = "pending" /\ app[a].job \in TooOld
    BY <1>4, <2>1 DEF ExpiredApps
  <2>2. CASE ~(app[a].status = "pending" /\ app[a].job \in TooOld)
    BY <1>3, <2>2 DEF ExpiredApps
  <2> QED
    BY <2>1, <2>2
<1>6. ExpiredApps \in [Applicant -> AppRow]
  BY ExpiryRows DEF IInv
<1>7. CASE UNCHANGED app
  BY <1>1, <1>3, <1>7
<1>8. CASE app' = ExpiredApps
  BY <1>5, <1>6, <1>8
<1>9. ASSUME NEW x \in Applicant, NEW j \in Job, JobApply(x, j)
      PROVE  /\ app' \in [Applicant -> AppRow]
             /\ AppIsNew(x) /\ \A a \in Applicant \ {x} : AppGoesOn(a)
  <2> DEFINE new == [status |-> "pending", job |-> j, seq |-> Len(log) + Len(ExpiryMsgs)]
             msg == Msg(AgentTopic(job[j].project), x, "APPLY")
  <2>1. app[x].status = "none" /\ app' = [ExpiredApps EXCEPT ![x] = new]
    BY <1>9 DEF JobApply
  <2>2. Post(ExpiryMsgs \o <<msg>>)
    BY <1>9 DEF JobApply
  <2> HIDE DEF msg
  <2>3. IsLog(ExpiryMsgs) /\ IsLog(<<msg>>) /\ Len(<<msg>>) = 1
    BY ExpiryIsLog, ListIsLog DEF IInv
  <2>4. IsLog(ExpiryMsgs \o <<msg>>) /\ Len(ExpiryMsgs \o <<msg>>) = Len(ExpiryMsgs) + 1
    BY <2>3, Concat
  <2>5. Len(log) \in Nat /\ Len(log') = Len(log) + (Len(ExpiryMsgs) + 1) /\ Len(ExpiryMsgs) \in Nat
    BY <2>2, <2>4, PostGrows, ExpiryIsLog DEF IInv
  <2>6. new \in AppRow /\ new.seq = Len(log) + Len(ExpiryMsgs)
    BY <1>2, <2>5 DEF AppRow
  <2> HIDE DEF new
  <2>7. /\ app' \in [Applicant -> AppRow] /\ app'[x] = new
        /\ \A a \in Applicant \ {x} : app'[a] = ExpiredApps[a]
    BY <1>6, <2>1, <2>6
  <2>8. AppIsNew(x)
    BY <2>1, <2>5, <2>6, <2>7 DEF AppIsNew
  <2> QED
    BY <1>5, <2>7, <2>8
<1>10. ASSUME NEW p \in Project, JobHire(p)
       PROVE  app' \in [Applicant -> AppRow] /\ \A a \in Applicant : AppGoesOn(a)
  <2>1. PICK won \in SUBSET Applicant, jobs \in SUBSET Job : HireEffect(p, won, jobs)
    BY <1>10, HireRows
  <2>2. ASSUME NEW a \in Applicant
        PROVE  AppGoesOn(a) /\ app'[a] \in AppRow
    <3>1. CASE a \in won
      BY <1>4, <2>1, <3>1 DEF HireEffect
    <3>2. CASE a \notin won
      <4>1. app'[a] = IF app[a].status = "pending" /\ app[a].job \in jobs
                      THEN [app[a] EXCEPT !.status = "rejected"] ELSE app[a]
        BY <2>1, <3>2 DEF HireEffect
      <4> QED
        BY <1>1, <1>3, <1>4, <4>1
    <3> QED
      BY <3>1, <3>2
  <2>3. app' = [a \in Applicant |-> app'[a]]
    BY <2>1 DEF HireEffect
  <2> QED
    BY <2>2, <2>3
<1>11. ASSUME NEW p \in Project, JobClose(p)
       PROVE  app' \in [Applicant -> AppRow] /\ \A a \in Applicant : AppGoesOn(a)
  <2>1. PICK j \in Job :
          /\ app' = [a \in Applicant |-> app'[a]]
          /\ \A a \in Applicant :
               app'[a] = IF app[a].status = "pending" /\ app[a].job = j
                         THEN [app[a] EXCEPT !.status = "rejected"] ELSE app[a]
    BY <1>11, CloseRows
  <2>2. ASSUME NEW a \in Applicant
        PROVE  AppGoesOn(a) /\ app'[a] \in AppRow
    BY <1>1, <1>3, <1>4, <2>1
  <2> QED
    BY <2>1, <2>2
<1> QED
  BY <1>7, <1>8, <1>9, <1>10, <1>11, Cases DEF Quiet, Expiry, Viewed, JobPost

-----------------------------------------------------------------------------
(* The parts of the invariant, one after the other                         *)

LEMMA OrderStep ==
  ASSUME IInv, IsLog(log), [Next]_vars
  PROVE  AppOrder'
<1>1. Len(log) \in Nat /\ Len(log') \in Nat /\ Len(log) <= Len(log')
  BY LogStep
<1>2. ASSUME NEW a \in Applicant, AppGoesOn(a), app'[a].status # "none"
      PROVE  app[a].status # "none" /\ app'[a].seq = app[a].seq /\ app[a].seq \in Nat
             /\ app[a].seq < Len(log)
  <2>1. app[a].status # "none" /\ app'[a].seq = app[a].seq
    BY <1>2 DEF AppGoesOn
  <2>2. app[a].seq \in Nat
    BY AppFields DEF IInv, Rows
  <2> QED
    BY <2>1, <2>2 DEF IInv, AppOrder
<1>3. \A a \in Applicant : app'[a].seq \in Nat
  BY AppStep, AppFields
<1>4. CASE \A a \in Applicant : AppGoesOn(a)
  BY <1>1, <1>2, <1>4 DEF IInv, AppOrder
<1>5. CASE \E x \in Applicant : AppIsNew(x) /\ \A a \in Applicant \ {x} : AppGoesOn(a)
  <2>1. PICK x \in Applicant : AppIsNew(x) /\ \A a \in Applicant \ {x} : AppGoesOn(a)
    BY <1>5
  <2>2. Len(log) <= app'[x].seq /\ app'[x].seq < Len(log')
    BY <2>1 DEF AppIsNew
  <2>3. ASSUME NEW a \in Applicant, app'[a].status # "none"
        PROVE  app'[a].seq < Len(log')
    BY <1>1, <1>2, <1>3, <2>1, <2>2, <2>3
  <2>4. ASSUME NEW a \in Applicant, NEW b \in Applicant,
               app'[a].status # "none", app'[b].status # "none", app'[a].seq = app'[b].seq
        PROVE  a = b
    <3>1. a # x /\ b # x => a = b
      BY <1>2, <2>1, <2>4 DEF IInv, AppOrder
    <3>2. a = x /\ b # x => FALSE
      BY <1>1, <1>2, <2>1, <2>2, <2>4
    <3>3. b = x /\ a # x => FALSE
      BY <1>1, <1>2, <2>1, <2>2, <2>4
    <3> QED
      BY <3>1, <3>2, <3>3
  <2> QED
    BY <2>3, <2>4 DEF AppOrder
<1> QED
  BY <1>4, <1>5, AppStep

LEMMA PostedStep ==
  ASSUME IInv, IsLog(log), [Next]_vars
  PROVE  PostedJobs'
BY JobStep DEF JobGoesOn, PostedJobs

\* Only JobCloseResolve starts a job close, on a job of the manager.
LEMMA CallStep ==
  ASSUME IInv, [Next]_vars
  PROVE  /\ DOMAIN call' = Agent
         /\ \A b \in Agent :
              \/ call'[b] = call[b]
              \/ call'[b].cmd # "job close"
              \/ call'[b].arg \in Job /\ job[call'[b].arg].status # "none"
<1> DEFINE Right(a, c) == \/ c.cmd # "job close"
                          \/ c.arg \in Job /\ job[c.arg].status # "none"
<1>1. DOMAIN call = Agent
  BY DEF IInv, Rows
<1>2. ASSUME NEW a \in Agent, NEW c, call' = [call EXCEPT ![a] = c], Right(a, c)
      PROVE  /\ DOMAIN call' = Agent
             /\ \A b \in Agent : call'[b] = call[b] \/ Right(b, call'[b])
  BY <1>1, <1>2
<1>3. \A a, cmd, arg, topics : cmd # "job close" => Right(a, Call(cmd, arg, topics))
  BY DEF Call
<1>4. \A a : Right(a, Idle)
  BY <1>3 DEF Idle
<1> HIDE DEF Right
<1> USE DEF Goto, Begin, End
<1>5. CASE UNCHANGED call
  BY <1>1, <1>5
<1>6. ASSUME NEW a \in Agent, Say(a) \/ Sub(a) \/ Ack(a) \/ Inbox(a) \/ Kill(a)
      PROVE  UNCHANGED call \/ \E c : call' = [call EXCEPT ![a] = c] /\ Right(a, c)
  <2>1. CASE Say(a) \/ Sub(a) \/ Ack(a)
    BY <2>1 DEF Say, Sub, Ack
  <2>2. CASE InboxCursor(a)
    <3>1. call' = [call EXCEPT ![a] = Call("topics", cursor[a], {})]
      BY <2>2 DEF InboxCursor
    <3> QED
      BY <3>1, <1>3
  <2>3. CASE InboxTopics(a)
    <3>1. call' = [call EXCEPT ![a] = Call("inbox", call[a].arg, Own(a) \cup subs[a])]
      BY <2>3 DEF InboxTopics
    <3> QED
      BY <3>1, <1>3
  <2>4. CASE InboxRead(a)
    <3>1. call' = [call EXCEPT ![a] = Call("mark", Max({0} \cup Unread(a)), {})]
      BY <2>4 DEF InboxRead
    <3> QED
      BY <3>1, <1>3
  <2>5. CASE InboxMark(a) \/ Kill(a)
    BY <2>5, <1>4 DEF InboxMark, Kill
  <2> QED
    BY <1>6, <2>1, <2>2, <2>3, <2>4, <2>5 DEF Inbox
<1>7. ASSUME NEW a \in Applicant, ShowStart(a) \/ ShowPick(a) \/ ShowEnd(a)
      PROVE  \E c : call' = [call EXCEPT ![a] = c] /\ Right(a, c)
  <2>1. CASE ShowStart(a)
    <3>1. call' = [call EXCEPT ![a] = Call("show", None, {})]
      BY <2>1 DEF ShowStart
    <3> QED
      BY <3>1, <1>3
  <2>2. CASE ShowPick(a)
    <3>1. PICK j : call' = [call EXCEPT ![a] = Call("reading", j, {})]
      BY <2>2 DEF ShowPick
    <3> QED
      BY <3>1, <1>3
  <2>3. CASE ShowEnd(a)
    BY <2>3, <1>4 DEF ShowEnd
  <2> QED
    BY <1>7, <2>1, <2>2, <2>3
<1>8. ASSUME NEW a \in Applicant, NEW j \in Job, JobApply(a, j)
      PROVE  \E c : call' = [call EXCEPT ![a] = c] /\ Right(a, c)
  BY <1>4, <1>8 DEF JobApply
<1>9. ASSUME NEW p \in Project,
             ProjectPost(p) \/ ProjectCloseCheck(p) \/ ProjectClose(p) \/ JobHire(p) \/ JobClose(p)
      PROVE  UNCHANGED call \/ \E c : call' = [call EXCEPT ![p] = c] /\ Right(p, c)
  BY <1>3, <1>4, <1>9 DEF ProjectPost, ProjectCloseCheck, ProjectClose, JobHire, JobClose
<1>10. ASSUME NEW p \in Project, NEW j \in Job, JobCloseResolve(p, j)
       PROVE  \E c : call' = [call EXCEPT ![p] = c] /\ Right(p, c)
  <2>1. call' = [call EXCEPT ![p] = Call("job close", j, {})]
    BY <1>10 DEF JobCloseResolve
  <2>2. job[j].status # "none"
    BY <1>10, BoardAssumption DEF JobCloseResolve, Managed, IInv, PostedJobs, BoardAssumption
  <2>3. Right(p, Call("job close", j, {}))
    BY <2>2 DEF Right, Call
  <2> QED
    BY <2>1, <2>3
<1>11. UNCHANGED call \/ \E a \in Agent : \E c : call' = [call EXCEPT ![a] = c] /\ Right(a, c)
  BY <1>5, <1>6, <1>7, <1>8, <1>9, <1>10
     DEF Next, vars, Agent, Age, JobList, JobPost
<1> QED
  BY <1>1, <1>2, <1>11 DEF Right

LEMMA ClosingStep ==
  ASSUME IInv, IsLog(log), [Next]_vars
  PROVE  Closing'
<1>1. ASSUME NEW b \in Agent, call'[b].cmd = "job close"
      PROVE  call'[b].arg \in Job /\ job[call'[b].arg].status # "none"
  BY <1>1, CallStep DEF IInv, Closing
<1>2. \A j \in Job : job[j].status # "none" => job'[j].status # "none"
  BY JobStep, LifeStays, JobFields DEF JobGoesOn, IInv, Rows
<1> QED
  BY <1>1, <1>2 DEF Closing

\* Subscriptions are to channels.
LEMMA SubsStep ==
  ASSUME IInv, [Next]_vars
  PROVE  subs' \in [Agent -> SUBSET Channel]
<1>1. subs \in [Agent -> SUBSET Channel]
  BY DEF IInv, Rows
<1>2. \A a \in Agent, t \in Channel : subs' = [subs EXCEPT ![a] = @ \cup {t}]
        => subs' \in [Agent -> SUBSET Channel]
  BY <1>1
<1>3. CASE Quiet
  BY <1>1, <1>2, <1>3, Topics DEF Quiet, Agent
<1>4. ASSUME NEW p \in Project, NEW j \in Job, JobPost(p, j)
      PROVE  subs' \in [Agent -> SUBSET Channel]
  BY <1>2, <1>4, Topics DEF JobPost, Agent
<1>5. ASSUME NEW p \in Project, JobHire(p)
      PROVE  subs' \in [Agent -> SUBSET Channel]
  <2>1. PICK won \in SUBSET Applicant, jobs \in SUBSET Job : HireEffect(p, won, jobs)
    BY <1>5, HireRows
  <2>2. ASSUME NEW a \in won
        PROVE  subs'[a] \in SUBSET Channel
    <3>1. app[a].job \in Job /\ subs'[a] = subs[a] \cup {JobTopic(app[a].job), ProjectTopic(p)}
      BY <2>1 DEF HireEffect
    <3>2. JobTopic(app[a].job) \in Channel /\ ProjectTopic(p) \in Channel
      BY <3>1, Topics
    <3>3. subs[a] \in SUBSET Channel
      BY <1>1 DEF Agent
    <3> QED
      BY <3>1, <3>2, <3>3
  <2>3. \A a \in Agent \ won : subs'[a] = subs[a]
    BY <2>1 DEF HireEffect
  <2>4. subs' = [a \in Agent |-> subs'[a]]
    BY <2>1 DEF HireEffect
  <2> QED
    BY <1>1, <2>2, <2>3, <2>4
<1> QED
  BY <1>1, <1>3, <1>4, <1>5, Cases, CloseRows DEF Expiry, Viewed, JobApply

LEMMA RowsStep ==
  ASSUME IInv, IsLog(log), [Next]_vars
  PROVE  Rows'
<1>1. overdue' \subseteq Job
  <2>1. CASE \E j \in Job : Age(j)
    BY <2>1 DEF Age, IInv, Rows
  <2>2. CASE UNCHANGED overdue
    BY <2>2 DEF IInv, Rows
  <2>3. ASSUME NEW a \in Agent, Say(a) \/ Sub(a) \/ Ack(a) \/ Inbox(a) \/ Kill(a)
        PROVE  UNCHANGED overdue
    BY <2>3 DEF Say, Sub, Ack, Inbox, InboxCursor, InboxTopics, InboxRead, InboxMark, Kill
  <2>4. ASSUME NEW a \in Applicant, ShowStart(a) \/ ShowPick(a) \/ ShowEnd(a)
        PROVE  UNCHANGED overdue
    BY <2>4 DEF ShowStart, ShowPick, ShowEnd
  <2>5. ASSUME NEW p \in Project,
               ProjectPost(p) \/ ProjectCloseCheck(p) \/ ProjectClose(p) \/ JobHire(p) \/ JobClose(p)
        PROVE  UNCHANGED overdue
    BY <2>5 DEF ProjectPost, ProjectCloseCheck, ProjectClose, JobHire, JobClose
  <2> QED
    BY <2>1, <2>2, <2>3, <2>4, <2>5
       DEF Next, vars, JobList, JobApply, JobPost, JobCloseResolve
<1> QED
  BY <1>1, JobStep, AppStep, SubsStep, CallStep DEF Rows

-----------------------------------------------------------------------------
(* One engineer for each job, and nobody left waiting                      *)

\* Hiring, of some jobs and applications.
HiringOf(J, A) ==
  /\ \A j \in Job : J[j].status = "filled" => J[j].engineer # None
  /\ \A j \in Job : J[j].engineer # None =>
       /\ J[j].engineer \in Applicant
       /\ A[J[j].engineer].status = "hired"
       /\ A[J[j].engineer].job = j
       /\ J[j].status \in {"filled", "closed"}
  /\ \A a \in Applicant : A[a].status = "hired" => A[a].job \in Job /\ J[A[a].job].engineer = a
  /\ \A a \in Applicant : A[a].status = "pending" => A[a].job \in Job /\ J[A[a].job].status = "open"

LEMMA HiringIs ==
  /\ OneEngineer /\ NobodyLeftWaiting <=> HiringOf(job, app)
  /\ (OneEngineer /\ NobodyLeftWaiting)' <=> HiringOf(job', app')
BY DEF OneEngineer, NobodyLeftWaiting, HiringOf

\* A hire or the end of a job only needs to get right the jobs and the applications it
\* changes.
LEMMA ExpiryHiring ==
  ASSUME IInv
  PROVE  HiringOf(ExpiredJobs, ExpiredApps)
<1>1. Rows /\ HiringOf(job, app)
  BY HiringIs DEF IInv
<1>2. ASSUME NEW j \in Job
      PROVE  /\ ExpiredJobs[j].engineer = job[j].engineer
             /\ j \in TooOld => job[j].status = "open" /\ ExpiredJobs[j].status = "expired"
             /\ j \notin TooOld => ExpiredJobs[j].status = job[j].status
  BY <1>1, ExpiryRows DEF TooOld
<1>3. ASSUME NEW a \in Applicant
      PROVE  /\ ExpiredApps[a].job = app[a].job
             /\ app[a].status = "pending" /\ app[a].job \in TooOld
                  => ExpiredApps[a].status = "rejected"
             /\ ~(app[a].status = "pending" /\ app[a].job \in TooOld)
                  => ExpiredApps[a].status = app[a].status
  BY <1>1, ExpiryRows
<1>4. ASSUME NEW j \in Job, ExpiredJobs[j].status = "filled"
      PROVE  ExpiredJobs[j].engineer # None
  BY <1>1, <1>2, <1>4 DEF HiringOf
<1>5. ASSUME NEW j \in Job, ExpiredJobs[j].engineer # None
      PROVE  /\ ExpiredJobs[j].engineer \in Applicant
             /\ ExpiredApps[ExpiredJobs[j].engineer].status = "hired"
             /\ ExpiredApps[ExpiredJobs[j].engineer].job = j
             /\ ExpiredJobs[j].status \in {"filled", "closed"}
  <2>1. PICK e : e = job[j].engineer
    OBVIOUS
  <2>2. /\ e \in Applicant /\ app[e].status = "hired" /\ app[e].job = j
        /\ job[j].status \in {"filled", "closed"} /\ ExpiredJobs[j].engineer = e
    BY <1>1, <1>2, <1>5, <2>1 DEF HiringOf
  <2> QED
    BY <1>2, <1>3, <2>2
<1>6. ASSUME NEW a \in Applicant, ExpiredApps[a].status = "hired"
      PROVE  ExpiredApps[a].job \in Job /\ ExpiredJobs[ExpiredApps[a].job].engineer = a
  BY <1>1, <1>2, <1>3, <1>6 DEF HiringOf
<1>7. ASSUME NEW a \in Applicant, ExpiredApps[a].status = "pending"
      PROVE  ExpiredApps[a].job \in Job /\ ExpiredJobs[ExpiredApps[a].job].status = "open"
  BY <1>1, <1>2, <1>3, <1>7 DEF HiringOf
<1> QED
  BY <1>4, <1>5, <1>6, <1>7 DEF HiringOf

LEMMA PostHiring ==
  ASSUME IInv, NEW p \in Project, NEW j \in Job, JobPost(p, j)
  PROVE  HiringOf(job', app')
<1> DEFINE new == [status |-> "open", project |-> p, engineer |-> None,
                   post |-> Len(log) + Len(ExpiryMsgs), views |-> 0]
<1>1. job' = [ExpiredJobs EXCEPT ![j] = new] /\ new.status = "open" /\ new.engineer = None
  BY DEF JobPost
<1> HIDE DEF new
<1>2. app' = ExpiredApps
  BY DEF JobPost
<1>3. HiringOf(ExpiredJobs, ExpiredApps) /\ DOMAIN ExpiredJobs = Job
  BY ExpiryHiring DEF ExpiredJobs
<1>4. job'[j] = new /\ \A k \in Job \ {j} : job'[k] = ExpiredJobs[k]
  BY <1>1, <1>3
<1>5. ExpiredJobs[j].engineer = None
  <2>1. job[j].status = "none" /\ job[j].engineer = None
    BY HiringIs DEF JobPost, IInv, HiringOf
  <2> QED
    BY <2>1, ExpiryRows DEF IInv
<1>6. None \notin Applicant
  BY BoardAssumption DEF BoardAssumption
<1> QED
  BY <1>1, <1>2, <1>3, <1>4, <1>5, <1>6 DEF HiringOf

LEMMA ApplyHiring ==
  ASSUME IInv, NEW x \in Applicant, NEW j \in Job, JobApply(x, j)
  PROVE  HiringOf(job', app')
<1> DEFINE new == [status |-> "pending", job |-> j, seq |-> Len(log) + Len(ExpiryMsgs)]
<1>1. app' = [ExpiredApps EXCEPT ![x] = new] /\ new.status = "pending" /\ new.job = j
  BY DEF JobApply
<1> HIDE DEF new
<1>2. job' = ExpiredJobs /\ ExpiredJobs[j].status = "open"
  BY DEF JobApply
<1>3. HiringOf(ExpiredJobs, ExpiredApps) /\ DOMAIN ExpiredApps = Applicant
  BY ExpiryHiring DEF ExpiredApps
<1>4. app'[x] = new /\ \A a \in Applicant \ {x} : app'[a] = ExpiredApps[a]
  BY <1>1, <1>3
<1>5. ExpiredApps[x].status = "none"
  <2>1. app[x].status = "none"
    BY DEF JobApply
  <2> QED
    BY <2>1 DEF ExpiredApps
<1>6. \A k \in Job : ExpiredJobs[k].engineer # x
  BY <1>3, <1>5, BoardAssumption DEF HiringOf, BoardAssumption
<1> QED
  BY <1>1, <1>2, <1>3, <1>4, <1>5, <1>6 DEF HiringOf

LEMMA HireHiring ==
  ASSUME IInv, NEW p \in Project, JobHire(p)
  PROVE  HiringOf(job', app')
<1>1. PICK won \in SUBSET Applicant, jobs \in SUBSET Job : HireEffect(p, won, jobs)
  BY HireRows
<1>2. HiringOf(job, app)
  BY HiringIs DEF IInv
<1>3. /\ None \notin Applicant
      /\ \A a \in Applicant : app[a] \in AppRow
      /\ \A j \in Job : job[j] \in JobRow
  BY BoardAssumption DEF BoardAssumption, IInv, Rows
<1>4. ASSUME NEW a \in won
      PROVE  /\ app[a].status = "pending" /\ app[a].job \in jobs
             /\ app'[a].status = "hired" /\ app'[a].job = app[a].job
  <2>1. /\ app[a].status = "pending" /\ app[a].job \in jobs
        /\ app'[a] = [app[a] EXCEPT !.status = "hired"]
    BY <1>1 DEF HireEffect
  <2> QED
    BY <1>3, <2>1, AppFields DEF AppStatus
<1>5. ASSUME NEW a \in Applicant \ won
      PROVE  \/ /\ app[a].status = "pending" /\ app[a].job \in jobs
                /\ app'[a].status = "rejected"
             \/ ~(app[a].status = "pending" /\ app[a].job \in jobs) /\ app'[a] = app[a]
  <2>1. app'[a] = IF app[a].status = "pending" /\ app[a].job \in jobs
                  THEN [app[a] EXCEPT !.status = "rejected"] ELSE app[a]
    BY <1>1 DEF HireEffect
  <2> QED
    BY <1>3, <2>1, AppFields DEF AppStatus
<1>6. ASSUME NEW j \in jobs
      PROVE  /\ job[j].status = "open" /\ job'[j].status = "filled" /\ job'[j].engineer \in won
             /\ app[job'[j].engineer].job = j
             /\ \A a \in won : app[a].job = j => a = job'[j].engineer
  <2>1. job[j].status = "open" /\ job[j] \in JobRow
    BY <1>1, <1>3 DEF HireEffect
  <2>2. PICK e \in won : /\ app[e].job = j
                         /\ \A a \in won : app[a].job = j => a = e
                         /\ job'[j] = [job[j] EXCEPT !.status = "filled", !.engineer = e]
    BY <1>1 DEF HireEffect
  <2>3. job'[j].status = "filled" /\ job'[j].engineer = e
    BY <2>1, <2>2 DEF JobRow
  <2> QED
    BY <2>1, <2>2, <2>3
<1>7. \A j \in Job \ jobs : job'[j] = job[j]
  BY <1>1 DEF HireEffect
<1>8. ASSUME NEW j \in Job, job'[j].engineer # None
      PROVE  /\ job'[j].engineer \in Applicant
             /\ app'[job'[j].engineer].status = "hired"
             /\ app'[job'[j].engineer].job = j
             /\ job'[j].status \in {"filled", "closed"}
  <2>1. CASE j \in jobs
    BY <1>4, <1>6, <2>1
  <2>2. CASE j \notin jobs
    <3>1. PICK e : e = job[j].engineer
      OBVIOUS
    <3>2. /\ e \in Applicant /\ app[e].status = "hired" /\ app[e].job = j
          /\ job'[j].status \in {"filled", "closed"} /\ job'[j].engineer = e
      BY <1>2, <1>7, <1>8, <2>2, <3>1 DEF HiringOf
    <3>3. app'[e] = app[e]
      BY <1>4, <1>5, <3>2
    <3> QED
      BY <3>2, <3>3
  <2> QED
    BY <2>1, <2>2
<1>9. ASSUME NEW j \in Job, job'[j].status = "filled"
      PROVE  job'[j].engineer # None
  BY <1>2, <1>3, <1>6, <1>7, <1>9 DEF HiringOf
<1>10. ASSUME NEW a \in Applicant, app'[a].status = "hired"
       PROVE  app'[a].job \in Job /\ job'[app'[a].job].engineer = a
  <2>1. CASE a \in won
    BY <1>4, <1>6, <2>1
  <2>2. CASE a \notin won
    <3>1. app'[a] = app[a]
      BY <1>5, <1>10, <2>2
    <3>2. app[a].job \in Job /\ job[app[a].job].engineer = a
      BY <1>2, <1>10, <3>1 DEF HiringOf
    <3>3. app[a].job \notin jobs
      BY <1>2, <1>3, <1>6, <3>2 DEF HiringOf
    <3> QED
      BY <1>7, <3>1, <3>2, <3>3
  <2> QED
    BY <2>1, <2>2
<1>11. ASSUME NEW a \in Applicant, app'[a].status = "pending"
       PROVE  app'[a].job \in Job /\ job'[app'[a].job].status = "open"
  <2>1. a \notin won
    BY <1>4, <1>11
  <2>2. app'[a] = app[a] /\ app[a].job \notin jobs
    BY <1>5, <1>11, <2>1
  <2> QED
    BY <1>2, <1>7, <1>11, <2>2 DEF HiringOf
<1> QED
  BY <1>8, <1>9, <1>10, <1>11 DEF HiringOf

LEMMA CloseHiring ==
  ASSUME IInv, NEW p \in Project, JobClose(p)
  PROVE  HiringOf(job', app')
<1>1. PICK j \in Job :
        /\ job' = [job EXCEPT ![j].status = "closed"]
        /\ \A a \in Applicant :
             app'[a] = IF app[a].status = "pending" /\ app[a].job = j
                       THEN [app[a] EXCEPT !.status = "rejected"] ELSE app[a]
  BY CloseRows
<1>2. HiringOf(job, app)
  BY HiringIs DEF IInv
<1>3. /\ \A a \in Applicant : app[a] \in AppRow
      /\ job \in [Job -> JobRow]
  BY DEF IInv, Rows
<1>4. \A k \in Job \ {j} : job'[k] = job[k]
  BY <1>1, <1>3
<1>5. job'[j].status = "closed" /\ job'[j].engineer = job[j].engineer
  <2>1. job'[j] = [job[j] EXCEPT !.status = "closed"] /\ job[j] \in JobRow
    BY <1>1, <1>3
  <2> QED
    BY <2>1 DEF JobRow
<1>6. ASSUME NEW a \in Applicant
      PROVE  \/ /\ app[a].status = "pending" /\ app[a].job = j
                /\ app'[a].status = "rejected"
             \/ ~(app[a].status = "pending" /\ app[a].job = j) /\ app'[a] = app[a]
  <2>1. app'[a] = IF app[a].status = "pending" /\ app[a].job = j
                  THEN [app[a] EXCEPT !.status = "rejected"] ELSE app[a]
    BY <1>1
  <2> QED
    BY <1>3, <2>1, AppFields DEF AppStatus
<1>7. ASSUME NEW k \in Job, job'[k].engineer # None
      PROVE  /\ job'[k].engineer \in Applicant
             /\ app'[job'[k].engineer].status = "hired"
             /\ app'[job'[k].engineer].job = k
             /\ job'[k].status \in {"filled", "closed"}
  <2>1. PICK e : e = job[k].engineer
    OBVIOUS
  <2>2. job'[k].engineer = e
    BY <1>4, <1>5, <2>1
  <2>3. /\ e \in Applicant /\ app[e].status = "hired" /\ app[e].job = k
        /\ job[k].status \in {"filled", "closed"}
    BY <1>2, <1>7, <2>1, <2>2 DEF HiringOf
  <2>4. app'[e] = app[e]
    BY <1>6, <2>3
  <2> QED
    BY <1>4, <1>5, <2>2, <2>3, <2>4
<1>8. ASSUME NEW k \in Job, job'[k].status = "filled"
      PROVE  job'[k].engineer # None
  BY <1>2, <1>4, <1>5, <1>8 DEF HiringOf
<1>9. ASSUME NEW a \in Applicant, app'[a].status = "hired"
      PROVE  app'[a].job \in Job /\ job'[app'[a].job].engineer = a
  BY <1>2, <1>4, <1>5, <1>6, <1>9 DEF HiringOf
<1>10. ASSUME NEW a \in Applicant, app'[a].status = "pending"
       PROVE  app'[a].job \in Job /\ job'[app'[a].job].status = "open"
  BY <1>2, <1>4, <1>6, <1>10 DEF HiringOf
<1> QED
  BY <1>7, <1>8, <1>9, <1>10 DEF HiringOf

LEMMA HiringStep ==
  ASSUME IInv, [Next]_vars
  PROVE  (OneEngineer /\ NobodyLeftWaiting)'
<1> SUFFICES HiringOf(job', app')
  BY HiringIs
<1>1. HiringOf(job, app)
  BY HiringIs DEF IInv
<1>2. CASE Quiet
  BY <1>1, <1>2 DEF Quiet
<1>3. CASE Expiry
  BY <1>3, ExpiryHiring DEF Expiry
<1>4. ASSUME NEW j \in Job, Viewed(j) PROVE HiringOf(job', app')
  <2>1. job \in [Job -> JobRow] /\ job[j] \in JobRow
    BY DEF IInv, Rows
  <2>2. job'[j] = [job[j] EXCEPT !.views = job[j].views + 1]
          /\ \A k \in Job \ {j} : job'[k] = job[k]
    BY <1>4, <2>1 DEF Viewed
  <2>3. job'[j].status = job[j].status /\ job'[j].engineer = job[j].engineer
    BY <2>1, <2>2 DEF JobRow
  <2>4. app' = app
    BY <1>4 DEF Viewed
  <2>5. \A k \in Job : job'[k].status = job[k].status /\ job'[k].engineer = job[k].engineer
    BY <2>2, <2>3
  <2> QED
    BY <1>1, <2>4, <2>5 DEF HiringOf
<1> QED
  BY <1>1, <1>2, <1>3, <1>4, Cases, PostHiring, ApplyHiring, HireHiring, CloseHiring

-----------------------------------------------------------------------------
(* The channels and their members                                          *)

\* A channel that an agent is subscribed to after a step, it was before or is one of
\* its own now.
LEMMA SubscribedStep ==
  ASSUME IInv, IsLog(log), [Next]_vars
  PROVE  Subscribed'
<1> DEFINE MayReadJob(a, j) == job'[j].status # "none" /\ a \in {job'[j].project, job'[j].engineer}
           MayReadProject(a, p) == a = p \/ \E j \in Job : job'[j].project = p /\ job'[j].engineer = a
<1>1. ASSUME NEW j \in Job
      PROVE  /\ job[j].status # "none" => job'[j].status # "none" /\ job'[j].project = job[j].project
             /\ job[j].engineer # None => job'[j].engineer = job[j].engineer
             /\ job[j].engineer # None => job[j].status # "none"
  <2>1. job[j].status \in JobStatus
    BY JobFields DEF IInv, Rows
  <2>2. job[j].engineer # None => job[j].status # "none"
    BY DEF IInv, OneEngineer
  <2> QED
    BY <2>1, <2>2, JobStep, LifeStays DEF JobGoesOn
<1>2. None \notin Agent
  BY BoardAssumption DEF BoardAssumption, Agent
<1>3. ASSUME NEW a \in Agent, NEW j \in Job, JobTopic(j) \in subs[a]
      PROVE  MayReadJob(a, j)
  BY <1>1, <1>2, <1>3 DEF IInv, Subscribed, Member
<1>4. ASSUME NEW a \in Agent, NEW p \in Project, ProjectTopic(p) \in subs[a]
      PROVE  MayReadProject(a, p)
  <2>1. CASE a = p
    BY <2>1
  <2>2. CASE a # p
    <3>1. PICK j \in Job : job[j].project = p /\ job[j].engineer = a
      BY <1>4, <2>2 DEF IInv, Subscribed, Member, Managed
    <3> QED
      BY <1>1, <1>2, <3>1
  <2> QED
    BY <2>1, <2>2
<1> SUFFICES ASSUME NEW a \in Agent
             PROVE  /\ \A j \in Job : JobTopic(j) \in subs'[a] => MayReadJob(a, j)
                    /\ \A p \in Project : ProjectTopic(p) \in subs'[a] => MayReadProject(a, p)
  BY DEF Subscribed, Member, Managed
<1>5. ASSUME NEW topics, subs'[a] \subseteq subs[a] \cup topics,
             \A j \in Job : JobTopic(j) \in topics => MayReadJob(a, j),
             \A p \in Project : ProjectTopic(p) \in topics => MayReadProject(a, p)
      PROVE  /\ \A j \in Job : JobTopic(j) \in subs'[a] => MayReadJob(a, j)
             /\ \A p \in Project : ProjectTopic(p) \in subs'[a] => MayReadProject(a, p)
  BY <1>3, <1>4, <1>5
<1>6. DOMAIN subs = Agent
  BY DEF IInv, Rows
<1>7. CASE subs'[a] = subs[a]
  BY <1>3, <1>4, <1>7
<1>8. CASE Quiet
  <2>1. ASSUME subs' = [subs EXCEPT ![a] = @ \cup {Lobby}]
        PROVE  subs'[a] \subseteq subs[a] \cup {Lobby}
    BY <1>6, <2>1
  <2>2. ASSUME a \in Project, subs' = [subs EXCEPT ![a] = @ \cup {ProjectTopic(a)}]
        PROVE  subs'[a] \subseteq subs[a] \cup {ProjectTopic(a)}
    BY <1>6, <2>2
  <2>3. \/ subs'[a] = subs[a]
        \/ subs'[a] \subseteq subs[a] \cup {Lobby}
        \/ a \in Project /\ subs'[a] \subseteq subs[a] \cup {ProjectTopic(a)}
    <3>1. \A b \in Agent : \A t : subs' = [subs EXCEPT ![b] = @ \cup {t}] /\ a # b => subs'[a] = subs[a]
      BY <1>6
    <3>2. CASE subs' = subs
      BY <3>2
    <3>3. CASE \E b \in Agent : subs' = [subs EXCEPT ![b] = @ \cup {Lobby}]
      BY <3>1, <3>3, <2>1
    <3>4. CASE \E p \in Project : subs' = [subs EXCEPT ![p] = @ \cup {ProjectTopic(p)}]
      BY <3>1, <3>4, <2>2 DEF Agent
    <3> QED
      BY <1>8, <3>2, <3>3, <3>4 DEF Quiet
  <2>4. CASE subs'[a] \subseteq subs[a] \cup {Lobby}
    <3>1. \A t : JobTopic(t) \notin {Lobby} /\ ProjectTopic(t) \notin {Lobby}
      BY Topics
    <3> QED
      BY <1>5, <2>4, <3>1
  <2>5. CASE a \in Project /\ subs'[a] \subseteq subs[a] \cup {ProjectTopic(a)}
    <3>1. /\ \A j \in Job : JobTopic(j) \notin {ProjectTopic(a)}
          /\ \A p \in Project : ProjectTopic(p) \in {ProjectTopic(a)} => p = a
      BY Topics
    <3>2. MayReadProject(a, a)
      OBVIOUS
    <3> QED
      BY <1>5, <2>5, <3>1, <3>2
  <2> QED
    BY <1>7, <2>3, <2>4, <2>5
<1>9. ASSUME NEW p \in Project, NEW j \in Job, JobPost(p, j)
      PROVE  /\ \A k \in Job : JobTopic(k) \in subs'[a] => MayReadJob(a, k)
             /\ \A q \in Project : ProjectTopic(q) \in subs'[a] => MayReadProject(a, q)
  <2>1. CASE a # p
    BY <1>6, <1>7, <1>9, <2>1 DEF JobPost
  <2>2. CASE a = p
    <3>1. subs'[a] \subseteq subs[a] \cup {JobTopic(j)}
      BY <1>6, <1>9, <2>2 DEF JobPost
    <3>2. job'[j].status = "open" /\ job'[j].project = a
      BY <1>9, <2>2 DEF JobPost, ExpiredJobs
    <3>3. /\ \A k \in Job : JobTopic(k) \in {JobTopic(j)} => k = j
          /\ \A q \in Project : ProjectTopic(q) \notin {JobTopic(j)}
      BY Topics
    <3>4. MayReadJob(a, j)
      BY <3>2
    <3> QED
      BY <1>5, <3>1, <3>3, <3>4
  <2> QED
    BY <2>1, <2>2
<1>10. ASSUME NEW p \in Project, JobHire(p)
       PROVE  /\ \A k \in Job : JobTopic(k) \in subs'[a] => MayReadJob(a, k)
              /\ \A q \in Project : ProjectTopic(q) \in subs'[a] => MayReadProject(a, q)
  <2>1. PICK won \in SUBSET Applicant, jobs \in SUBSET Job : HireEffect(p, won, jobs)
    BY <1>10, HireRows
  <2>2. CASE a \notin won
    BY <1>7, <2>1, <2>2 DEF HireEffect
  <2>3. CASE a \in won
    <3>1. PICK j \in jobs : app[a].job = j
      BY <2>1, <2>3 DEF HireEffect
    <3>2. subs'[a] \subseteq subs[a] \cup {JobTopic(j), ProjectTopic(p)}
      BY <2>1, <2>3, <3>1 DEF HireEffect
    <3>3. job[j].project = p
      BY <2>1 DEF HireEffect
    <3>4. job[j] \in JobRow
      BY DEF IInv, Rows
    <3>5. PICK e \in won : /\ \A b \in won : app[b].job = j => b = e
                           /\ job'[j] = [job[j] EXCEPT !.status = "filled", !.engineer = e]
      BY <2>1 DEF HireEffect
    <3>6. e = a
      BY <2>3, <3>1, <3>5
    <3>7. job'[j].status = "filled" /\ job'[j].project = p /\ job'[j].engineer = a
      BY <3>3, <3>4, <3>5, <3>6 DEF JobRow
    <3>8. MayReadJob(a, j) /\ MayReadProject(a, p)
      BY <3>7
    <3>9. /\ \A k \in Job : JobTopic(k) \in {JobTopic(j), ProjectTopic(p)} => k = j
          /\ \A q \in Project : ProjectTopic(q) \in {JobTopic(j), ProjectTopic(p)} => q = p
      BY Topics
    <3> QED
      BY <1>5, <3>2, <3>8, <3>9
  <2> QED
    BY <2>2, <2>3
<1> QED
  BY <1>7, <1>8, <1>9, <1>10, Cases, CloseRows DEF Expiry, Viewed, JobApply

-----------------------------------------------------------------------------
(* Theorems                                                                *)

\* The invariant, of a log that is a sequence.
LogInv == IInv /\ IsLog(log)

LEMMA InitInv == Init => LogInv
<1> SUFFICES ASSUME Init PROVE LogInv
  OBVIOUS
<1>1. IsLog(log)
  BY ListIsLog DEF Init
<1>2. Rows
  <2>1. job \in [Job -> JobRow]
    BY DEF Init, JobRow, JobStatus
  <2>2. app \in [Applicant -> AppRow]
    BY DEF Init, AppRow, AppStatus
  <2>3. subs \in [Agent -> SUBSET Channel] /\ overdue \subseteq Job /\ DOMAIN call = Agent
    BY DEF Init
  <2> QED
    BY <2>1, <2>2, <2>3 DEF Rows
<1>3. PostedJobs
  BY DEF Init, PostedJobs
<1>4. AppOrder
  BY DEF Init, AppOrder
<1>5. Closing
  BY DEF Init, Closing, Idle, Call
<1>6. OneEngineer
  BY DEF Init, OneEngineer
<1>7. NobodyLeftWaiting
  BY DEF Init, NobodyLeftWaiting
<1>8. Subscribed
  BY DEF Init, Subscribed
<1> QED
  BY <1>1, <1>2, <1>3, <1>4, <1>5, <1>6, <1>7, <1>8 DEF LogInv, IInv

LEMMA StepInv == LogInv /\ [Next]_vars => LogInv'
<1> SUFFICES ASSUME IInv, IsLog(log), [Next]_vars PROVE LogInv'
  BY DEF LogInv
<1>1. IsLog(log')
  BY LogStep
<1>2. (OneEngineer /\ NobodyLeftWaiting)'
  BY HiringStep
<1> QED
  BY <1>1, <1>2, RowsStep, PostedStep, OrderStep, ClosingStep, SubscribedStep DEF LogInv, IInv

LEMMA Always == Spec => []LogInv
BY InitInv, StepInv, PTL DEF Spec

\* What is said of the rows, of who was hired and of who is on which channel holds in
\* every state, however the commands interleave and whatever is killed between two
\* transactions.
THEOREM BoardInvariant == Spec => []IInv
<1>1. LogInv => IInv
  BY DEF LogInv
<1> QED
  BY <1>1, Always, PTL

\* _hire, _close_job and _expire: a job has one engineer, its engineer one job, and who
\* waits for an answer waits for an open job.
THEOREM OneEngineerPerJob == Spec => []Hiring
<1>1. LogInv => Hiring
  BY DEF LogInv, IInv, Hiring
<1> QED
  BY <1>1, Always, PTL



\* No transaction reopens a job, replaces its engineer or changes an answer.
THEOREM NothingUndone == Spec => NoWayBack
<1> DEFINE Onward ==
             /\ \A j \in Job : /\ job'[j].status \in Life(job[j].status)
                               /\ job[j].engineer # None => job'[j].engineer = job[j].engineer
             /\ \A a \in Applicant : app[a].status \in {"hired", "rejected"} => app'[a] = app[a]
<1>1. ASSUME IInv, IsLog(log), [Next]_vars PROVE Onward
  <2>1. \A j \in Job : JobGoesOn(j)
    BY <1>1, JobStep
  <2>2. ASSUME NEW a \in Applicant, app[a].status \in {"hired", "rejected"}
        PROVE  app'[a] = app[a]
    BY <1>1, <2>2, AppStep DEF AppGoesOn, AppIsNew
  <2> QED
    BY <2>1, <2>2 DEF JobGoesOn
<1>2. LogInv /\ [Next]_vars => [Onward]_vars
  BY <1>1 DEF LogInv
<1> QED
  BY <1>2, Always, PTL DEF Spec, NoWayBack

-----------------------------------------------------------------------------
(* The rows of a set in an order, and the greatest number of a set         *)

\* Rows whose numbers differ can be listed in the order of their numbers.
LEMMA Enumeration ==
  ASSUME NEW S, IsFiniteSet(S), NEW order,
         \A x \in S : order[x] \in Nat,
         \A x, y \in S : order[x] = order[y] => x = y
  PROVE  \E list \in [1..Cardinality(S) -> S] :
           \A m, n \in 1..Cardinality(S) : m < n => order[list[m]] < order[list[n]]
<1> DEFINE N == Cardinality(S)
           upTo(x) == {y \in S : order[y] <= order[x]}
           rank == [x \in S |-> Cardinality(upTo(x))]
           T == 1..N
<1>1. N \in Nat
  BY FS_CardinalityType
<1>2. ASSUME NEW x \in S
      PROVE  IsFiniteSet(upTo(x)) /\ Cardinality(upTo(x)) \in Nat /\ rank[x] \in T
  <2>1. IsFiniteSet(upTo(x)) /\ Cardinality(upTo(x)) <= N
    BY FS_Subset
  <2>2. x \in upTo(x)
    OBVIOUS
  <2>3. Cardinality(upTo(x)) # 0 /\ Cardinality(upTo(x)) \in Nat
    <3> HIDE DEF upTo
    <3> QED BY <2>1, <2>2, FS_EmptySet, FS_CardinalityType
  <2>4. rank[x] = Cardinality(upTo(x))
    OBVIOUS
  <2> HIDE DEF upTo, rank, N
  <2> QED BY <1>1, <2>1, <2>3, <2>4
<1>3. ASSUME NEW x \in S, NEW y \in S, order[x] < order[y]
      PROVE  rank[x] < rank[y]
  <2>1. upTo(x) \subseteq upTo(y) /\ y \in upTo(y) /\ y \notin upTo(x)
    <3>1. order[x] \in Nat /\ order[y] \in Nat
      OBVIOUS
    <3>2. \A z \in S : order[z] <= order[x] => order[z] <= order[y]
      BY <1>3, <3>1
    <3>3. order[y] <= order[y] /\ ~ (order[y] <= order[x])
      BY <1>3, <3>1
    <3> QED BY <3>2, <3>3
  <2>2. rank[x] = Cardinality(upTo(x)) /\ rank[y] = Cardinality(upTo(y))
    OBVIOUS
  <2>3. /\ IsFiniteSet(upTo(x)) /\ Cardinality(upTo(x)) \in Nat
        /\ IsFiniteSet(upTo(y)) /\ Cardinality(upTo(y)) \in Nat
    BY <1>2
  <2> HIDE DEF upTo, rank
  <2>4. Cardinality(upTo(x)) <= Cardinality(upTo(y)) /\ Cardinality(upTo(x)) # Cardinality(upTo(y))
    BY <2>1, <2>3, FS_Subset
  <2> QED BY <2>2, <2>3, <2>4
<1>4. rank \in [S -> T]
  BY <1>2
<1> HIDE DEF rank
<1>5. ASSUME NEW x \in S, NEW y \in S, rank[x] = rank[y] PROVE x = y
  <2>1. rank[x] \in Nat /\ rank[y] \in Nat /\ order[x] \in Nat /\ order[y] \in Nat
    BY <1>1, <1>4
  <2>2. order[x] = order[y]
    BY <1>3, <1>5, <2>1
  <2> QED BY <2>2
<1>6. \A n \in T : \E x \in S : rank[x] = n
  <2>1. rank \in Injection(S, T)
    BY <1>4, <1>5 DEF Injection, IsInjective
  <2>2. IsFiniteSet(T) /\ Cardinality(T) = N
    <3> HIDE DEF N
    <3> QED BY <1>1, FS_Interval
  <2>3. rank \in Surjection(S, T)
    BY <2>1, <2>2, FS_Injection
  <2> QED BY <2>3 DEF Surjection
<1> DEFINE list == [n \in T |-> CHOOSE x \in S : rank[x] = n]
<1>7. list \in [T -> S] /\ \A n \in T : rank[list[n]] = n
  BY <1>6
<1>8. ASSUME NEW m \in T, NEW n \in T, m < n
      PROVE  order[list[m]] < order[list[n]]
  <2>1. /\ list[m] \in S /\ list[n] \in S /\ rank[list[m]] = m /\ rank[list[n]] = n
        /\ m \in Nat /\ n \in Nat
    BY <1>7
  <2> HIDE DEF list
  <2>2. order[list[m]] \in Nat /\ order[list[n]] \in Nat
    BY <2>1
  <2>3. ~ (order[list[n]] < order[list[m]])
    BY <1>3, <1>8, <2>1
  <2>4. order[list[n]] # order[list[m]]
    BY <1>8, <2>1
  <2> QED BY <2>2, <2>3, <2>4
<1> HIDE DEF list
<1> QED BY <1>7, <1>8

\* `list` names every row of S once, in the order of their numbers.
Lists(list, S, order) ==
  /\ Cardinality(S) \in Nat
  /\ list \in [1..Cardinality(S) -> S]
  /\ \A m, n \in 1..Cardinality(S) : list[m] = list[n] => m = n
  /\ \A x \in S : \E n \in 1..Cardinality(S) : list[n] = x
  /\ \A m, n \in 1..Cardinality(S) : m < n => order[list[m]] < order[list[n]]
LEMMA InOrderLists ==
  ASSUME NEW S, IsFiniteSet(S), NEW order,
         \A x \in S : order[x] \in Nat,
         \A x, y \in S : order[x] = order[y] => x = y
  PROVE  Lists(InOrder(S, order), S, order)
<1> DEFINE turn == InOrder(S, order)
           T == 1..Cardinality(S)
<1>1. turn \in [T -> S] /\ \A m, n \in T : m < n => order[turn[m]] < order[turn[n]]
  BY Enumeration DEF InOrder
<1>2. Cardinality(S) \in Nat
  BY FS_CardinalityType
<1> HIDE DEF turn
<1>3. ASSUME NEW m \in T, NEW n \in T, turn[m] = turn[n] PROVE m = n
  <2>1. order[turn[m]] \in Nat /\ order[turn[n]] \in Nat
    BY <1>1
  <2>2. ~ (m < n) /\ ~ (n < m)
    BY <1>1, <1>3, <2>1
  <2> QED BY <2>2
<1>4. IsFiniteSet(T) /\ Cardinality(T) = Cardinality(S)
  BY <1>2, FS_Interval
<1> HIDE DEF T
<1>5. turn \in Injection(T, S)
  BY <1>1, <1>3 DEF Injection, IsInjective
<1>6. turn \in Surjection(T, S)
  BY <1>4, <1>5, FS_Injection
<1>7. \A x \in S : \E n \in T : turn[n] = x
  BY <1>6 DEF Surjection
<1> QED BY <1>1, <1>2, <1>3, <1>7 DEF turn, T, Lists

\* A finite set of numbers that is not empty has a greatest one.
LEMMA Greatest ==
  ASSUME NEW S \in SUBSET Nat, IsFiniteSet(S), S # {}
  PROVE  Max(S) \in S /\ \A x \in S : x <= Max(S)
<1> DEFINE order == [x \in S |-> x]
           N == Cardinality(S)
           list == InOrder(S, order)
<1>1. (\A x \in S : order[x] \in Nat) /\ \A x, y \in S : order[x] = order[y] => x = y
  OBVIOUS
<1>2. /\ N \in Nat /\ list \in [1..N -> S]
      /\ \A x \in S : \E n \in 1..N : list[n] = x
      /\ \A m, n \in 1..N : m < n => order[list[m]] < order[list[n]]
  <2> HIDE DEF order
  <2> HIDE DEF N, list
  <2>1. Lists(InOrder(S, order), S, order)
    BY <1>1, InOrderLists
  <2> QED BY <2>1 DEF Lists, N, list
<1> HIDE DEF N, list, order
<1>3. N \in 1..N /\ list[N] \in S
  <2>1. PICK x : x \in S
    OBVIOUS
  <2>2. PICK n \in 1..N : list[n] = x
    BY <1>2, <2>1
  <2>3. N \in 1..N
    BY <1>2, <2>2
  <2> QED BY <1>2, <2>3
<1>4. ASSUME NEW x \in S PROVE x <= list[N]
  <2>1. PICK n \in 1..N : list[n] = x
    BY <1>2
  <2>2. n < N => order[x] < order[list[N]]
    BY <1>2, <1>3, <2>1
  <2>3. order[x] = x /\ order[list[N]] = list[N] /\ x \in Nat /\ list[N] \in Nat
    BY <1>3 DEF order
  <2> HIDE DEF order
  <2> QED BY <1>2, <2>1, <2>2, <2>3
<1>5. \E m \in S : \A x \in S : m >= x
  BY <1>3, <1>4
<1>6. Max(S) \in S /\ \A x \in S : Max(S) >= x
  BY <1>5 DEF Max
<1> QED BY <1>6
-----------------------------------------------------------------------------
(* The order in which the jobs were posted                                 *)

PostOrder ==
  /\ \A j \in Job : job[j].status # "none" => job[j].post < Len(log)
  /\ \A j, k \in Job :
       job[j].status # "none" /\ job[k].status # "none" /\ job[j].post = job[k].post => j = k

\* A job keeps the place it was posted at, and a new one comes after all that is there.
PostGoesOn(j) ==
  job'[j].post = job[j].post /\ (job[j].status = "none" <=> job'[j].status = "none")
PostIsNew(j) ==
  job[j].status = "none" /\ Len(log) <= job'[j].post /\ job'[j].post < Len(log')

LEMMA SamePost ==
  ASSUME NEW r \in JobRow, NEW s, NEW n
  PROVE  /\ [r EXCEPT !.status = s].post = r.post
         /\ [r EXCEPT !.views = n].post = r.post
         /\ [r EXCEPT !.status = s].status = s
         /\ [r EXCEPT !.views = n].status = r.status
BY DEF JobRow

LEMMA PostStep ==
  ASSUME IInv, IsLog(log), [Next]_vars
  PROVE  \/ \A j \in Job : PostGoesOn(j)
         \/ \E x \in Job : PostIsNew(x) /\ \A j \in Job \ {x} : PostGoesOn(j)
<1>1. \A j \in Job : job[j] \in JobRow
  BY DEF IInv, Rows
<1>2. DOMAIN job = Job
  BY DEF IInv, Rows
<1>3. ASSUME NEW j \in Job
      PROVE  /\ ExpiredJobs[j].post = job[j].post
             /\ ExpiredJobs[j].status = "none" <=> job[j].status = "none"
  <2>1. CASE j \in TooOld
    <3>1. ExpiredJobs[j] = [job[j] EXCEPT !.status = "expired"] /\ job[j].status = "open"
      BY <2>1 DEF ExpiredJobs, TooOld
    <3> QED BY <1>1, <3>1, SamePost
  <2>2. CASE j \notin TooOld
    BY <2>2 DEF ExpiredJobs
  <2> QED BY <2>1, <2>2
<1>4. CASE UNCHANGED job
  BY <1>4 DEF PostGoesOn
<1>5. CASE job' = ExpiredJobs
  BY <1>3, <1>5 DEF PostGoesOn
<1>6. ASSUME NEW k \in Job, Viewed(k) PROVE \A j \in Job : PostGoesOn(j)
  <2> TAKE j \in Job
  <2>1. job'[j] = IF j = k THEN [job[k] EXCEPT !.views = job[k].views + 1] ELSE job[j]
    BY <1>2, <1>6 DEF Viewed
  <2> QED BY <1>1, <2>1, SamePost DEF PostGoesOn
<1>7. ASSUME NEW p \in Project, NEW x \in Job, JobPost(p, x)
      PROVE  PostIsNew(x) /\ \A j \in Job \ {x} : PostGoesOn(j)
  <2> DEFINE new == [status |-> "open", project |-> p, engineer |-> None,
                     post |-> Len(log) + Len(ExpiryMsgs), views |-> 0]
             msg == System(Lobby, "JOB")
  <2>1. job[x].status = "none" /\ job' = [ExpiredJobs EXCEPT ![x] = new]
    BY <1>7 DEF JobPost
  <2>2. Post(ExpiryMsgs \o <<msg>>)
    BY <1>7 DEF JobPost
  <2>3. DOMAIN ExpiredJobs = Job
    BY DEF ExpiredJobs
  <2>4. new.post = Len(log) + Len(ExpiryMsgs)
    OBVIOUS
  <2> HIDE DEF msg, new
  <2>5. IsLog(ExpiryMsgs) /\ IsLog(<<msg>>) /\ Len(<<msg>>) = 1
    BY ExpiryIsLog, ListIsLog DEF IInv
  <2>6. IsLog(ExpiryMsgs \o <<msg>>) /\ Len(ExpiryMsgs \o <<msg>>) = Len(ExpiryMsgs) + 1
    BY <2>5, Concat
  <2>7. Len(log) \in Nat /\ Len(log') = Len(log) + (Len(ExpiryMsgs) + 1) /\ Len(ExpiryMsgs) \in Nat
    BY <2>2, <2>6, PostGrows, ExpiryIsLog DEF IInv
  <2>8. job'[x] = new /\ \A j \in Job \ {x} : job'[j] = ExpiredJobs[j]
    BY <2>1, <2>3
  <2>9. PostIsNew(x)
    BY <2>1, <2>4, <2>7, <2>8 DEF PostIsNew
  <2> QED BY <1>3, <2>8, <2>9 DEF PostGoesOn
<1>8. ASSUME NEW p \in Project, JobHire(p) PROVE \A j \in Job : PostGoesOn(j)
  <2>1. PICK won \in SUBSET Applicant, jobs \in SUBSET Job : HireEffect(p, won, jobs)
    BY <1>8, HireRows
  <2>4. ASSUME NEW j \in jobs
        PROVE  job[j].status = "open" /\ job'[j].post = job[j].post /\ job'[j].status = "filled"
    <3>1. PICK e : job'[j] = [job[j] EXCEPT !.status = "filled", !.engineer = e]
      BY <2>1, Zenon DEF HireEffect
    <3>2. job[j].status = "open"
      BY <2>1, Zenon DEF HireEffect
    <3>3. job[j] \in JobRow
      BY <1>1
    <3> QED BY <3>1, <3>2, <3>3 DEF JobRow
  <2>5. \A j \in Job \ jobs : job'[j] = job[j]
    BY <2>1, Zenon DEF HireEffect
  <2> TAKE j \in Job
  <2>2. CASE j \in jobs
    BY <2>2, <2>4 DEF PostGoesOn
  <2>3. CASE j \notin jobs
    BY <2>5, <2>3 DEF PostGoesOn
  <2> QED BY <2>2, <2>3
<1>9. ASSUME NEW p \in Project, JobClose(p) PROVE \A j \in Job : PostGoesOn(j)
  <2>1. PICK k \in Job : job[k].status # "none" /\ job' = [job EXCEPT ![k].status = "closed"]
    BY <1>9, CloseRows
  <2> TAKE j \in Job
  <2>2. job'[j] = IF j = k THEN [job[k] EXCEPT !.status = "closed"] ELSE job[j]
    BY <1>2, <2>1
  <2> QED BY <1>1, <2>1, <2>2, SamePost DEF PostGoesOn
<1> QED
  BY <1>4, <1>5, <1>6, <1>7, <1>8, <1>9, Cases DEF Quiet, Expiry, JobApply

LEMMA PostOrderStep ==
  ASSUME IInv, IsLog(log), PostOrder, [Next]_vars
  PROVE  PostOrder'
<1>1. Len(log) \in Nat /\ Len(log') \in Nat /\ Len(log) <= Len(log')
  BY LogStep
<1>2. \A j \in Job : job[j].post \in Nat /\ job'[j].post \in Nat
  BY JobStep, JobFields DEF IInv, Rows
<1>3. ASSUME NEW j \in Job, PostGoesOn(j), job'[j].status # "none"
      PROVE  job[j].status # "none" /\ job'[j].post = job[j].post /\ job[j].post < Len(log)
  BY <1>3 DEF PostGoesOn, PostOrder
<1>4. CASE \A j \in Job : PostGoesOn(j)
  BY <1>1, <1>2, <1>3, <1>4 DEF PostOrder
<1>5. CASE \E x \in Job : PostIsNew(x) /\ \A j \in Job \ {x} : PostGoesOn(j)
  <2>1. PICK x \in Job : PostIsNew(x) /\ \A j \in Job \ {x} : PostGoesOn(j)
    BY <1>5
  <2>2. Len(log) <= job'[x].post /\ job'[x].post < Len(log')
    BY <2>1 DEF PostIsNew
  <2>3. ASSUME NEW j \in Job, job'[j].status # "none"
        PROVE  job'[j].post < Len(log')
    BY <1>1, <1>2, <1>3, <2>1, <2>2, <2>3
  <2>4. ASSUME NEW j \in Job, NEW k \in Job,
               job'[j].status # "none", job'[k].status # "none", job'[j].post = job'[k].post
        PROVE  j = k
    <3>1. j # x /\ k # x => j = k
      BY <1>3, <2>1, <2>4 DEF PostOrder
    <3>2. j = x /\ k # x => FALSE
      BY <1>1, <1>2, <1>3, <2>1, <2>2, <2>4
    <3>3. k = x /\ j # x => FALSE
      BY <1>1, <1>2, <1>3, <2>1, <2>2, <2>4
    <3> QED BY <3>1, <3>2, <3>3
  <2> QED BY <2>3, <2>4 DEF PostOrder
<1> QED BY <1>4, <1>5, PostStep
-----------------------------------------------------------------------------
(* What the transactions post                                              *)

Kinds == {"SAY", "APPLY", "HIRED", "REJECTED", "CLOSED", "EXPIRED", "PROJECT", "JOB", "FILLED"}

\* A message of a known kind; the channel of a job is not used before the job is posted,
\* and what an agent writes in a channel is from a member.
FineMsg(m) ==
  /\ m.kind \in Kinds
  /\ \A j \in Job : m.topic = JobTopic(j) => job[j].status # "none"
  /\ m.from = "mb" \/ (m.from \in Agent /\ Member(m.from, m.topic))
Fine(msgs) == IsLog(msgs) /\ \A n \in 1..Len(msgs) : FineMsg(msgs[n])

\* The answers to an applicant among some messages.
Answers(msgs, a) ==
  {n \in 1..Len(msgs) : msgs[n].topic = AgentTopic(a) /\ msgs[n].kind \in {"HIRED", "REJECTED"}}
OneAnswer(msgs, a, kind) ==
  \E n \in 1..Len(msgs) : Answers(msgs, a) = {n} /\ msgs[n].kind = kind

LEMMA MsgFields ==
  ASSUME NEW t, NEW f, NEW k
  PROVE  /\ Msg(t, f, k).topic = t /\ Msg(t, f, k).from = f /\ Msg(t, f, k).kind = k
         /\ System(t, k) = Msg(t, "mb", k)
BY DEF Msg, System

LEMMA AgentTopics ==
  /\ \A a, b : AgentTopic(a) = AgentTopic(b) => a = b
  /\ \A a, j : AgentTopic(a) # JobTopic(j) /\ AgentTopic(a) # ProjectTopic(j)
  /\ \A a : AgentTopic(a) # Lobby /\ AgentTopic(a) # All
  /\ \A j : JobTopic(j) # Lobby /\ JobTopic(j) # All /\ ProjectTopic(j) # All
BY DEF AgentTopic, JobTopic, ProjectTopic, Lobby, All

LEMMA ConcatAt ==
  ASSUME NEW s, NEW t, IsLog(s), IsLog(t)
  PROVE  /\ IsLog(s \o t) /\ Len(s) \in Nat /\ Len(t) \in Nat
         /\ Len(s \o t) = Len(s) + Len(t)
         /\ DOMAIN s = 1..Len(s)
         /\ \A n \in 1..Len(s) : (s \o t)[n] = s[n]
         /\ \A n \in 1..Len(t) : (s \o t)[Len(s) + n] = t[n]
<1>1. PICK S : s \in Seq(S)
  BY DEF IsLog
<1>2. PICK T : t \in Seq(T)
  BY DEF IsLog
<1>3. s \in Seq(S \cup T) /\ t \in Seq(S \cup T)
  BY <1>1, <1>2, SeqDef
<1>4. Len(s) \in Nat /\ Len(t) \in Nat /\ DOMAIN s = 1..Len(s)
  BY <1>1, <1>2, LenProperties
<1>5. \A n \in 1..(Len(s) + Len(t)) : (s \o t)[n] = IF n <= Len(s) THEN s[n] ELSE t[n - Len(s)]
  BY <1>3, ConcatProperties
<1>6. ASSUME NEW n \in 1..Len(s) PROVE (s \o t)[n] = s[n]
  BY <1>4, <1>5
<1>7. ASSUME NEW n \in 1..Len(t) PROVE (s \o t)[Len(s) + n] = t[n]
  <2>1. Len(s) + n \in 1..(Len(s) + Len(t)) /\ ~ (Len(s) + n <= Len(s)) /\ (Len(s) + n) - Len(s) = n
    BY <1>4
  <2> QED BY <1>5, <2>1
<1> QED BY <1>4, <1>6, <1>7, Concat

\* Messages are posted one after the other.
LEMMA FineConcat ==
  ASSUME NEW s, NEW t, Fine(s), Fine(t)
  PROVE  Fine(s \o t)
<1>1. IsLog(s) /\ IsLog(t)
  BY DEF Fine
<1>2. ASSUME NEW n \in 1..Len(s \o t) PROVE FineMsg((s \o t)[n])
  <2>1. CASE n \in 1..Len(s)
    <3>1. (s \o t)[n] = s[n] /\ FineMsg(s[n])
      BY <1>1, <2>1, ConcatAt DEF Fine
    <3> QED BY <3>1
  <2>2. CASE n \notin 1..Len(s)
    <3>1. PICK m \in 1..Len(t) : n = Len(s) + m
      <4>1. /\ n - Len(s) \in 1..Len(t) /\ n = Len(s) + (n - Len(s))
        BY <1>1, <2>2, ConcatAt
      <4> QED BY <4>1
    <3>2. (s \o t)[n] = t[m] /\ FineMsg(t[m])
      BY <1>1, <3>1, ConcatAt DEF Fine
    <3> QED BY <3>2
  <2> QED BY <2>1, <2>2
<1> QED BY <1>1, <1>2, ConcatAt DEF Fine

LEMMA AnswersConcat ==
  ASSUME NEW s, NEW t, IsLog(s), IsLog(t), NEW a
  PROVE  /\ Answers(s, a) = {} /\ Answers(t, a) = {} => Answers(s \o t, a) = {}
         /\ \A k : OneAnswer(s, a, k) /\ Answers(t, a) = {} => OneAnswer(s \o t, a, k)
         /\ \A k : Answers(s, a) = {} /\ OneAnswer(t, a, k) => OneAnswer(s \o t, a, k)
<1> DEFINE w == s \o t
<1>1. /\ Len(s) \in Nat /\ Len(t) \in Nat /\ Len(w) = Len(s) + Len(t)
      /\ \A n \in 1..Len(s) : w[n] = s[n]
      /\ \A n \in 1..Len(t) : w[Len(s) + n] = t[n]
  BY ConcatAt
<1> HIDE DEF w
<1>2. \A n \in 1..Len(s) : n \in 1..Len(w) /\ (n \in Answers(w, a) <=> n \in Answers(s, a))
  BY <1>1 DEF Answers
<1>3. ASSUME NEW n \in 1..Len(t)
      PROVE  Len(s) + n \in 1..Len(w) /\ (Len(s) + n \in Answers(w, a) <=> n \in Answers(t, a))
  BY <1>1 DEF Answers
<1>4. ASSUME NEW n \in Answers(w, a)
      PROVE  n \in Answers(s, a) \/ \E m \in Answers(t, a) : n = Len(s) + m
  <2>1. n \in 1..Len(w)
    BY DEF Answers
  <2>2. CASE n \in 1..Len(s)
    BY <1>2, <2>2
  <2>3. CASE n \notin 1..Len(s)
    <3>1. n - Len(s) \in 1..Len(t) /\ n = Len(s) + (n - Len(s))
      BY <1>1, <2>1, <2>3
    <3>2. n - Len(s) \in Answers(t, a)
      BY <1>3, <3>1
    <3> QED BY <3>1, <3>2
  <2> QED BY <2>2, <2>3
<1>5. Answers(s, a) \subseteq 1..Len(s) /\ Answers(t, a) \subseteq 1..Len(t)
  BY DEF Answers
<1>6. Answers(s, a) = {} /\ Answers(t, a) = {} => Answers(w, a) = {}
  BY <1>4
<1>7. ASSUME NEW k, OneAnswer(s, a, k), Answers(t, a) = {} PROVE OneAnswer(w, a, k)
  <2>1. PICK n \in 1..Len(s) : Answers(s, a) = {n} /\ s[n].kind = k
    BY <1>7 DEF OneAnswer
  <2>2. Answers(w, a) = {n} /\ w[n].kind = k /\ n \in 1..Len(w)
    BY <1>1, <1>2, <1>4, <1>7, <2>1
  <2> QED BY <2>2 DEF OneAnswer
<1>8. ASSUME NEW k, Answers(s, a) = {}, OneAnswer(t, a, k) PROVE OneAnswer(w, a, k)
  <2>1. PICK n \in 1..Len(t) : Answers(t, a) = {n} /\ t[n].kind = k
    BY <1>8 DEF OneAnswer
  <2>2. Len(s) + n \in Answers(w, a) /\ w[Len(s) + n].kind = k /\ Len(s) + n \in 1..Len(w)
    BY <1>1, <1>3, <2>1
  <2>3. Answers(w, a) = {Len(s) + n}
    BY <1>4, <1>8, <2>1, <2>2
  <2> QED BY <2>2, <2>3 DEF OneAnswer
<1> QED BY <1>6, <1>7, <1>8 DEF w

\* A list of one message or two.
LEMMA ShortLists ==
  ASSUME NEW x, NEW y
  PROVE  /\ FineMsg(x) => Fine(<<x>>)
         /\ FineMsg(x) /\ FineMsg(y) => Fine(<<x, y>>)
         /\ \A a : x.kind \notin {"HIRED", "REJECTED"} => Answers(<<x>>, a) = {}
         /\ \A a : x.kind \notin {"HIRED", "REJECTED"} /\ y.kind \notin {"HIRED", "REJECTED"}
                     => Answers(<<x, y>>, a) = {}
<1>1. /\ IsLog(<<x>>) /\ Len(<<x>>) = 1 /\ <<x>>[1] = x
      /\ IsLog(<<x, y>>) /\ Len(<<x, y>>) = 2 /\ <<x, y>>[1] = x /\ <<x, y>>[2] = y
  BY ListIsLog
<1>2. FineMsg(x) => Fine(<<x>>)
  BY <1>1 DEF Fine
<1>3. FineMsg(x) /\ FineMsg(y) => Fine(<<x, y>>)
  <2>1. \A n \in 1..2 : n = 1 \/ n = 2
    OBVIOUS
  <2> QED BY <1>1, <2>1 DEF Fine
<1>4. ASSUME NEW a, x.kind \notin {"HIRED", "REJECTED"} PROVE Answers(<<x>>, a) = {}
  BY <1>1, <1>4 DEF Answers
<1>5. ASSUME NEW a, x.kind \notin {"HIRED", "REJECTED"}, y.kind \notin {"HIRED", "REJECTED"}
      PROVE  Answers(<<x, y>>, a) = {}
  <2>1. \A n \in 1..2 : n = 1 \/ n = 2
    OBVIOUS
  <2> QED BY <1>1, <1>5, <2>1 DEF Answers
<1> QED BY <1>2, <1>3, <1>4, <1>5

\* _expire posts to the lobby.
LEMMA ExpiryFine ==
  ASSUME Rows
  PROVE  Fine(ExpiryMsgs) /\ \A a : Answers(ExpiryMsgs, a) = {}
<1>1. IsLog(ExpiryMsgs)
  BY ExpiryIsLog
<1>2. Cardinality(TooOld) \in Nat
  <2>1. TooOld \in SUBSET Job
    BY DEF TooOld, Rows
  <2> QED BY <2>1, Finite
<1>3. Len(ExpiryMsgs) = Cardinality(TooOld)
  <2>1. ExpiryMsgs = [n \in 1..Cardinality(TooOld) |-> ExpiryMsgs[n]]
    BY DEF ExpiryMsgs
  <2> QED BY <1>2, <2>1, FcnIsLog
<1>4. \A n \in 1..Len(ExpiryMsgs) : ExpiryMsgs[n] = Msg(Lobby, "mb", "EXPIRED")
  BY <1>3 DEF ExpiryMsgs, System
<1>5. FineMsg(Msg(Lobby, "mb", "EXPIRED"))
  BY MsgFields, AgentTopics DEF FineMsg, Kinds
<1>6. Fine(ExpiryMsgs)
  BY <1>1, <1>4, <1>5 DEF Fine
<1>7. ASSUME NEW a PROVE Answers(ExpiryMsgs, a) = {}
  BY <1>4, MsgFields, AgentTopics DEF Answers
<1> QED BY <1>6, <1>7

\* REJECTED for each of the losers, and for nobody else.
LEMMA RejectionsAre ==
  ASSUME Rows, AppOrder, NEW losers \in SUBSET Applicant,
         \A a \in losers : app[a].status # "none"
  PROVE  /\ Fine(Rejections(losers))
         /\ \A a \in losers : OneAnswer(Rejections(losers), a, "REJECTED")
         /\ \A a : a \notin losers => Answers(Rejections(losers), a) = {}
<1> DEFINE order == [a \in Applicant |-> app[a].seq]
           turn == InOrder(losers, order)
           N == Cardinality(losers)
           msgs == Rejections(losers)
<1>1. /\ \A x \in losers : order[x] \in Nat
      /\ \A x, y \in losers : order[x] = order[y] => x = y
  BY AppFields DEF Rows, AppOrder
<1>2. IsFiniteSet(losers)
  BY FS_Subset, BoardAssumption DEF BoardAssumption
<1>3. msgs = [n \in 1..N |-> Msg(AgentTopic(turn[n]), "mb", "REJECTED")]
  BY DEF Rejections, System
<1> HIDE DEF order
<1> HIDE DEF turn, N, msgs
<1>4. /\ N \in Nat /\ turn \in [1..N -> losers]
      /\ \A m, n \in 1..N : turn[m] = turn[n] => m = n
      /\ \A x \in losers : \E n \in 1..N : turn[n] = x
  <2>1. Lists(InOrder(losers, order), losers, order)
    BY <1>1, <1>2, InOrderLists
  <2> QED BY <2>1 DEF Lists, N, turn
<1>5. IsLog(msgs) /\ Len(msgs) = N
  <2>1. msgs = [n \in 1..N |-> msgs[n]]
    BY <1>3
  <2> QED BY <1>4, <2>1, FcnIsLog
<1>6. ASSUME NEW n \in 1..N
      PROVE  /\ msgs[n].topic = AgentTopic(turn[n]) /\ msgs[n].kind = "REJECTED"
             /\ msgs[n].from = "mb"
  BY <1>3, MsgFields
<1>7. Fine(msgs)
  BY <1>5, <1>6, AgentTopics DEF Fine, FineMsg, Kinds
<1>8. ASSUME NEW a \in losers PROVE OneAnswer(msgs, a, "REJECTED")
  <2>1. PICK n \in 1..N : turn[n] = a
    BY <1>4
  <2>2. Answers(msgs, a) = {n}
    BY <1>4, <1>5, <1>6, <2>1, AgentTopics DEF Answers
  <2> QED BY <1>5, <1>6, <2>2 DEF OneAnswer
<1>9. ASSUME NEW a, a \notin losers PROVE Answers(msgs, a) = {}
  BY <1>4, <1>5, <1>6, <1>9, AgentTopics DEF Answers
<1> QED BY <1>7, <1>8, <1>9 DEF msgs

LEMMA Thirds ==
  ASSUME NEW K \in Nat, NEW n \in 1..(3 * K)
  PROVE  /\ (n + 2) \div 3 \in 1..K
         /\ n % 3 = 0 \/ n % 3 = 1 \/ n % 3 = 2
         /\ \A i \in 1..K : n % 3 = 1 /\ (n + 2) \div 3 = i <=> n = 3 * i - 2
OBVIOUS

LEMMA FirstOfThree ==
  ASSUME NEW K \in Nat, NEW i \in 1..K
  PROVE  /\ 3 * i - 2 \in 1..(3 * K)
         /\ (3 * i - 2) % 3 = 1 /\ ((3 * i - 2) + 2) \div 3 = i
OBVIOUS
\* Three messages for each winner: HIRED for itself and for the channel of its job, and
\* FILLED for the lobby.
LEMMA HiringsAre ==
  ASSUME Rows, PostOrder, NEW won \in SUBSET Applicant,
         \A a \in won : app[a].job \in Job /\ job[app[a].job].status # "none",
         \A a, b \in won : app[a].job = app[b].job => a = b
  PROVE  /\ Fine(Hirings(won))
         /\ \A a \in won : OneAnswer(Hirings(won), a, "HIRED")
         /\ \A a : a \notin won => Answers(Hirings(won), a) = {}
<1> DEFINE order == [a \in won |-> job[app[a].job].post]
           turn == InOrder(won, order)
           K == Cardinality(won)
           msgs == Hirings(won)
           Sent(a) == <<Msg(Lobby, "mb", "FILLED"), Msg(AgentTopic(a), "mb", "HIRED"),
                        Msg(JobTopic(app[a].job), "mb", "HIRED")>>
<1>1. /\ \A x \in won : order[x] \in Nat
      /\ \A x, y \in won : order[x] = order[y] => x = y
  <2>1. \A x \in won : order[x] = job[app[x].job].post /\ job[app[x].job] \in JobRow
    BY DEF Rows
  <2> HIDE DEF order
  <2>2. \A x \in won : order[x] \in Nat
    BY <2>1, JobFields
  <2>3. \A x, y \in won : order[x] = order[y] => app[x].job = app[y].job
    BY <2>1 DEF PostOrder
  <2> QED BY <2>2, <2>3
<1>2. IsFiniteSet(won)
  BY FS_Subset, BoardAssumption DEF BoardAssumption
<1>3. msgs = [n \in 1..(3 * K) |-> Sent(turn[((n + 2) \div 3)])[1 + (n % 3)]]
  BY DEF Hirings, System
<1> HIDE DEF order
<1> HIDE DEF turn, K, msgs
<1>4. /\ K \in Nat /\ turn \in [1..K -> won]
      /\ \A m, n \in 1..K : turn[m] = turn[n] => m = n
      /\ \A x \in won : \E n \in 1..K : turn[n] = x
  <2>1. Lists(InOrder(won, order), won, order)
    BY <1>1, <1>2, InOrderLists
  <2> QED BY <2>1 DEF Lists, K, turn
<1>5. IsLog(msgs) /\ Len(msgs) = 3 * K
  <2>1. msgs = [n \in 1..(3 * K) |-> msgs[n]]
    BY <1>3
  <2>2. 3 * K \in Nat
    BY <1>4
  <2> QED BY <2>1, <2>2, FcnIsLog
<1>6. ASSUME NEW n \in 1..(3 * K)
      PROVE  LET a == turn[(n + 2) \div 3]
             IN  /\ a \in won
                 /\ n % 3 = 0 => msgs[n] = Msg(Lobby, "mb", "FILLED")
                 /\ n % 3 = 1 => msgs[n] = Msg(AgentTopic(a), "mb", "HIRED")
                 /\ n % 3 = 2 => msgs[n] = Msg(JobTopic(app[a].job), "mb", "HIRED")
  <2> DEFINE a == turn[(n + 2) \div 3]
  <2>1. a \in won
    BY <1>4, Thirds
  <2>2. msgs[n] = Sent(a)[1 + (n % 3)]
    BY <1>3
  <2> HIDE DEF a
  <2>3. n % 3 = 0 => msgs[n] = Msg(Lobby, "mb", "FILLED")
    BY <2>2
  <2>4. n % 3 = 1 => msgs[n] = Msg(AgentTopic(a), "mb", "HIRED")
    BY <2>2
  <2>5. n % 3 = 2 => msgs[n] = Msg(JobTopic(app[a].job), "mb", "HIRED")
    BY <2>2
  <2> QED BY <2>1, <2>3, <2>4, <2>5 DEF a
<1>7. ASSUME NEW n \in 1..(3 * K) PROVE FineMsg(msgs[n])
  <2> DEFINE a == turn[(n + 2) \div 3]
  <2>1. /\ a \in won
        /\ n % 3 = 0 => msgs[n] = Msg(Lobby, "mb", "FILLED")
        /\ n % 3 = 1 => msgs[n] = Msg(AgentTopic(a), "mb", "HIRED")
        /\ n % 3 = 2 => msgs[n] = Msg(JobTopic(app[a].job), "mb", "HIRED")
    BY <1>6
  <2>2. n % 3 = 0 \/ n % 3 = 1 \/ n % 3 = 2
    BY <1>4, Thirds
  <2> HIDE DEF a
  <2>3. CASE n % 3 = 0
    BY <2>1, <2>3, MsgFields, AgentTopics DEF FineMsg, Kinds
  <2>4. CASE n % 3 = 1
    BY <2>1, <2>4, MsgFields, AgentTopics DEF FineMsg, Kinds
  <2>5. CASE n % 3 = 2
    <3>1. job[app[a].job].status # "none"
      BY <2>1
    <3> QED BY <2>1, <2>5, <3>1, MsgFields, Topics DEF FineMsg, Kinds
  <2> QED BY <2>2, <2>3, <2>4, <2>5
<1>8. ASSUME NEW a, NEW n \in 1..(3 * K)
      PROVE  n \in Answers(msgs, a) <=> n % 3 = 1 /\ turn[(n + 2) \div 3] = a
  <2> DEFINE b == turn[(n + 2) \div 3]
  <2>1. /\ b \in won
        /\ n % 3 = 0 => msgs[n] = Msg(Lobby, "mb", "FILLED")
        /\ n % 3 = 1 => msgs[n] = Msg(AgentTopic(b), "mb", "HIRED")
        /\ n % 3 = 2 => msgs[n] = Msg(JobTopic(app[b].job), "mb", "HIRED")
    BY <1>6
  <2>2. n % 3 = 0 \/ n % 3 = 1 \/ n % 3 = 2
    BY <1>4, Thirds
  <2>3. n \in Answers(msgs, a)
          <=> msgs[n].topic = AgentTopic(a) /\ msgs[n].kind \in {"HIRED", "REJECTED"}
    BY <1>5 DEF Answers
  <2> HIDE DEF b
  <2>4. n % 3 = 0 => n \notin Answers(msgs, a)
    BY <2>1, <2>3, MsgFields, AgentTopics
  <2>5. n % 3 = 2 => n \notin Answers(msgs, a)
    BY <2>1, <2>3, MsgFields, AgentTopics
  <2>6. n % 3 = 1 => (n \in Answers(msgs, a) <=> b = a)
    BY <2>1, <2>3, MsgFields, AgentTopics
  <2> QED BY <2>2, <2>4, <2>5, <2>6 DEF b
<1>9. \A a : Answers(msgs, a) \subseteq 1..(3 * K)
  BY <1>5 DEF Answers
<1>10. ASSUME NEW a \in won PROVE OneAnswer(msgs, a, "HIRED")
  <2>1. PICK i \in 1..K : turn[i] = a
    BY <1>4
  <2> DEFINE n == 3 * i - 2
  <2>2. n \in 1..(3 * K) /\ n % 3 = 1 /\ (n + 2) \div 3 = i
    BY <1>4, FirstOfThree
  <2>3. ASSUME NEW m \in 1..(3 * K), m % 3 = 1, turn[(m + 2) \div 3] = a PROVE m = n
    <3>1. (m + 2) \div 3 \in 1..K
      BY <1>4, Thirds
    <3>2. (m + 2) \div 3 = i
      BY <1>4, <2>1, <2>3, <3>1
    <3> QED BY <1>4, <2>3, <3>2, Thirds
  <2>4. msgs[n].kind = "HIRED"
    <3>1. msgs[n] = Msg(AgentTopic(turn[(n + 2) \div 3]), "mb", "HIRED")
      BY <1>6, <2>2
    <3> QED BY <3>1, MsgFields
  <2> HIDE DEF n
  <2>5. Answers(msgs, a) = {n}
    BY <1>8, <1>9, <2>1, <2>2, <2>3
  <2> QED BY <1>5, <2>2, <2>4, <2>5 DEF OneAnswer
<1>11. ASSUME NEW a, a \notin won PROVE Answers(msgs, a) = {}
  <2>1. ASSUME NEW n \in Answers(msgs, a) PROVE FALSE
    <3>1. n \in 1..(3 * K)
      BY <1>9
    <3>2. turn[(n + 2) \div 3] = a
      BY <1>8, <3>1
    <3> QED BY <1>4, <1>11, <3>1, <3>2, Thirds
  <2> QED BY <2>1
<1> QED
  <2>1. Fine(msgs)
    BY <1>5, <1>7 DEF Fine
  <2> QED BY <1>10, <1>11, <2>1 DEF msgs
-----------------------------------------------------------------------------
(* What a step posts                                                       *)

\* The messages tell every applicant that is decided about what was decided.
Decisive(s) == s \in {"hired", "rejected"}
Answered(msgs) ==
  \A a \in Applicant :
    IF Decisive(app'[a].status) /\ ~Decisive(app[a].status)
    THEN OneAnswer(msgs, a, IF app'[a].status = "hired" THEN "HIRED" ELSE "REJECTED")
    ELSE Answers(msgs, a) = {}

\* Messages of which none is an answer, in a step that decides nothing.
NoAnswer(msgs) == \A a : Answers(msgs, a) = {}
Undecided == \A a \in Applicant : Decisive(app'[a].status) => Decisive(app[a].status)
LEMMA NothingToAnswer ==
  ASSUME NEW msgs, NoAnswer(msgs), Undecided PROVE Answered(msgs)
BY DEF NoAnswer, Undecided, Answered

\* What a step posts: fine messages, and without a job that expires the right answers.
Posted(msgs) ==
  /\ Fine(msgs) /\ log' = log \o msgs
  /\ TooOld = {} => Answered(msgs)

LEMMA NothingPosted ==
  ASSUME IsLog(log), UNCHANGED log, Undecided PROVE Posted(<< >>)
<1>1. log \o << >> = log
  <2>1. PICK S : log \in Seq(S)
    BY DEF IsLog
  <2> QED BY <2>1
<1>2. IsLog(<< >>) /\ Len(<< >>) = 0
  BY ListIsLog
<1>3. Fine(<< >>) /\ NoAnswer(<< >>)
  BY <1>2 DEF Fine, NoAnswer, Answers
<1> QED BY <1>1, <1>3, NothingToAnswer DEF Posted

LEMMA JustPosted ==
  ASSUME NEW msgs, Fine(msgs), NoAnswer(msgs), Post(msgs), TooOld = {} => Undecided
  PROVE  Posted(msgs)
BY NothingToAnswer DEF Posted, Post

\* One message, of the program or of a member of its channel.
LEMMA SystemFine ==
  ASSUME NEW t, NEW k \in Kinds, \A j \in Job : t = JobTopic(j) => job[j].status # "none",
         NEW f
  PROVE  /\ FineMsg(System(t, k)) /\ System(t, k).kind = k
         /\ f \in Agent /\ Member(f, t) => FineMsg(Msg(t, f, k))
         /\ Msg(t, f, k).kind = k
BY MsgFields DEF FineMsg

\* Expiry decides nothing when no job expires.
LEMMA ExpiredSame ==
  ASSUME Rows, TooOld = {}, NEW a \in Applicant PROVE ExpiredApps[a] = app[a]
BY ExpiryRows

LEMMA Hired ==
  ASSUME NEW r \in AppRow
  PROVE  /\ [r EXCEPT !.status = "hired"].status = "hired"
         /\ [r EXCEPT !.status = "rejected"].status = "rejected"
BY DEF AppRow

LEMMA HirePosted ==
  ASSUME IInv, PostOrder, NEW p \in Project, JobHire(p)
  PROVE  \E msgs : Posted(msgs)
<1>1. PICK won \in SUBSET Applicant, jobs \in SUBSET Job :
        HireEffect(p, won, jobs) /\ HireMail(p, won, jobs)
  BY HireRows
<1> DEFINE losers == (UNION {Pending(j) : j \in jobs}) \ won
           lost == Rejections(losers)
           hired == Hirings(won)
<1>2. losers \in SUBSET Applicant
  BY DEF Pending
<1>3. \A a \in Applicant : a \in losers <=>
        a \notin won /\ app[a].status = "pending" /\ app[a].job \in jobs
  BY DEF Pending
<1>4. Post(lost \o hired)
  BY <1>1, Zenon DEF HireMail, HireMsgs
<1>5. \A a \in won : app[a].status = "pending" /\ app[a].job \in jobs
                     /\ app'[a] = [app[a] EXCEPT !.status = "hired"]
  BY <1>1, Zenon DEF HireEffect
<1>6. \A j \in jobs : job[j].status = "open"
  BY <1>1, Zenon DEF HireEffect
<1>7. \A a, b \in won : app[a].job = app[b].job => a = b
  BY <1>1, Zenon DEF HireMail
<1>8. \A a \in Applicant \ won :
        app'[a] = IF a \in losers THEN [app[a] EXCEPT !.status = "rejected"] ELSE app[a]
  <2> HIDE DEF losers
  <2>1. \A a \in Applicant \ won :
          app'[a] = IF app[a].status = "pending" /\ app[a].job \in jobs
                    THEN [app[a] EXCEPT !.status = "rejected"] ELSE app[a]
    BY <1>1, Zenon DEF HireEffect
  <2> QED BY <1>3, <2>1
<1> HIDE DEF losers
<1>9. Rows /\ AppOrder
  BY DEF IInv
<1>10. /\ Fine(lost)
       /\ \A a \in losers : OneAnswer(lost, a, "REJECTED")
       /\ \A a : a \notin losers => Answers(lost, a) = {}
  <2>1. \A a \in losers : app[a].status # "none"
    BY <1>2, <1>3
  <2> QED BY <1>2, <1>9, <2>1, RejectionsAre
<1>11. /\ Fine(hired)
       /\ \A a \in won : OneAnswer(hired, a, "HIRED")
       /\ \A a : a \notin won => Answers(hired, a) = {}
  <2>1. \A a \in won : app[a].job \in Job /\ job[app[a].job].status # "none"
    BY <1>5, <1>6
  <2> QED BY <1>7, <1>9, <2>1, HiringsAre
<1> HIDE DEF lost, hired
<1>12. IsLog(lost) /\ IsLog(hired) /\ Fine(lost \o hired)
  BY <1>10, <1>11, FineConcat DEF Fine
<1>13. ASSUME NEW a \in Applicant
       PROVE  IF Decisive(app'[a].status) /\ ~Decisive(app[a].status)
              THEN OneAnswer(lost \o hired, a, IF app'[a].status = "hired" THEN "HIRED" ELSE "REJECTED")
              ELSE Answers(lost \o hired, a) = {}
  <2>1. app[a] \in AppRow /\ {"hired", "rejected"} \subseteq AppStatus
    BY <1>9 DEF Rows, AppStatus
  <2>2. CASE a \in won
    <3>1. app[a].status = "pending" /\ app'[a].status = "hired"
      BY <1>5, <2>1, <2>2, Hired
    <3>2. OneAnswer(lost \o hired, a, "HIRED")
      <4>1. a \notin losers
        BY <1>3, <2>2
      <4> QED BY <1>10, <1>11, <1>12, <2>2, <4>1, AnswersConcat
    <3> QED BY <3>1, <3>2 DEF Decisive
  <2>3. CASE a \in losers
    <3>1. a \notin won /\ app[a].status = "pending" /\ app'[a].status = "rejected"
      BY <1>3, <1>8, <2>1, <2>3, Hired
    <3>2. OneAnswer(lost \o hired, a, "REJECTED")
      BY <1>10, <1>11, <1>12, <2>3, <3>1, AnswersConcat
    <3> QED BY <3>1, <3>2 DEF Decisive
  <2>4. CASE a \notin won /\ a \notin losers
    <3>1. app'[a] = app[a]
      BY <1>8, <2>4
    <3>2. Answers(lost \o hired, a) = {}
      BY <1>10, <1>11, <1>12, <2>4, AnswersConcat
    <3> QED BY <3>1, <3>2
  <2> QED BY <2>2, <2>3, <2>4
<1>14. Posted(lost \o hired)
  BY <1>4, <1>12, <1>13 DEF Posted, Post, Answered
<1> QED BY <1>14

LEMMA ClosePosted ==
  ASSUME IInv, NEW p \in Project, JobClose(p)
  PROVE  \E msgs : Posted(msgs)
<1>1. PICK j \in Job :
        /\ job[j].status # "none"
        /\ \A a \in Applicant :
             app'[a] = IF app[a].status = "pending" /\ app[a].job = j
                       THEN [app[a] EXCEPT !.status = "rejected"] ELSE app[a]
        /\ Post(Rejections(Pending(j))
                  \o <<System(JobTopic(j), "CLOSED"), System(Lobby, "CLOSED")>>)
  BY CloseRows
<1> DEFINE losers == Pending(j)
           lost == Rejections(losers)
           two == <<System(JobTopic(j), "CLOSED"), System(Lobby, "CLOSED")>>
<1>2. /\ losers \in SUBSET Applicant
      /\ \A a \in Applicant : a \in losers <=> app[a].status = "pending" /\ app[a].job = j
  BY DEF Pending
<1>3. Rows /\ AppOrder
  BY DEF IInv
<1> HIDE DEF losers
<1>4. /\ Fine(lost)
      /\ \A a \in losers : OneAnswer(lost, a, "REJECTED")
      /\ \A a : a \notin losers => Answers(lost, a) = {}
  <2>1. \A a \in losers : app[a].status # "none"
    BY <1>2
  <2> QED BY <1>2, <1>3, <2>1, RejectionsAre
<1>5. Fine(two) /\ NoAnswer(two)
  <2>1. "CLOSED" \in Kinds
    BY DEF Kinds
  <2>2. FineMsg(System(JobTopic(j), "CLOSED")) /\ FineMsg(System(Lobby, "CLOSED"))
    BY <1>1, <2>1, SystemFine, Topics
  <2>3. System(JobTopic(j), "CLOSED").kind = "CLOSED" /\ System(Lobby, "CLOSED").kind = "CLOSED"
    BY MsgFields
  <2> QED BY <2>2, <2>3, ShortLists DEF NoAnswer
<1>6. Post(lost \o two)
  BY <1>1 DEF losers
<1> HIDE DEF lost, two
<1>7. IsLog(lost) /\ IsLog(two) /\ Fine(lost \o two)
  BY <1>4, <1>5, FineConcat DEF Fine
<1>8. ASSUME NEW a \in Applicant
      PROVE  IF Decisive(app'[a].status) /\ ~Decisive(app[a].status)
             THEN OneAnswer(lost \o two, a, IF app'[a].status = "hired" THEN "HIRED" ELSE "REJECTED")
             ELSE Answers(lost \o two, a) = {}
  <2>1. app[a] \in AppRow /\ "rejected" \in AppStatus
    BY <1>3 DEF Rows, AppStatus
  <2>2. CASE a \in losers
    <3>1. app[a].status = "pending" /\ app'[a].status = "rejected"
      BY <1>1, <1>2, <2>1, <2>2, Hired
    <3>2. OneAnswer(lost \o two, a, "REJECTED")
      BY <1>4, <1>5, <1>7, <2>2, AnswersConcat DEF NoAnswer
    <3> QED BY <3>1, <3>2 DEF Decisive
  <2>3. CASE a \notin losers
    <3>1. app'[a] = app[a]
      BY <1>1, <1>2, <2>3
    <3>2. Answers(lost \o two, a) = {}
      BY <1>4, <1>5, <1>7, <2>3, AnswersConcat DEF NoAnswer
    <3> QED BY <3>1, <3>2
  <2> QED BY <2>2, <2>3
<1>9. Posted(lost \o two)
  BY <1>6, <1>7, <1>8 DEF Posted, Post, Answered
<1> QED BY <1>9
LEMMA PostsStep ==
  ASSUME IInv, PostOrder, IsLog(log), [Next]_vars
  PROVE  \E msgs : Posted(msgs)
<1>1. Rows
  BY DEF IInv
<1>2. /\ Fine(ExpiryMsgs) /\ NoAnswer(ExpiryMsgs) /\ IsLog(ExpiryMsgs)
      /\ \A k \in {"SAY", "APPLY", "PROJECT", "JOB", "CLOSED"} :
           k \in Kinds /\ k \notin {"HIRED", "REJECTED"}
  BY <1>1, ExpiryFine DEF NoAnswer, Fine, Kinds
<1>3. UNCHANGED app => Undecided
  BY DEF Undecided
<1>4. app' = ExpiredApps => (TooOld = {} => Undecided)
  BY <1>1, ExpiredSame DEF Undecided
<1>5. CASE UNCHANGED <<app, log>>
  BY <1>3, <1>5, NothingPosted
<1>6. ASSUME NEW x, FineMsg(x), x.kind \notin {"HIRED", "REJECTED"}
      PROVE  /\ Fine(<<x>>) /\ NoAnswer(<<x>>)
             /\ Fine(ExpiryMsgs \o <<x>>) /\ NoAnswer(ExpiryMsgs \o <<x>>)
  <2>1. Fine(<<x>>) /\ NoAnswer(<<x>>)
    BY <1>6, ShortLists DEF NoAnswer
  <2>2. NoAnswer(ExpiryMsgs \o <<x>>)
    BY <1>2, <2>1, AnswersConcat DEF NoAnswer, Fine
  <2> QED BY <1>2, <2>1, <2>2, FineConcat
<1>7. ASSUME NEW a \in Agent, Say(a) PROVE \E msgs : Posted(msgs)
  <2>1. PICK t \in MaySay(a) : Post(<<Msg(t, a, "SAY")>>)
    BY <1>7 DEF Say
  <2>2. UNCHANGED app
    BY <1>7 DEF Say, board
  \* cmd_pub, _say_topic: the sender is a member of the channel.
  <2>3. Member(a, t)
    <3>1. CASE t \in subs[a]
      BY <3>1 DEF IInv, Subscribed
    <3>2. CASE t \notin subs[a]
      <4>1. t = All \/ \E b : t = AgentTopic(b)
        BY <3>2 DEF MaySay
      <4>2. \A j : t # JobTopic(j) /\ t # ProjectTopic(j)
        BY <4>1, AgentTopics
      <4> QED BY <4>2 DEF Member
    <3> QED BY <3>1, <3>2
  <2>4. FineMsg(Msg(t, a, "SAY")) /\ Msg(t, a, "SAY").kind = "SAY"
    <3>1. \A j \in Job : t = JobTopic(j) => job[j].status # "none"
      BY <2>3 DEF Member
    <3> QED BY <1>2, <2>3, <3>1, SystemFine
  <2>5. Posted(<<Msg(t, a, "SAY")>>)
    BY <1>2, <1>3, <1>6, <2>1, <2>2, <2>4, JustPosted
  <2> QED BY <2>5
<1>8. CASE app' = ExpiredApps /\ Post(ExpiryMsgs)
  <2>1. Posted(ExpiryMsgs)
    BY <1>2, <1>4, <1>8, JustPosted
  <2> QED BY <2>1
<1>9. ASSUME NEW p \in Project, ProjectPost(p) PROVE \E msgs : Posted(msgs)
  <2>1. Post(<<System(Lobby, "PROJECT")>>) /\ UNCHANGED app
    BY <1>9 DEF ProjectPost
  <2>2. FineMsg(System(Lobby, "PROJECT")) /\ System(Lobby, "PROJECT").kind = "PROJECT"
    BY <1>2, SystemFine, Topics
  <2>3. Posted(<<System(Lobby, "PROJECT")>>)
    BY <1>2, <1>3, <1>6, <2>1, <2>2, JustPosted
  <2> QED BY <2>3
<1>10. ASSUME NEW p \in Project, ProjectClose(p) PROVE \E msgs : Posted(msgs)
  <2> DEFINE x == System(ProjectTopic(p), "CLOSED")
             y == System(Lobby, "CLOSED")
  <2>1. Post(<<x, y>>) /\ UNCHANGED app
    BY <1>10 DEF ProjectClose
  <2>2. FineMsg(x) /\ FineMsg(y) /\ x.kind = "CLOSED" /\ y.kind = "CLOSED"
    BY <1>2, SystemFine, Topics
  <2> HIDE DEF x, y
  <2>3. Fine(<<x, y>>) /\ NoAnswer(<<x, y>>)
    BY <1>2, <2>2, ShortLists DEF NoAnswer
  <2>4. Posted(<<x, y>>)
    BY <1>3, <2>1, <2>3, JustPosted
  <2> QED BY <2>4
<1>11. ASSUME NEW p \in Project, NEW j \in Job, JobPost(p, j) PROVE \E msgs : Posted(msgs)
  <2> DEFINE x == System(Lobby, "JOB")
  <2>1. Post(ExpiryMsgs \o <<x>>) /\ app' = ExpiredApps
    BY <1>11 DEF JobPost
  <2>2. FineMsg(x) /\ x.kind = "JOB"
    BY <1>2, SystemFine, Topics
  <2> HIDE DEF x
  <2>3. Posted(ExpiryMsgs \o <<x>>)
    BY <1>2, <1>4, <1>6, <2>1, <2>2, JustPosted
  <2> QED BY <2>3
<1>12. ASSUME NEW a \in Applicant, NEW j \in Job, JobApply(a, j) PROVE \E msgs : Posted(msgs)
  <2> DEFINE x == Msg(AgentTopic(job[j].project), a, "APPLY")
             new == [status |-> "pending", job |-> j, seq |-> Len(log) + Len(ExpiryMsgs)]
  <2>1. Post(ExpiryMsgs \o <<x>>) /\ app' = [ExpiredApps EXCEPT ![a] = new]
    BY <1>12 DEF JobApply
  <2>2. FineMsg(x) /\ x.kind = "APPLY"
    <3>1. \A k : /\ AgentTopic(job[j].project) # JobTopic(k)
                 /\ AgentTopic(job[j].project) # ProjectTopic(k)
      BY AgentTopics
    <3> HIDE DEF new
    <3> DEFINE t == AgentTopic(job[j].project)
    <3>2. a \in Agent /\ Member(a, t)
      BY <3>1 DEF Agent, Member
    <3> HIDE DEF t
    <3>3. FineMsg(Msg(t, a, "APPLY")) /\ Msg(t, a, "APPLY").kind = "APPLY"
      BY <1>2, <3>1, <3>2, SystemFine DEF t
    <3> QED BY <3>3 DEF t
  <2>3. new.status = "pending"
    OBVIOUS
  <2> HIDE DEF x, new
  <2>4. DOMAIN ExpiredApps = Applicant
    BY DEF ExpiredApps
  <2>5. TooOld = {} => Undecided
    <3> SUFFICES ASSUME TooOld = {}, NEW b \in Applicant, Decisive(app'[b].status)
                 PROVE  Decisive(app[b].status)
      BY DEF Undecided
    <3>1. app'[b] = IF b = a THEN new ELSE app[b]
      BY <1>1, <2>1, <2>4, ExpiredSame
    <3> QED BY <2>3, <3>1 DEF Decisive
  <2>6. Posted(ExpiryMsgs \o <<x>>)
    BY <1>2, <1>6, <2>1, <2>2, <2>5, JustPosted
  <2> QED BY <2>6
<1> USE DEF board, mail
<1>13. ASSUME NEW a \in Agent, Sub(a) \/ Ack(a) \/ Inbox(a) \/ Kill(a)
       PROVE  UNCHANGED <<app, log>>
  BY <1>13 DEF Sub, Ack, Inbox, InboxCursor, InboxTopics, InboxRead, InboxMark, Kill
<1>14. ASSUME NEW j \in Job, Age(j) PROVE UNCHANGED <<app, log>>
  BY <1>14 DEF Age
<1>15. CASE JobList
  BY <1>8, <1>15 DEF JobList
<1>16. ASSUME NEW a \in Applicant, ShowStart(a) PROVE app' = ExpiredApps /\ Post(ExpiryMsgs)
  BY <1>16 DEF ShowStart
<1>17. ASSUME NEW a \in Applicant, ShowPick(a) \/ ShowEnd(a) PROVE UNCHANGED <<app, log>>
  BY <1>17 DEF ShowPick, ShowEnd
<1>18. ASSUME NEW p \in Project, NEW j \in Job, ProjectCloseCheck(p) \/ JobCloseResolve(p, j)
       PROVE  UNCHANGED <<app, log>>
  BY <1>18 DEF ProjectCloseCheck, JobCloseResolve
<1>19. ASSUME NEW p \in Project, ProjectCloseCheck(p) PROVE UNCHANGED <<app, log>>
  BY <1>19 DEF ProjectCloseCheck
<1>20. CASE UNCHANGED vars
  BY <1>5, <1>20 DEF vars
<1> HIDE DEF board, mail
<1> DEFINE Goal == \E msgs : Posted(msgs)
<1>21. ASSUME NEW p \in Project,
              \/ ProjectPost(p) \/ ProjectCloseCheck(p) \/ ProjectClose(p)
              \/ JobHire(p) \/ JobClose(p)
       PROVE  Goal
  BY <1>5, <1>9, <1>10, <1>19, <1>21, HirePosted, ClosePosted
<1>22. ASSUME NEW a \in Agent, Say(a) \/ Sub(a) \/ Ack(a) \/ Inbox(a) \/ Kill(a)
       PROVE  Goal
  BY <1>5, <1>7, <1>13, <1>22
<1>23. ASSUME NEW a \in Applicant, ShowStart(a) \/ ShowPick(a) \/ ShowEnd(a)
       PROVE  Goal
  BY <1>5, <1>8, <1>16, <1>17, <1>23
<1>24. ASSUME NEW p \in Project, NEW j \in Job, JobPost(p, j) \/ JobCloseResolve(p, j)
       PROVE  Goal
  BY <1>5, <1>11, <1>18, <1>24
<1>25. ASSUME NEW a \in Applicant, NEW j \in Job, JobApply(a, j) PROVE Goal
  BY <1>12, <1>25
<1>26. ASSUME NEW j \in Job, Age(j) PROVE Goal
  BY <1>5, <1>14, <1>26
<1> HIDE DEF Goal
<1>27. Next => Goal
  BY <1>15, <1>21, <1>22, <1>23, <1>24, <1>25, <1>26 DEF Next, Goal
<1> QED BY <1>20, <1>27 DEF Goal
-----------------------------------------------------------------------------
(* What is on the board                                                    *)

\* Jobs are posted one after the other, and all messages are fine.
BookInv == LogInv /\ PostOrder /\ Fine(log)

\* A job keeps its project and its engineer: who is a member stays one.
LEMMA MembersStay ==
  ASSUME IInv, IsLog(log), [Next]_vars, NEW a \in Agent, NEW t, Member(a, t)
  PROVE  Member(a, t)'
<1>1. ASSUME NEW j \in Job, job[j].status # "none"
      PROVE  /\ job'[j].status # "none" /\ job'[j].project = job[j].project
             /\ job[j].engineer # None => job'[j].engineer = job[j].engineer
  BY <1>1, JobStep, LifeStays, JobFields DEF JobGoesOn, IInv, Rows
<1>2. a # None /\ \A j \in Job : job[j].status = "none" <=> job[j].project = None
  BY BoardAssumption DEF BoardAssumption, Agent, IInv, PostedJobs
<1>3. None \notin Project
  BY BoardAssumption DEF BoardAssumption
<1> QED BY <1>1, <1>2, <1>3 DEF Member, Managed

LEMMA FineStays ==
  ASSUME LogInv, Fine(log), [Next]_vars, NEW msgs, Fine(msgs), log' = log \o msgs
  PROVE  Fine(log)'
<1>1. Fine(log \o msgs)
  BY FineConcat
<1>2. \A j \in Job : job[j].status # "none" => job'[j].status # "none"
  BY JobStep, LifeStays, JobFields DEF JobGoesOn, LogInv, IInv, Rows
<1>3. \A a \in Agent : \A t : Member(a, t) => Member(a, t)'
  BY MembersStay DEF LogInv
<1> QED BY <1>1, <1>2, <1>3 DEF Fine, FineMsg, IsLog

LEMMA AlwaysBooked == Spec => []BookInv
<1>1. Init => PostOrder /\ Fine(log)
  <2>1. IsLog(<< >>) /\ Len(<< >>) = 0
    BY ListIsLog
  <2>2. ASSUME Init PROVE \A j \in Job : job[j].status = "none"
    BY <2>2 DEF Init
  <2>3. ASSUME Init PROVE log = << >>
    BY <2>3 DEF Init
  <2> QED BY <2>1, <2>2, <2>3 DEF PostOrder, Fine
<1>2. BookInv /\ [Next]_vars => (PostOrder /\ Fine(log))'
  <2> SUFFICES ASSUME BookInv, [Next]_vars PROVE PostOrder' /\ Fine(log)'
    OBVIOUS
  <2>1. PICK msgs : Posted(msgs)
    BY PostsStep DEF BookInv, LogInv
  <2>2. Fine(msgs) /\ log' = log \o msgs
    BY <2>1 DEF Posted
  <2>3. Fine(log)'
    BY <2>2, FineStays DEF BookInv
  <2>4. PostOrder'
    BY PostOrderStep DEF BookInv, LogInv
  <2> QED BY <2>3, <2>4
<1> QED BY <1>1, <1>2, Always, PTL DEF Spec, BookInv

\* cmd_pub, _say_topic, _join: only the members of a job or a project are subscribed to
\* its channel, and whatever an agent wrote in one it wrote as a member.
THEOREM ChannelsForMembers == Spec => []ChannelsOfMembers
<1>1. BookInv => ChannelsOfMembers
  <2> SUFFICES ASSUME BookInv PROVE Subscribed /\ \A n \in DOMAIN log : ByMember(log[n])
    BY DEF ChannelsOfMembers
  <2>1. DOMAIN log = 1..Len(log)
    BY ListIsLog, ConcatAt DEF BookInv, LogInv
  <2> QED BY <2>1 DEF BookInv, LogInv, IInv, Fine, FineMsg, ByMember
<1> QED BY <1>1, AlwaysBooked, PTL

-----------------------------------------------------------------------------
(* Every decision is told                                                  *)

ToldInv ==
  /\ overdue = {}
  /\ \A a \in Applicant :
       IF Decisive(app[a].status)
       THEN OneAnswer(log, a, IF app[a].status = "hired" THEN "HIRED" ELSE "REJECTED")
       ELSE Answers(log, a) = {}

LEMMA NoneOverdue ==
  ASSUME TtlJobs = {}, overdue = {}, [Next]_vars
  PROVE  overdue' = {}
<1>1. \A j \in Job : ~Age(j)
  BY DEF Age
<1>2. ASSUME NEW a \in Agent, Say(a) \/ Sub(a) \/ Ack(a) \/ Inbox(a) \/ Kill(a)
      PROVE  UNCHANGED overdue
  BY <1>2 DEF Say, Sub, Ack, Inbox, InboxCursor, InboxTopics, InboxRead, InboxMark, Kill
<1>3. ASSUME NEW a \in Applicant, ShowStart(a) \/ ShowPick(a) \/ ShowEnd(a)
      PROVE  UNCHANGED overdue
  BY <1>3 DEF ShowStart, ShowPick, ShowEnd
<1>4. ASSUME NEW p \in Project,
             ProjectPost(p) \/ ProjectCloseCheck(p) \/ ProjectClose(p) \/ JobHire(p) \/ JobClose(p)
      PROVE  UNCHANGED overdue
  BY <1>4 DEF ProjectPost, ProjectCloseCheck, ProjectClose, JobHire, JobClose
<1> QED
  BY <1>1, <1>2, <1>3, <1>4 DEF Next, vars, JobList, JobApply, JobPost, JobCloseResolve

LEMMA ToldStep ==
  ASSUME TtlJobs = {}, BookInv, ToldInv, [Next]_vars
  PROVE  ToldInv'
<1>1. overdue' = {} /\ TooOld = {}
  BY NoneOverdue DEF ToldInv, TooOld
<1>2. PICK msgs : Posted(msgs)
  BY PostsStep DEF BookInv, LogInv
<1>3. IsLog(log) /\ IsLog(msgs) /\ log' = log \o msgs /\ Answered(msgs)
  BY <1>1, <1>2 DEF Posted, BookInv, Fine
<1>4. ASSUME NEW a \in Applicant, Decisive(app[a].status) PROVE app'[a] = app[a]
  BY <1>4, AppStep DEF AppGoesOn, AppIsNew, BookInv, LogInv, Decisive
<1>5. ASSUME NEW a \in Applicant
      PROVE  IF Decisive(app'[a].status)
             THEN OneAnswer(log', a, IF app'[a].status = "hired" THEN "HIRED" ELSE "REJECTED")
             ELSE Answers(log', a) = {}
  <2> DEFINE kind(s) == IF s = "hired" THEN "HIRED" ELSE "REJECTED"
  <2>1. /\ Decisive(app[a].status) => OneAnswer(log, a, kind(app[a].status))
        /\ ~Decisive(app[a].status) => Answers(log, a) = {}
    BY DEF ToldInv
  <2>2. /\ Decisive(app'[a].status) /\ ~Decisive(app[a].status)
             => OneAnswer(msgs, a, kind(app'[a].status))
        /\ ~(Decisive(app'[a].status) /\ ~Decisive(app[a].status)) => Answers(msgs, a) = {}
    BY <1>3 DEF Answered
  <2> HIDE DEF kind
  <2>3. CASE Decisive(app[a].status)
    <3>1. app'[a] = app[a] /\ OneAnswer(log', a, kind(app[a].status))
      BY <1>3, <1>4, <2>1, <2>2, <2>3, AnswersConcat
    <3> QED BY <2>3, <3>1 DEF kind
  <2>4. CASE ~Decisive(app[a].status) /\ Decisive(app'[a].status)
    <3>1. OneAnswer(log', a, kind(app'[a].status))
      BY <1>3, <2>1, <2>2, <2>4, AnswersConcat
    <3> QED BY <2>4, <3>1 DEF kind
  <2>5. CASE ~Decisive(app[a].status) /\ ~Decisive(app'[a].status)
    BY <1>3, <2>1, <2>2, <2>5, AnswersConcat
  <2> QED BY <2>3, <2>4, <2>5
<1> QED BY <1>1, <1>5 DEF ToldInv, OneAnswer, Answers

\* SKILL.md step 3: without jobs that expire, whoever was decided about was sent the
\* right one of HIRED and REJECTED, once, and nobody else was.
THEOREM EveryDecisionTold ==
  ASSUME TtlJobs = {} PROVE Spec => []ToldOutcome
<1>1. Init => ToldInv
  <2> SUFFICES ASSUME Init PROVE ToldInv
    OBVIOUS
  <2>1. log = << >> /\ overdue = {} /\ \A a \in Applicant : app[a].status = "none"
    BY DEF Init
  <2>2. \A a : Answers(<< >>, a) = {}
    BY ListIsLog DEF Answers
  <2> QED BY <2>1, <2>2 DEF ToldInv, Decisive
<1>2. BookInv /\ ToldInv /\ [Next]_vars => ToldInv'
  BY ToldStep
<1>3. BookInv /\ ToldInv => ToldOutcome
  <2> SUFFICES ASSUME BookInv, ToldInv, NEW a \in Applicant
               PROVE  IF app[a].status \in {"hired", "rejected"}
                      THEN \E n \in Outcomes(a) :
                             /\ Outcomes(a) = {n}
                             /\ log[n].kind = IF app[a].status = "hired" THEN "HIRED" ELSE "REJECTED"
                      ELSE Outcomes(a) = {}
    BY DEF ToldOutcome
  <2>1. DOMAIN log = 1..Len(log)
    BY ListIsLog, ConcatAt DEF BookInv, Fine
  <2>2. Outcomes(a) = Answers(log, a)
    BY <2>1 DEF Outcomes, Answers
  <2> QED BY <2>2 DEF ToldInv, Decisive, OneAnswer
<1> QED BY <1>1, <1>2, <1>3, AlwaysBooked, PTL DEF Spec

-----------------------------------------------------------------------------
(* Projects, cursors and screens                                           *)

\* An agent that is in the middle of its inbox.
Reads(c) == c.cmd \in {"topics", "inbox", "mark"}

At(a) ==
  /\ cursor[a] \in 0..Len(log)
  /\ got[a] \subseteq 1..Len(log)
  /\ Reads(call[a]) => call[a].arg \in 0..Len(log)
Books ==
  /\ project \in [Project -> [status : {"none", "active", "closed"}, start : Nat]]
  /\ \A p \in Project : project[p].start <= Len(log)
  /\ \A j \in Job : job[j].project # None => project[job[j].project].status # "none"
  /\ told \subseteq Applicant
  /\ DOMAIN cursor = Agent /\ DOMAIN got = Agent
  /\ \A a \in Agent : At(a)

\* A command that does not read; only a manager of a project closes one.
Still(a, c) == ~Reads(c) /\ (c.cmd = "project close" => a \in Known)

\* The topics an agent may get without asking what it has read: the lobby, and the
\* channel of a new job when it is not in its inbox.
NewTopic(a, t) ==
  \/ t = Lobby
  \/ /\ \E j \in Job : job[j].status = "none" /\ t = JobTopic(j)
     /\ CalmJoin => ~Reads(call[a])

\* What most steps do to the mail of an agent: nothing.
Calm(a) ==
  /\ cursor'[a] = cursor[a] /\ got'[a] = got[a]
  /\ call'[a] = call[a] \/ Still(a, call'[a])
  /\ \A t \in subs'[a] : t \in subs[a] \/ NewTopic(a, t)
StatusStays(a) ==
  app'[a].status = app[a].status \/ (app[a].status = "pending" /\ app'[a].status = "rejected")
Undisturbed ==
  /\ UNCHANGED <<project, cursor, got, told>>
  /\ \A a \in Agent : Calm(a)
  /\ \A a \in Applicant : StatusStays(a)

LEMMA CallFields ==
  /\ \A c, x, t : Call(c, x, t).cmd = c /\ Call(c, x, t).arg = x /\ Call(c, x, t).topics = t
  /\ Idle = Call("idle", None, {})
BY DEF Call, Idle

LEMMA QuietCall ==
  ASSUME DOMAIN call = Agent, NEW a \in Agent, NEW c, Still(a, c),
         call' = [call EXCEPT ![a] = c] \/ UNCHANGED call
  PROVE  \A b \in Agent : call'[b] = call[b] \/ Still(b, call'[b])
OBVIOUS

LEMMA QuietCalls ==
  /\ ~Reads(Idle)
  /\ \A a : Still(a, Idle)
  /\ \A a, x, t : /\ Still(a, Call("show", x, t)) /\ Still(a, Call("reading", x, t))
                  /\ Still(a, Call("job close", x, t))
                  /\ a \in Known => Still(a, Call("project close", x, t))
<1> DEFINE Inbox3 == {"topics", "inbox", "mark"}
<1>1. \A cmd, x, t : /\ Call(cmd, x, t).cmd = cmd
                     /\ cmd \notin Inbox3 => ~Reads(Call(cmd, x, t))
  BY CallFields DEF Reads
<1>2. "show" \notin Inbox3 /\ "reading" \notin Inbox3 /\ "idle" \notin Inbox3
  OBVIOUS
<1>3. "job close" \notin Inbox3 /\ "project close" \notin Inbox3
  BY Zenon
<1>4. /\ "show" # "project close" /\ "reading" # "project close" /\ "idle" # "project close"
      /\ "job close" # "project close"
  BY Zenon
<1> HIDE DEF Inbox3
<1>5. \A a, cmd, x, t : cmd \notin Inbox3 /\ cmd # "project close" => Still(a, Call(cmd, x, t))
  BY <1>1, Zenon DEF Still
<1>6. \A a, cmd, x, t : cmd \notin Inbox3 /\ a \in Known => Still(a, Call(cmd, x, t))
  BY <1>1, Zenon DEF Still
<1>7. ~Reads(Idle) /\ \A a : Still(a, Idle)
  BY <1>1, <1>2, <1>4, <1>5, Zenon DEF Idle
<1>8. ASSUME NEW a, NEW x, NEW t
      PROVE  Still(a, Call("show", x, t)) /\ Still(a, Call("reading", x, t))
  BY <1>2, <1>4, <1>5, Zenon
<1>9. ASSUME NEW a, NEW x, NEW t PROVE Still(a, Call("job close", x, t))
  BY <1>3, <1>4, <1>5, Zenon
<1>10. ASSUME NEW a, NEW x, NEW t, a \in Known PROVE Still(a, Call("project close", x, t))
  BY <1>3, <1>6, <1>10, Zenon
<1> QED BY <1>7, <1>8, <1>9, <1>10, Zenon

LEMMA SameSubs ==
  ASSUME UNCHANGED <<cursor, got, subs>>,
         \A b \in Agent : call'[b] = call[b] \/ Still(b, call'[b])
  PROVE  \A b \in Agent : Calm(b)
BY DEF Calm

\* The steps that concern the mail of somebody.
Moves ==
  \/ \E a \in Agent : Ack(a) \/ InboxCursor(a) \/ InboxTopics(a) \/ InboxRead(a) \/ InboxMark(a)
  \/ \E p \in Project : ProjectPost(p) \/ ProjectClose(p) \/ JobHire(p)
  \/ \E a \in Applicant, j \in Job : JobApply(a, j)

LEMMA ExpiredStatus ==
  ASSUME Rows, app' = ExpiredApps
  PROVE  \A a \in Applicant : StatusStays(a)
BY ExpiryRows DEF StatusStays

LEMMA MovesOrNot ==
  ASSUME IInv, [Next]_vars
  PROVE  Undisturbed \/ Moves
<1>1. Rows /\ DOMAIN call = Agent /\ subs \in [Agent -> SUBSET Channel]
  BY DEF IInv, Rows
<1>2. UNCHANGED app => \A a \in Applicant : StatusStays(a)
  BY DEF StatusStays
<1> USE DEF board, mail
<1>3. CASE UNCHANGED vars
  BY <1>2, <1>3, SameSubs DEF vars, Undisturbed
<1>4. ASSUME NEW a \in Agent, Say(a) PROVE Undisturbed
  BY <1>2, <1>4, SameSubs DEF Say, Undisturbed
<1>5. ASSUME NEW a \in Agent, Sub(a) PROVE Undisturbed
  <2>1. /\ UNCHANGED <<project, app, cursor, got, told, call>>
        /\ subs' = [subs EXCEPT ![a] = @ \cup {Lobby}]
    BY <1>5 DEF Sub
  <2>2. \A b \in Agent : \A t \in subs'[b] : t \in subs[b] \/ t = Lobby
    BY <1>1, <2>1
  <2> QED BY <1>2, <2>1, <2>2 DEF Undisturbed, Calm, NewTopic
<1>6. ASSUME NEW a \in Agent, Kill(a) PROVE Undisturbed
  <2>1. /\ UNCHANGED <<project, app, cursor, got, told, subs>>
        /\ call' = [call EXCEPT ![a] = Idle]
    BY <1>6 DEF Kill, End
  <2>2. \A b \in Agent : call'[b] = call[b] \/ Still(b, call'[b])
    BY <1>1, <2>1, QuietCall, QuietCalls
  <2> QED BY <1>2, <2>1, <2>2, SameSubs DEF Undisturbed
<1>7. ASSUME NEW j \in Job, Age(j) PROVE Undisturbed
  BY <1>2, <1>7, SameSubs DEF Age, Undisturbed
<1>8. CASE JobList
  <2>1. UNCHANGED <<project, cursor, got, told, subs, call>> /\ app' = ExpiredApps
    BY <1>8 DEF JobList
  <2> QED BY <1>1, <2>1, ExpiredStatus, SameSubs DEF Undisturbed
<1>9. ASSUME NEW a \in Applicant, ShowStart(a) PROVE Undisturbed
  <2>1. /\ UNCHANGED <<project, cursor, got, told, subs>> /\ app' = ExpiredApps
        /\ call' = [call EXCEPT ![a] = Call("show", None, {})]
    BY <1>9 DEF ShowStart, Begin, Goto
  <2>2. \A b \in Agent : call'[b] = call[b] \/ Still(b, call'[b])
    BY <1>1, <2>1, QuietCall, QuietCalls DEF Agent
  <2> QED BY <1>1, <2>1, <2>2, ExpiredStatus, SameSubs DEF Undisturbed
<1>10. ASSUME NEW a \in Applicant, ShowPick(a) \/ ShowEnd(a) PROVE Undisturbed
  <2>1. /\ UNCHANGED <<project, app, cursor, got, told, subs>>
        /\ \/ \E j : call' = [call EXCEPT ![a] = Call("reading", j, {})]
           \/ call' = [call EXCEPT ![a] = Idle]
    BY <1>10 DEF ShowPick, ShowEnd, Goto, End
  <2>2. \A b \in Agent : call'[b] = call[b] \/ Still(b, call'[b])
    BY <1>1, <2>1, QuietCall, QuietCalls DEF Agent
  <2> QED BY <1>2, <2>1, <2>2, SameSubs DEF Undisturbed
<1>11. ASSUME NEW p \in Project, NEW j \in Job, JobCloseResolve(p, j)
       PROVE  Undisturbed
  <2>1. /\ UNCHANGED <<project, app, cursor, got, told, subs>>
        /\ call' = [call EXCEPT ![p] = Call("job close", j, {})]
    BY <1>11 DEF JobCloseResolve, Begin, Goto
  <2>2. \A b \in Agent : call'[b] = call[b] \/ Still(b, call'[b])
    BY <1>1, <2>1, QuietCall, QuietCalls DEF Agent
  <2> QED BY <1>2, <2>1, <2>2, SameSubs DEF Undisturbed
<1>12. ASSUME NEW p \in Project, ProjectCloseCheck(p) PROVE Undisturbed
  <2>1. /\ UNCHANGED <<project, app, cursor, got, told, subs>>
        /\ call' = [call EXCEPT ![p] = Call("project close", None, {})] /\ p \in Known
    BY <1>12 DEF ProjectCloseCheck, Begin, Goto
  <2>2. \A b \in Agent : call'[b] = call[b] \/ Still(b, call'[b])
    BY <1>1, <2>1, QuietCall, QuietCalls DEF Agent
  <2> QED BY <1>2, <2>1, <2>2, SameSubs DEF Undisturbed
<1>13. ASSUME NEW p \in Project, NEW j \in Job, JobPost(p, j) PROVE Undisturbed
  <2>1. /\ UNCHANGED <<project, cursor, got, told, call>> /\ app' = ExpiredApps
        /\ subs' = [subs EXCEPT ![p] = @ \cup {JobTopic(j)}]
        /\ job[j].status = "none" /\ MayJoin(p)
    BY <1>13 DEF JobPost
  <2>2. \A b \in Agent : \A t \in subs'[b] : t \in subs[b] \/ (b = p /\ t = JobTopic(j))
    BY <1>1, <2>1
  <2>3. CalmJoin => ~Reads(call[p])
    BY <2>1 DEF MayJoin, Reads
  <2>4. \A b \in Agent : Calm(b)
    BY <2>1, <2>2, <2>3 DEF Calm, NewTopic
  <2> QED BY <1>1, <2>1, <2>4, ExpiredStatus DEF Undisturbed
<1>14. ASSUME NEW p \in Project, JobClose(p) PROVE Undisturbed
  <2>1. PICK j \in Job :
          \A a \in Applicant :
            app'[a] = IF app[a].status = "pending" /\ app[a].job = j
                      THEN [app[a] EXCEPT !.status = "rejected"] ELSE app[a]
    BY <1>14, CloseRows
  <2>2. \A a \in Applicant : [app[a] EXCEPT !.status = "rejected"].status = "rejected"
    BY <1>1, Hired DEF Rows
  <2>3. \A a \in Applicant : StatusStays(a)
    BY <2>1, <2>2 DEF StatusStays
  <2>4. /\ UNCHANGED <<project, cursor, got, told, subs>>
        /\ call' = [call EXCEPT ![p] = Idle]
    BY <1>14 DEF JobClose, End
  <2>5. \A b \in Agent : call'[b] = call[b] \/ Still(b, call'[b])
    BY <1>1, <2>4, QuietCall, QuietCalls DEF Agent
  <2> QED BY <2>3, <2>4, <2>5, SameSubs DEF Undisturbed
<1> HIDE DEF board, mail
<1>15. ASSUME NEW a \in Agent, Ack(a) \/ Inbox(a) PROVE Moves
  BY <1>15 DEF Moves, Inbox
<1>16. ASSUME NEW p \in Project, ProjectPost(p) \/ ProjectClose(p) \/ JobHire(p) PROVE Moves
  BY <1>16 DEF Moves
<1>17. ASSUME NEW a \in Applicant, NEW j \in Job, JobApply(a, j) PROVE Moves
  BY <1>17 DEF Moves
<1> HIDE DEF Undisturbed, Moves
<1> QED
  BY <1>3, <1>4, <1>5, <1>6, <1>7, <1>8, <1>9, <1>10, <1>11, <1>12, <1>13, <1>14, <1>15,
     <1>16, <1>17 DEF Next
\* A job is posted by the manager of a posted project, and stays with it.
LEMMA ProjectOfJob ==
  ASSUME IInv, IsLog(log), [Next]_vars, NEW j \in Job
  PROVE  job'[j].project = job[j].project \/ job'[j].project \in Known \cap Project
<1>1. /\ job[j] \in JobRow /\ DOMAIN job = Job /\ Rows
      /\ job[j].status = "none" <=> job[j].project = None
  BY DEF IInv, Rows, PostedJobs
<1>2. job[j].status # "none" => job'[j].project = job[j].project
  BY JobStep DEF JobGoesOn
<1>3. CASE UNCHANGED job
  BY <1>3
<1>4. CASE job' = ExpiredJobs
  BY <1>1, <1>4, ExpiryRows
<1>5. ASSUME NEW k \in Job, Viewed(k) PROVE job'[j].project = job[j].project
  <2>1. job'[j] = IF j = k THEN [job[j] EXCEPT !.views = job[j].views + 1] ELSE job[j]
    BY <1>1, <1>5 DEF Viewed
  <2>2. job[j].views + 1 \in Nat
    BY <1>1, JobFields
  <2> QED BY <1>1, <2>1, <2>2, WithViews
<1>6. ASSUME NEW p \in Project, NEW k \in Job, JobPost(p, k)
      PROVE  job'[j].project = job[j].project \/ job'[j].project \in Known \cap Project
  <2> DEFINE new == [status |-> "open", project |-> p, engineer |-> None,
                     post |-> Len(log) + Len(ExpiryMsgs), views |-> 0]
  <2>1. p \in Known /\ job' = [ExpiredJobs EXCEPT ![k] = new]
    BY <1>6 DEF JobPost
  <2>2. new.project = p
    OBVIOUS
  <2> HIDE DEF new
  <2>3. DOMAIN ExpiredJobs = Job
    BY DEF ExpiredJobs
  <2>4. job'[j] = IF j = k THEN new ELSE ExpiredJobs[j]
    BY <2>1, <2>3
  <2> QED BY <1>1, <2>1, <2>2, <2>4, ExpiryRows
<1>7. ASSUME NEW p \in Project, JobHire(p) PROVE job'[j].project = job[j].project
  <2>1. PICK won \in SUBSET Applicant, jobs \in SUBSET Job : HireEffect(p, won, jobs)
    BY <1>7, HireRows
  <2>2. (\A k \in jobs : job[k].status = "open") /\ \A k \in Job \ jobs : job'[k] = job[k]
    BY <2>1, Zenon DEF HireEffect
  <2> QED BY <1>2, <2>2
<1>8. ASSUME NEW p \in Project, JobClose(p) PROVE job'[j].project = job[j].project
  <2>1. PICK k \in Job : job[k].status # "none" /\ job' = [job EXCEPT ![k].status = "closed"]
    BY <1>8, CloseRows
  <2> QED BY <1>1, <1>2, <2>1
<1> QED
  BY <1>3, <1>4, <1>5, <1>6, <1>7, <1>8, Cases DEF Quiet, Expiry, JobApply

\* A project that was posted stays posted, and keeps its start.
LEMMA ProjectStep ==
  ASSUME BookInv, Books, [Next]_vars
  PROVE  /\ project' \in [Project -> [status : {"none", "active", "closed"}, start : Nat]]
         /\ \A p \in Project : project'[p].start <= Len(log')
         /\ \A p \in Project : project[p].status # "none"
              => project'[p].status # "none" /\ project'[p].start = project[p].start
<1> DEFINE PS == [status : {"none", "active", "closed"}, start : Nat]
<1>1. Len(log) \in Nat /\ Len(log') \in Nat /\ Len(log) <= Len(log')
  BY LogStep DEF BookInv, LogInv
<1>2. project \in [Project -> PS] /\ \A p \in Project : project[p].start <= Len(log)
  BY DEF Books
<1>3. \A p \in Project : project[p].start \in Nat
  BY <1>2
<1>4. CASE UNCHANGED project
  BY <1>1, <1>2, <1>3, <1>4
<1>5. ASSUME NEW p \in Project, ProjectPost(p)
      PROVE  /\ project' \in [Project -> PS]
             /\ \A q \in Project : project'[q].start <= Len(log')
             /\ \A q \in Project : project[q].status # "none"
                  => project'[q].status # "none" /\ project'[q].start = project[q].start
  <2> DEFINE new == [status |-> "active", start |-> Len(log)]
  <2>1. project[p].status = "none" /\ project' = [project EXCEPT ![p] = new]
    BY <1>5 DEF ProjectPost
  <2>2. new \in PS /\ new.start = Len(log)
    BY <1>1
  <2> HIDE DEF new, PS
  <2>3. project' \in [Project -> PS] /\ \A q \in Project : project'[q] = IF q = p THEN new ELSE project[q]
    BY <1>2, <2>1, <2>2
  <2> QED BY <1>1, <1>2, <1>3, <2>1, <2>2, <2>3
<1>6. ASSUME NEW p \in Project, ProjectClose(p)
      PROVE  /\ project' \in [Project -> PS]
             /\ \A q \in Project : project'[q].start <= Len(log')
             /\ \A q \in Project : project[q].status # "none"
                  => project'[q].status # "none" /\ project'[q].start = project[q].start
  <2> DEFINE new == [project[p] EXCEPT !.status = "closed"]
  <2>1. project' = [project EXCEPT ![p] = new]
    BY <1>6 DEF ProjectClose
  <2>2. new \in PS /\ new.start = project[p].start /\ new.status = "closed"
    BY <1>2
  <2> HIDE DEF new, PS
  <2>3. project' \in [Project -> PS] /\ \A q \in Project : project'[q] = IF q = p THEN new ELSE project[q]
    BY <1>2, <2>1, <2>2
  <2> QED BY <1>1, <1>2, <1>3, <2>2, <2>3
<1>7. UNCHANGED project \/ \E p \in Project : ProjectPost(p) \/ ProjectClose(p)
  <2>1. ASSUME NEW a \in Agent,
               Ack(a) \/ InboxCursor(a) \/ InboxTopics(a) \/ InboxRead(a) \/ InboxMark(a)
        PROVE  UNCHANGED project
    BY <2>1 DEF Ack, InboxCursor, InboxTopics, InboxRead, InboxMark, board
  <2>2. ASSUME NEW a \in Applicant, NEW j \in Job, JobApply(a, j) PROVE UNCHANGED project
    BY <2>2 DEF JobApply
  <2>3. ASSUME NEW p \in Project, JobHire(p) PROVE UNCHANGED project
    BY <2>3 DEF JobHire
  <2> QED BY <2>1, <2>2, <2>3, MovesOrNot DEF BookInv, LogInv, Moves, Undisturbed
<1> QED BY <1>4, <1>5, <1>6, <1>7

LEMMA Applied ==
  ASSUME IInv, IsLog(log), DOMAIN cursor = Agent,
         NEW a \in Applicant, NEW j \in Job, JobApply(a, j)
  PROVE  /\ app[a].status = "none" /\ app'[a].status = "pending"
         /\ \A b \in Applicant \ {a} : StatusStays(b)
         /\ app'[a].seq = cursor'[a] /\ cursor'[a] \in Nat /\ cursor'[a] <= Len(log')
         /\ cursor' = [cursor EXCEPT ![a] = cursor'[a]]
         /\ call' = [call EXCEPT ![a] = Idle]
         /\ ~Reads(call[a])
<1> DEFINE seq == Len(log) + Len(ExpiryMsgs)
           new == [status |-> "pending", job |-> j, seq |-> seq]
           msg == Msg(AgentTopic(job[j].project), a, "APPLY")
<1>1. /\ app[a].status = "none" /\ app' = [ExpiredApps EXCEPT ![a] = new]
      /\ cursor' = [cursor EXCEPT ![a] = seq]
      /\ Post(ExpiryMsgs \o <<msg>>)
      /\ call' = [call EXCEPT ![a] = Idle]
      /\ call[a].cmd \in {"idle", "reading"}
  BY DEF JobApply, End
<1>2. new.status = "pending" /\ new.seq = seq
  OBVIOUS
<1> HIDE DEF msg, new
<1>3. IsLog(ExpiryMsgs) /\ IsLog(<<msg>>) /\ Len(<<msg>>) = 1 /\ Len(ExpiryMsgs) \in Nat
  BY ExpiryIsLog, ListIsLog DEF IInv
<1>4. IsLog(ExpiryMsgs \o <<msg>>) /\ Len(ExpiryMsgs \o <<msg>>) = Len(ExpiryMsgs) + 1
  BY <1>3, Concat
<1>5. Len(log) \in Nat /\ Len(log') = Len(log) + (Len(ExpiryMsgs) + 1)
  BY <1>1, <1>4, PostGrows
<1> HIDE DEF seq
<1>6. seq \in Nat /\ seq <= Len(log')
  BY <1>3, <1>5 DEF seq
<1>7. DOMAIN ExpiredApps = Applicant
  BY DEF ExpiredApps
<1>8. /\ app'[a] = new
      /\ \A b \in Applicant \ {a} : app'[b] = ExpiredApps[b]
  BY <1>1, <1>7
<1>9. \A b \in Applicant \ {a} : StatusStays(b)
  BY <1>8, ExpiryRows DEF IInv, StatusStays
<1> QED
  <2>1. ~Reads(call[a])
    BY <1>1 DEF Reads
  <2>2. cursor' = [cursor EXCEPT ![a] = cursor'[a]] /\ (a \in DOMAIN cursor => cursor'[a] = seq)
    BY <1>1
  <2> QED BY <1>1, <1>2, <1>6, <1>8, <1>9, <2>1, <2>2 DEF Agent
LEMMA DomainOf ==
  ASSUME IsLog(log) PROVE DOMAIN log = 1..Len(log) /\ Len(log) \in Nat
<1>1. PICK S : log \in Seq(S)
  BY DEF IsLog
<1> QED BY <1>1, LenProperties

\* What an inbox prints, and the last of it.
LEMMA UnreadNumbers ==
  ASSUME IsLog(log), NEW a
  PROVE  /\ Unread(a) \subseteq 1..Len(log)
         /\ Max({0} \cup Unread(a)) \in {0} \cup Unread(a)
         /\ Max({0} \cup Unread(a)) \in 0..Len(log)
         /\ \A n \in Unread(a) : n <= Max({0} \cup Unread(a))
<1> DEFINE S == {0} \cup Unread(a)
<1>1. Unread(a) \subseteq 1..Len(log) /\ Len(log) \in Nat
  BY DomainOf DEF Unread
<1>2. IsFiniteSet(0..Len(log))
  BY <1>1, FS_Interval
<1>3. S \in SUBSET Nat /\ S \subseteq 0..Len(log) /\ S # {}
  BY <1>1
<1>4. IsFiniteSet(S)
  BY <1>2, <1>3, FS_Subset
<1> HIDE DEF S
<1>5. Max(S) \in S /\ \A x \in S : x <= Max(S)
  BY <1>3, <1>4, Greatest
<1> QED BY <1>1, <1>3, <1>5 DEF S

\* One agent moves its cursor, sees messages, or goes on with a command.
LEMMA AtStays ==
  ASSUME NEW a \in Agent, At(a), Len(log) \in Nat, Len(log') \in Nat, Len(log) <= Len(log'),
         cursor'[a] \in 0..Len(log'), got'[a] \subseteq 1..Len(log'),
         call'[a] = call[a] \/ (Reads(call'[a]) => call'[a].arg \in 0..Len(log'))
  PROVE  At(a)'
BY DEF At, Reads

LEMMA AtStep ==
  ASSUME BookInv, Books, [Next]_vars
  PROVE  /\ told' \subseteq Applicant
         /\ DOMAIN cursor' = Agent /\ DOMAIN got' = Agent
         /\ \A b \in Agent : At(b)'
<1>1. /\ Len(log) \in Nat /\ Len(log') \in Nat /\ Len(log) <= Len(log')
      /\ IInv /\ IsLog(log) /\ DOMAIN call = Agent
  BY LogStep DEF BookInv, LogInv, IInv, Rows
<1>2. /\ told \subseteq Applicant /\ DOMAIN cursor = Agent /\ DOMAIN got = Agent
      /\ \A b \in Agent : /\ cursor[b] \in 0..Len(log) /\ cursor[b] \in 0..Len(log')
                          /\ got[b] \subseteq 1..Len(log) /\ got[b] \subseteq 1..Len(log')
                          /\ Reads(call[b]) => call[b].arg \in 0..Len(log)
                          /\ At(b)
  <2>1. \A b \in Agent : At(b)
    BY DEF Books
  <2>2. ASSUME NEW b \in Agent
        PROVE  /\ cursor[b] \in 0..Len(log)
               /\ got[b] \subseteq 1..Len(log)
               /\ Reads(call[b]) => call[b].arg \in 0..Len(log)
    BY <2>1 DEF At
  <2>3. 0..Len(log) \subseteq 0..Len(log') /\ 1..Len(log) \subseteq 1..Len(log')
    BY <1>1
  <2> QED BY <2>1, <2>2, <2>3 DEF Books
<1> DEFINE Goal == /\ told' \subseteq Applicant
                   /\ DOMAIN cursor' = Agent /\ DOMAIN got' = Agent
                   /\ \A b \in Agent : At(b)'
<1>3. ASSUME told' \subseteq Applicant, DOMAIN cursor' = Agent, DOMAIN got' = Agent,
             \A b \in Agent : /\ cursor'[b] \in 0..Len(log')
                              /\ got'[b] \subseteq 1..Len(log')
                              /\ \/ call'[b] = call[b]
                                 \/ Reads(call'[b]) => call'[b].arg \in 0..Len(log')
      PROVE  Goal
  BY <1>1, <1>2, <1>3, AtStays
<1>4. ASSUME NEW a \in Agent, NEW c, call' = [call EXCEPT ![a] = c] \/ UNCHANGED call,
             Reads(c) => c.arg \in 0..Len(log')
      PROVE  \A b \in Agent : call'[b] = call[b]
                              \/ (Reads(call'[b]) => call'[b].arg \in 0..Len(log'))
  BY <1>1, <1>4
<1>5. Reads(Idle) => Idle.arg \in 0..Len(log')
  BY QuietCalls
<1> HIDE DEF Goal
<1>6. ASSUME Undisturbed PROVE Goal
  <2>1. UNCHANGED <<cursor, got, told>>
    BY <1>6 DEF Undisturbed
  <2>2. \A b \in Agent : call'[b] = call[b] \/ ~Reads(call'[b])
    BY <1>6 DEF Undisturbed, Calm, Still
  <2> QED BY <1>2, <1>3, <2>1, <2>2
<1>7. ASSUME NEW a \in Agent, Ack(a) PROVE Goal
  <2>1. PICK n \in 0..Len(log) : /\ cursor' = [cursor EXCEPT ![a] = n]
                                 /\ got' = [got EXCEPT ![a] = @ \cup 1..n]
    BY <1>7 DEF Ack
  <2>2. UNCHANGED <<log, told, call>>
    BY <1>7 DEF Ack
  <2>3. 1..n \subseteq 1..Len(log')
    BY <1>1
  <2>4. n \in 0..Len(log')
    BY <1>1
  <2>5. \A b \in Agent : cursor'[b] \in 0..Len(log') /\ got'[b] \subseteq 1..Len(log')
    BY <1>2, <2>1, <2>3, <2>4
  <2> QED BY <1>2, <1>3, <2>1, <2>2, <2>5
<1>8. ASSUME NEW a \in Agent, InboxCursor(a) PROVE Goal
  <2>1. /\ UNCHANGED <<log, cursor, got, told>>
        /\ call' = [call EXCEPT ![a] = Call("topics", cursor[a], {})]
    BY <1>8 DEF InboxCursor, Begin, Goto, mail
  <2>2. Call("topics", cursor[a], {}).arg \in 0..Len(log')
    BY <1>2, CallFields
  <2> QED BY <1>2, <1>3, <1>4, <2>1, <2>2
<1>9. ASSUME NEW a \in Agent, InboxTopics(a) PROVE Goal
  <2>1. /\ UNCHANGED <<log, cursor, got, told>> /\ call[a].cmd = "topics"
        /\ call' = [call EXCEPT ![a] = Call("inbox", call[a].arg, Own(a) \cup subs[a])]
    BY <1>9 DEF InboxTopics, mail
  <2>2. call[a].arg \in 0..Len(log')
    BY <1>2, <2>1 DEF Reads
  <2>3. Call("inbox", call[a].arg, Own(a) \cup subs[a]).arg \in 0..Len(log')
    BY <2>2, CallFields
  <2> QED BY <1>2, <1>3, <1>4, <2>1, <2>3
<1>10. ASSUME NEW a \in Agent, InboxRead(a) PROVE Goal
  <2>1. /\ UNCHANGED <<log, cursor, told>>
        /\ got' = [got EXCEPT ![a] = @ \cup Unread(a)]
        /\ call' = [call EXCEPT ![a] = Call("mark", Max({0} \cup Unread(a)), {})]
    BY <1>10 DEF InboxRead, Goto
  <2>2. Unread(a) \subseteq 1..Len(log') /\ Max({0} \cup Unread(a)) \in 0..Len(log')
    BY <1>1, <2>1, UnreadNumbers
  <2>3. Call("mark", Max({0} \cup Unread(a)), {}).arg \in 0..Len(log')
    BY <2>2, CallFields
  <2>4. DOMAIN got' = Agent /\ \A b \in Agent : got'[b] \subseteq 1..Len(log')
    BY <1>2, <2>1, <2>2
  <2> QED BY <1>2, <1>3, <1>4, <2>1, <2>3, <2>4
<1>11. ASSUME NEW a \in Agent, InboxMark(a) PROVE Goal
  <2>1. /\ UNCHANGED <<log, got>> /\ call[a].cmd = "mark"
        /\ cursor' = IF call[a].arg = 0 THEN cursor ELSE [cursor EXCEPT ![a] = call[a].arg]
        /\ call' = [call EXCEPT ![a] = Idle]
    BY <1>11 DEF InboxMark, End
  <2>2. told' \subseteq Applicant
    BY <1>2, <1>11 DEF InboxMark
  <2>3. call[a].arg \in 0..Len(log')
    BY <1>2, <2>1 DEF Reads
  <2>4. DOMAIN cursor' = Agent /\ \A b \in Agent : cursor'[b] \in 0..Len(log')
    BY <1>2, <2>1, <2>3
  <2> QED BY <1>2, <1>3, <1>4, <1>5, <2>1, <2>2, <2>4
<1>12. ASSUME NEW p \in Project, ProjectPost(p) PROVE Goal
  <2>1. UNCHANGED <<got, told, call>> /\ cursor' = [cursor EXCEPT ![p] = Len(log)]
    BY <1>12 DEF ProjectPost
  <2>2. Len(log) \in 0..Len(log')
    BY <1>1
  <2>3. DOMAIN cursor' = Agent /\ \A b \in Agent : cursor'[b] \in 0..Len(log')
    BY <1>2, <2>1, <2>2
  <2> QED BY <1>2, <1>3, <2>1, <2>3
<1>13. ASSUME NEW p \in Project, ProjectClose(p) PROVE Goal
  <2>1. UNCHANGED <<cursor, got, told>> /\ call' = [call EXCEPT ![p] = Idle] /\ p \in Agent
    BY <1>13 DEF ProjectClose, End, Agent
  <2> QED BY <1>2, <1>3, <1>4, <1>5, <2>1
<1>14. ASSUME NEW p \in Project, JobHire(p) PROVE Goal
  <2>1. PICK won \in SUBSET Applicant, jobs \in SUBSET Job :
          HireEffect(p, won, jobs) /\ HireMail(p, won, jobs)
    BY <1>1, <1>14, HireRows
  <2>2. cursor' = [a \in Agent |-> IF a \in won THEN project[p].start ELSE cursor[a]]
    BY <2>1, Zenon DEF HireMail
  <2>3. UNCHANGED <<got, told, call>>
    BY <1>14 DEF JobHire
  <2>4. project[p].start \in 0..Len(log')
    BY <1>1 DEF Books
  <2>5. DOMAIN cursor' = Agent /\ \A b \in Agent : cursor'[b] \in 0..Len(log')
    BY <1>2, <2>2, <2>4
  <2> QED BY <1>2, <1>3, <2>3, <2>5
<1>15. ASSUME NEW a \in Applicant, NEW j \in Job, JobApply(a, j) PROVE Goal
  <2>1. /\ cursor'[a] \in Nat /\ cursor'[a] <= Len(log')
        /\ cursor' = [cursor EXCEPT ![a] = cursor'[a]]
        /\ call' = [call EXCEPT ![a] = Idle]
    BY <1>1, <1>2, <1>15, Applied
  <2>2. UNCHANGED <<got, told>> /\ a \in Agent
    BY <1>15 DEF JobApply, Agent
  <2>3. cursor'[a] \in 0..Len(log')
    BY <1>1, <2>1
  <2>4. DOMAIN cursor' = Agent /\ \A b \in Agent : cursor'[b] \in 0..Len(log')
    BY <1>2, <2>1, <2>3
  <2> QED BY <1>2, <1>3, <1>4, <1>5, <2>1, <2>2, <2>4
<1>16. Goal
  BY <1>1, <1>6, <1>7, <1>8, <1>9, <1>10, <1>11, <1>12, <1>13, <1>14, <1>15, MovesOrNot DEF Moves
<1> QED BY <1>16 DEF Goal

LEMMA BooksStep ==
  ASSUME BookInv, Books, [Next]_vars
  PROVE  Books'
<1>1. \A j \in Job : job'[j].project # None => project'[job'[j].project].status # "none"
  <2> SUFFICES ASSUME NEW j \in Job, job'[j].project # None
               PROVE  project'[job'[j].project].status # "none"
    OBVIOUS
  <2>1. \A p \in Project : project[p].status # "none" => project'[p].status # "none"
    BY ProjectStep
  <2>2. job[j].project # None => job[j].project \in Project /\ project[job[j].project].status # "none"
    BY JobFields DEF Books, BookInv, LogInv, IInv, Rows
  <2>3. \A p \in Known \cap Project : project[p].status # "none"
    BY BoardAssumption DEF Known, BoardAssumption
  <2> QED BY <2>1, <2>2, <2>3, ProjectOfJob DEF BookInv, LogInv
<1> QED BY <1>1, ProjectStep, AtStep DEF Books

LEMMA AlwaysBooks == Spec => [](BookInv /\ Books)
<1>1. Init => Books
  <2> SUFFICES ASSUME Init PROVE Books
    OBVIOUS
  <2>1. Len(log) = 0
    BY ListIsLog DEF Init
  <2>2. /\ project = [p \in Project |-> [status |-> "none", start |-> 0]]
        /\ cursor = [a \in Agent |-> 0] /\ got = [a \in Agent |-> {}] /\ told = {}
        /\ call = [a \in Agent |-> Idle]
    BY DEF Init
  <2>3. \A j \in Job : job[j].project = None
    BY DEF Init
  <2>4. \A a \in Agent : ~Reads(call[a])
    BY <2>2, QuietCalls
  <2>5. \A a \in Agent : At(a)
    BY <2>1, <2>2, <2>4 DEF At
  <2> QED BY <2>1, <2>2, <2>3, <2>5 DEF Books
<1>2. BookInv /\ Books /\ [Next]_vars => Books'
  BY BooksStep
<1> QED BY <1>1, <1>2, AlwaysBooked, PTL DEF Spec

\* The types of the board: messages of the known kinds, cursors and screens within the log.
THEOREM BoardTypes == Spec => []TypeOK
<1>1. BookInv /\ Books => TypeOK
  <2> SUFFICES ASSUME BookInv, Books PROVE TypeOK
    OBVIOUS
  <2>1. Rows /\ DOMAIN log = 1..Len(log)
    BY DomainOf DEF BookInv, LogInv, IInv
  <2>2. \A n \in DOMAIN log : log[n].kind \in Kinds
    BY <2>1 DEF BookInv, Fine, FineMsg
  <2>3. \A a \in Agent : cursor[a] \in 0..Len(log) /\ got[a] \subseteq DOMAIN log
    BY <2>1 DEF Books, At
  <2> QED BY <2>1, <2>2, <2>3 DEF Books, TypeOK, Kinds
<1> QED BY <1>1, AlwaysBooks, PTL

-----------------------------------------------------------------------------
(* No mail is skipped                                                      *)

\* What an agent has of its mail up to a message.
Shown(a, k) == \A n \in Mail(a) : n <= k => n \in got[a]

\* An agent was shown its mail up to its cursor, in the middle of its inbox up to the
\* cursor it is going to move; the topics it asks for are those of its mail.
Reader(a) ==
  /\ a \in Known => Shown(a, cursor[a])
  /\ Reads(call[a]) \/ call[a].cmd = "project close" => a \in Known
  /\ Reads(call[a]) => Shown(a, call[a].arg)
  /\ call[a].cmd = "inbox" => Own(a) \cup (subs[a] \ {Lobby}) \subseteq call[a].topics
MailInv == \A a \in Agent : Reader(a)

LEMMA MailFields ==
  ASSUME NEW a \in Agent
  PROVE  Mail(a) = {n \in DOMAIN log : /\ n > Since(a)
                                       /\ log[n].topic \in Own(a) \cup (subs[a] \ {Lobby})
                                       /\ log[n].from # a}
BY DEF Mail

\* The log only grows at its end.
LEMMA SameMessages ==
  ASSUME BookInv, [Next]_vars
  PROVE  /\ Len(log) \in Nat /\ Len(log') \in Nat /\ Len(log) <= Len(log')
         /\ DOMAIN log = 1..Len(log) /\ DOMAIN log' = 1..Len(log')
         /\ \A n \in 1..Len(log) : log'[n] = log[n]
<1>1. PICK msgs : Posted(msgs)
  BY PostsStep DEF BookInv, LogInv
<1>2. IsLog(log) /\ IsLog(msgs) /\ log' = log \o msgs
  BY <1>1 DEF BookInv, Fine, Posted
<1>3. IsLog(log \o msgs) /\ \A n \in 1..Len(log) : (log \o msgs)[n] = log[n]
  BY <1>2, ConcatAt
<1>4. DOMAIN (log \o msgs) = 1..Len(log \o msgs)
  BY <1>3, ListIsLog, ConcatAt
<1> QED BY <1>2, <1>3, <1>4, DomainOf, LogStep DEF BookInv, LogInv

LEMMA Sinces ==
  /\ \A p \in Project : p \notin Applicant /\ Since(p) = project[p].start
  /\ \A a \in Applicant :
       /\ a \notin Project
       /\ app[a].status = "hired" => Since(a) = project[job[app[a].job].project].start
       /\ app[a].status # "hired" => Since(a) = app[a].seq
  /\ \A a \in Agent : a \in Known <=> \/ a \in Project /\ project[a].status # "none"
                                      \/ a \in Applicant /\ app[a].status # "none"
<1>1. Project \cap Applicant = {}
  BY BoardAssumption DEF BoardAssumption
<1> QED BY <1>1 DEF Since, Known, Agent

LEMMA SincesNext ==
  /\ \A p \in Project : (p \in Known)' <=> project'[p].status # "none"
  /\ \A p \in Project : Since(p)' = project'[p].start
  /\ \A a \in Applicant :
       /\ (a \in Known)' <=> app'[a].status # "none"
       /\ app'[a].status = "hired" => Since(a)' = project'[job'[app'[a].job].project].start
       /\ app'[a].status # "hired" => Since(a)' = app'[a].seq
<1>1. Project \cap Applicant = {}
  BY BoardAssumption DEF BoardAssumption
<1> QED BY <1>1 DEF Since, Known

\* Who is known stays known, and its mail begins where it did unless it is hired.
LEMMA SinceStays ==
  ASSUME BookInv, Books, [Next]_vars, NEW a \in Agent, a \in Known,
         a \in Applicant => StatusStays(a)
  PROVE  (a \in Known)' /\ Since(a)' = Since(a)
<1>1. CASE a \in Project
  <2>1. project[a].status # "none"
    BY <1>1, Sinces
  <2>2. project'[a].status # "none" /\ project'[a].start = project[a].start
    BY <1>1, <2>1, ProjectStep
  <2> QED BY <1>1, <2>2, Sinces, SincesNext
<1>2. CASE a \in Applicant
  <2>1. app[a].status # "none"
    BY <1>2, Sinces
  <2>2. AppGoesOn(a)
    BY <1>2, <2>1, AppStep DEF AppIsNew, BookInv, LogInv
  <2>3. app'[a].status # "none" /\ app'[a].seq = app[a].seq
    BY <2>1, <2>2 DEF AppGoesOn
  <2>4. CASE app[a].status = "hired"
    <3> DEFINE j == app[a].job
    <3>1. app'[a] = app[a]
      BY <2>2, <2>4 DEF AppGoesOn
    <3>2. j \in Job /\ job[j].engineer = a
      BY <1>2, <2>4 DEF BookInv, LogInv, IInv, OneEngineer
    <3>3. a # None
      BY <1>2, BoardAssumption DEF BoardAssumption
    <3>4. job[j].status # "none" /\ job[j].project # None
      BY <3>2, <3>3 DEF BookInv, LogInv, IInv, OneEngineer, PostedJobs
    <3>5. job'[j].project = job[j].project
      BY <3>2, <3>4, JobStep DEF JobGoesOn, BookInv, LogInv
    <3>6. job[j].project \in Project
      BY <3>2, <3>4, JobFields DEF BookInv, LogInv, IInv, Rows
    <3>7. project'[job[j].project].start = project[job[j].project].start
      BY <3>2, <3>4, <3>6, ProjectStep DEF Books
    <3> HIDE DEF j
    <3>8. Since(a) = project[job[j].project].start
      BY <1>2, <2>4, Sinces DEF j
    <3>9. Since(a)' = project'[job'[j].project].start
      BY <1>2, <2>4, <3>1, SincesNext DEF j
    <3>10. (a \in Known)'
      BY <1>2, <2>3, SincesNext
    <3> QED BY <3>5, <3>7, <3>8, <3>9, <3>10
  <2>5. CASE app[a].status # "hired"
    <3>1. app'[a].status # "hired"
      BY <1>2, <2>5 DEF StatusStays
    <3> QED BY <1>2, <2>3, <2>5, <3>1, Sinces, SincesNext
  <2> QED BY <2>4, <2>5
<1> QED BY <1>1, <1>2 DEF Agent

LEMMA SinceIsNat ==
  ASSUME BookInv, Books, NEW a \in Agent, a \in Known
  PROVE  Since(a) \in Nat
<1>1. CASE a \in Project
  BY <1>1, Sinces DEF Books
<1>2. CASE a \in Applicant /\ app[a].status # "hired"
  BY <1>2, Sinces, AppFields DEF BookInv, LogInv, IInv, Rows
<1>3. CASE a \in Applicant /\ app[a].status = "hired"
  <2> DEFINE j == app[a].job
  <2>1. j \in Job /\ job[j].engineer = a /\ a # None
    BY <1>3, BoardAssumption DEF BookInv, LogInv, IInv, OneEngineer, BoardAssumption
  <2>2. job[j].project # None
    BY <2>1 DEF BookInv, LogInv, IInv, OneEngineer, PostedJobs
  <2>3. job[j].project \in Project
    BY <2>1, <2>2, JobFields DEF BookInv, LogInv, IInv, Rows
  <2>4. project[job[j].project].start \in Nat
    BY <2>3 DEF Books
  <2> QED BY <1>3, <2>4, Sinces
<1> QED BY <1>1, <1>2, <1>3 DEF Agent
\* What was shown stays shown: older mail of an agent is not changed, and a channel it
\* gets without an answer is the lobby or has no messages yet.
LEMMA KeepsShown ==
  ASSUME BookInv, Books, [Next]_vars, NEW a \in Agent, NEW k \in Nat, k <= Len(log),
         Shown(a, k), Since(a)' = Since(a), got[a] \subseteq got'[a],
         \A t \in subs'[a] : t \in subs[a] \/ NewTopic(a, t)
  PROVE  Shown(a, k)'
<1> SUFFICES ASSUME NEW n \in Mail(a)', n <= k PROVE n \in got'[a]
  BY DEF Shown
<1>1. /\ n \in DOMAIN log' /\ n > Since(a)' /\ log'[n].from # a
      /\ log'[n].topic \in Own(a) \cup (subs'[a] \ {Lobby})
  BY DEF Mail, Own
<1>2. n \in DOMAIN log /\ n \in 1..Len(log) /\ log'[n] = log[n]
  <2>1. n \in 1..Len(log') /\ Len(log) \in Nat /\ Len(log') \in Nat /\ DOMAIN log = 1..Len(log)
    BY <1>1, SameMessages
  <2>2. n \in 1..Len(log)
    BY <2>1
  <2> QED BY <2>1, <2>2, SameMessages
<1>3. log[n].topic \in Own(a) \cup (subs[a] \ {Lobby})
  <2> SUFFICES ASSUME log[n].topic \in subs'[a] \ {Lobby}, log[n].topic \notin subs[a]
               PROVE  FALSE
    BY <1>1, <1>2
  <2>1. NewTopic(a, log[n].topic) /\ log[n].topic # Lobby
    OBVIOUS
  <2>2. PICK j \in Job : job[j].status = "none" /\ log[n].topic = JobTopic(j)
    BY <2>1 DEF NewTopic
  <2>3. FineMsg(log[n])
    BY <1>2 DEF BookInv, Fine
  <2> QED BY <2>2, <2>3 DEF FineMsg
<1>4. n \in Mail(a)
  BY <1>1, <1>2, <1>3 DEF Mail
<1> QED BY <1>4 DEF Shown

\* An agent nothing happens to.
Steady(a) ==
  /\ Calm(a)
  /\ (a \in Known)' => a \in Known
  /\ a \in Applicant => StatusStays(a)

LEMMA ReaderSteady ==
  ASSUME CalmJoin, BookInv, Books, [Next]_vars, NEW a \in Agent, Reader(a), Steady(a)
  PROVE  Reader(a)'
<1>1. a \in Known => (a \in Known)' /\ Since(a)' = Since(a)
  BY SinceStays DEF Steady
<1>2. /\ cursor'[a] = cursor[a] /\ got'[a] = got[a]
      /\ call'[a] = call[a] \/ Still(a, call'[a])
      /\ \A t \in subs'[a] : t \in subs[a] \/ NewTopic(a, t)
  BY DEF Steady, Calm
<1>3. /\ cursor[a] \in Nat /\ cursor[a] <= Len(log)
      /\ Reads(call[a]) => call[a].arg \in Nat /\ call[a].arg <= Len(log)
  <2>1. Len(log) \in Nat /\ cursor[a] \in 0..Len(log)
        /\ (Reads(call[a]) => call[a].arg \in 0..Len(log))
    BY SameMessages DEF Books, At
  <2> QED BY <2>1
<1>4. ASSUME a \in Known, NEW k \in Nat, k <= Len(log), Shown(a, k) PROVE Shown(a, k)'
  BY <1>1, <1>2, <1>4, KeepsShown
<1>5. (a \in Known)' => Shown(a, cursor[a])'
  <2> SUFFICES ASSUME (a \in Known)' PROVE Shown(a, cursor[a])'
    OBVIOUS
  <2>1. a \in Known
    BY DEF Steady
  <2> DEFINE k == cursor[a]
  <2>2. k \in Nat /\ k <= Len(log) /\ Shown(a, k) /\ cursor'[a] = k
    BY <1>2, <1>3, <2>1 DEF Reader
  <2>3. \A n \in Mail(a)' : n <= k => n \in got'[a]
    <3> HIDE DEF k
    <3> QED BY <1>4, <2>1, <2>2 DEF Shown
  <2> QED BY <2>2, <2>3 DEF Shown
<1>6. CASE call'[a] = call[a]
  <2>1. Reads(call[a]) \/ call[a].cmd = "project close" => a \in Known
    BY Zenon DEF Reader
  <2>2. Reads(call'[a]) \/ call'[a].cmd = "project close" => (a \in Known)'
    BY <1>1, <1>6, <2>1, Zenon
  <2>3. Reads(call'[a]) => Shown(a, call[a].arg)'
    <3> SUFFICES ASSUME Reads(call[a]) PROVE Shown(a, call[a].arg)'
      BY <1>6
    <3> DEFINE k == call[a].arg
    <3>1. a \in Known /\ Shown(a, k)
      BY Zenon DEF Reader
    <3>2. k \in Nat /\ k <= Len(log) /\ call'[a].arg = k
      BY <1>3, <1>6
    <3>3. \A n \in Mail(a)' : n <= k => n \in got'[a]
      <4> HIDE DEF k
      <4> QED BY <1>4, <3>1, <3>2 DEF Shown
    <3> QED BY <3>2, <3>3 DEF Shown
  <2>4. call'[a].cmd = "inbox" => Own(a) \cup (subs'[a] \ {Lobby}) \subseteq call'[a].topics
    <3> SUFFICES ASSUME call[a].cmd = "inbox"
                 PROVE  Own(a) \cup (subs'[a] \ {Lobby}) \subseteq call[a].topics
      BY <1>6
    <3>1. Own(a) \cup (subs[a] \ {Lobby}) \subseteq call[a].topics
      BY Zenon DEF Reader
    <3>2. \A t : NewTopic(a, t) => t = Lobby
      BY DEF NewTopic, Reads
    <3> QED BY <1>2, <3>1, <3>2
  <2> QED BY <1>5, <2>2, <2>3, <2>4, Zenon DEF Reader, Reads, Own
<1>7. CASE Still(a, call'[a])
  <2>1. ~Reads(call'[a]) /\ (call'[a].cmd = "project close" => (a \in Known)')
    BY <1>1, <1>7, Zenon DEF Still
  <2>2. call'[a].cmd # "inbox"
    BY <2>1 DEF Reads
  <2> QED BY <1>5, <2>1, <2>2, Zenon DEF Reader, Reads
<1> QED BY <1>2, <1>6, <1>7

\* An agent that joins a channel starts with the mail of that channel.
LEMMA ReaderJoins ==
  ASSUME BookInv, BookInv', NEW a \in Agent, ~Reads(call'[a]),
         (a \in Known)',
         cursor'[a] = Since(a)', cursor'[a] \in Nat
  PROVE  Reader(a)'
<1>1. Shown(a, cursor[a])'
  <2> DEFINE M == Mail(a)'
             w == log'
             c == cursor'[a]
  <2>1. \A n \in M : n \in DOMAIN w /\ n > c
    BY DEF Mail
  <2>2. c \in Nat /\ IsLog(w)
    BY DEF BookInv, LogInv, IsLog
  <2> HIDE DEF M, w, c
  <2>3. PICK S : w \in Seq(S)
    BY <2>2 DEF IsLog
  <2>4. DOMAIN w \subseteq Int
    BY <2>3, LenProperties
  <2>5. \A n \in M : ~(n <= c)
    <3> SUFFICES ASSUME NEW n \in M PROVE ~(n <= c)
      OBVIOUS
    <3>1. n \in Int /\ n > c
      BY <2>1, <2>4
    <3> QED BY <2>2, <3>1
  <2> QED BY <2>5 DEF M, c, Shown
<1>2. call'[a].cmd # "inbox"
  BY DEF Reads
<1> QED BY <1>1, <1>2, Zenon DEF Reader, Reads
\* An agent is steady when nothing is done to its rows.
LEMMA SteadyIs ==
  ASSUME NEW b \in Agent, Calm(b), b \in Applicant => StatusStays(b),
         b \in Project /\ project[b].status = "none" => project'[b].status = "none"
  PROVE  Steady(b)
<1>1. (b \in Known)' => b \in Known
  <2>1. CASE b \in Project
    BY <2>1, Sinces, SincesNext
  <2>2. CASE b \in Applicant
    <3>1. app'[b].status # "none" => app[b].status # "none"
      BY <2>2 DEF StatusStays
    <3> QED BY <2>2, <3>1, Sinces, SincesNext
  <2> QED BY <2>1, <2>2 DEF Agent
<1> QED BY <1>1 DEF Steady

LEMMA ReaderHas ==
  ASSUME NEW a, Reader(a)
  PROVE  /\ a \in Known => Shown(a, cursor[a])
         /\ Reads(call[a]) => a \in Known /\ Shown(a, call[a].arg)
         /\ call[a].cmd = "inbox" => Own(a) \cup (subs[a] \ {Lobby}) \subseteq call[a].topics
BY Zenon DEF Reader

LEMMA NotReading ==
  ASSUME NEW a, Reader(a), a \notin Known
  PROVE  ~Reads(call[a])
BY Zenon DEF Reader

LEMMA ReaderIs ==
  ASSUME NEW a, (a \in Known)', Shown(a, cursor[a])',
         Reads(call'[a]) => Shown(a, call[a].arg)',
         call'[a].cmd = "inbox" => Own(a) \cup (subs'[a] \ {Lobby}) \subseteq call'[a].topics
  PROVE  Reader(a)'
BY Zenon DEF Reader, Reads, Own

LEMMA MailSame ==
  ASSUME UNCHANGED <<log, board, subs>>, NEW a \in Agent
  PROVE  Mail(a)' = Mail(a) /\ ((a \in Known)' <=> a \in Known)
BY DEF Mail, Known, Since, board, Own

LEMMA OwnMail ==
  ASSUME BookInv, Books, [Next]_vars, NEW a \in Agent, Reader(a),
         Ack(a) \/ InboxCursor(a) \/ InboxTopics(a) \/ InboxRead(a) \/ InboxMark(a)
  PROVE  Reader(a)'
<1>1. UNCHANGED <<log, board, subs>>
  BY DEF Ack, InboxCursor, InboxTopics, InboxRead, InboxMark, mail
<1>2. /\ DOMAIN call = Agent /\ DOMAIN cursor = Agent /\ DOMAIN got = Agent /\ IsLog(log)
      /\ cursor[a] \in Nat
      /\ Len(log) \in Nat
      /\ Reads(call[a]) => call[a].arg \in 0..Len(log)
      /\ DOMAIN log = 1..Len(log)
  BY DomainOf DEF Books, At, BookInv, LogInv, IInv, Rows
<1>3. Mail(a)' = Mail(a) /\ ((a \in Known)' <=> a \in Known)
  BY <1>1, MailSame
<1>4. Mail(a) \subseteq 1..Len(log)
  BY <1>2 DEF Mail
<1>5. ASSUME NEW k, Shown(a, k), got[a] \subseteq got'[a]
      PROVE  \A n \in Mail(a)' : n <= k => n \in got'[a]
  BY <1>3, <1>5 DEF Shown
<1>6. CASE Ack(a)
  <2>1. PICK n \in 0..Len(log) : /\ cursor' = [cursor EXCEPT ![a] = n]
                                 /\ got' = [got EXCEPT ![a] = @ \cup 1..n]
    BY <1>6 DEF Ack
  <2>2. UNCHANGED call /\ a \in Known
    BY <1>6 DEF Ack
  <2>3. cursor'[a] = n /\ got'[a] = got[a] \cup 1..n
    BY <1>2, <2>1
  <2>4. \A m \in Mail(a)' : m <= n => m \in got'[a]
    BY <1>2, <1>3, <1>4, <2>3
  <2>5. Shown(a, cursor[a])'
    BY <2>3, <2>4 DEF Shown
  <2>6. Reads(call[a]) => Shown(a, call[a].arg)'
    BY <1>5, <2>2, <2>3, ReaderHas DEF Shown
  <2>7. call[a].cmd = "inbox" => Own(a) \cup (subs'[a] \ {Lobby}) \subseteq call[a].topics
    BY <1>1, ReaderHas
  <2> QED BY <1>3, <2>2, <2>5, <2>6, <2>7, ReaderIs
<1>7. CASE InboxCursor(a)
  <2>1. /\ UNCHANGED <<cursor, got>> /\ a \in Known
        /\ call' = [call EXCEPT ![a] = Call("topics", cursor[a], {})]
    BY <1>7 DEF InboxCursor, Begin, Goto, mail
  <2>2. call'[a] = Call("topics", cursor[a], {})
    BY <1>2, <2>1
  <2>3. call'[a].cmd = "topics" /\ call'[a].arg = cursor[a]
    BY <2>2, CallFields
  <2>4. \A n \in Mail(a)' : n <= cursor[a] => n \in got'[a]
    BY <1>5, <2>1, ReaderHas
  <2>5. Shown(a, cursor[a])' /\ Shown(a, call[a].arg)'
    BY <2>1, <2>3, <2>4 DEF Shown
  <2> QED BY <1>3, <2>1, <2>3, <2>5, ReaderIs
<1>8. CASE InboxTopics(a)
  <2>1. /\ UNCHANGED <<cursor, got>> /\ call[a].cmd = "topics"
        /\ call' = [call EXCEPT ![a] = Call("inbox", call[a].arg, Own(a) \cup subs[a])]
    BY <1>8 DEF InboxTopics, mail
  <2>2. call'[a] = Call("inbox", call[a].arg, Own(a) \cup subs[a])
    BY <1>2, <2>1
  <2>3. call'[a].arg = call[a].arg /\ call'[a].topics = Own(a) \cup subs[a]
    BY <2>2, CallFields
  <2>4. a \in Known /\ Shown(a, call[a].arg) /\ Shown(a, cursor[a])
    BY <2>1, ReaderHas DEF Reads
  <2>5. Shown(a, cursor[a])' /\ Shown(a, call[a].arg)'
    BY <1>5, <2>1, <2>3, <2>4 DEF Shown
  <2>6. Own(a) \cup (subs'[a] \ {Lobby}) \subseteq call'[a].topics
    BY <1>1, <2>3
  <2> QED BY <1>3, <2>4, <2>5, <2>6, ReaderIs
<1>9. CASE InboxRead(a)
  <2> DEFINE top == Max({0} \cup Unread(a))
  <2>1. /\ UNCHANGED cursor /\ call[a].cmd = "inbox"
        /\ got' = [got EXCEPT ![a] = @ \cup Unread(a)]
        /\ call' = [call EXCEPT ![a] = Call("mark", top, {})]
    BY <1>9 DEF InboxRead, Goto
  <2>2. /\ got'[a] = got[a] \cup Unread(a)
        /\ call'[a] = Call("mark", top, {})
    BY <1>2, <2>1
  <2>3. call'[a].cmd = "mark" /\ call'[a].arg = top
    BY <2>2, CallFields
  <2> HIDE DEF top
  <2>4. Reads(call[a])
    BY <2>1 DEF Reads
  <2>5. a \in Known /\ Shown(a, call[a].arg) /\ Shown(a, cursor[a])
    BY <2>4, ReaderHas
  <2>6. Own(a) \cup (subs[a] \ {Lobby}) \subseteq call[a].topics
    BY <2>1, ReaderHas
  <2>7. ASSUME NEW n \in Mail(a) PROVE n \in got'[a]
    <3>1. n \in DOMAIN log /\ log[n].topic \in Own(a) \cup (subs[a] \ {Lobby}) /\ log[n].from # a
      BY DEF Mail, Own
    <3>2. CASE n <= call[a].arg
      BY <2>2, <2>5, <3>2 DEF Shown
    <3>3. CASE n > call[a].arg
      BY <2>2, <2>6, <3>1, <3>3 DEF Unread
    <3>4. n \in Int /\ call[a].arg \in Int
      BY <1>2, <2>4, <3>1
    <3> QED BY <3>2, <3>3, <3>4
  <2>8. Shown(a, cursor[a])' /\ Shown(a, call[a].arg)'
    BY <1>3, <2>7 DEF Shown
  <2> QED BY <1>3, <2>3, <2>5, <2>8, ReaderIs
<1>10. CASE InboxMark(a)
  <2>1. /\ UNCHANGED got /\ call[a].cmd = "mark"
        /\ cursor' = IF call[a].arg = 0 THEN cursor ELSE [cursor EXCEPT ![a] = call[a].arg]
        /\ call' = [call EXCEPT ![a] = Idle]
    BY <1>10 DEF InboxMark, End
  <2>2. a \in Known /\ Shown(a, call[a].arg) /\ Shown(a, cursor[a])
    BY <2>1, ReaderHas DEF Reads
  <2>3. cursor'[a] \in {cursor[a], call[a].arg}
    BY <1>2, <2>1
  <2>4. Shown(a, cursor[a])'
    BY <1>5, <2>1, <2>2, <2>3 DEF Shown
  <2>5. call'[a] = Idle
    BY <1>2, <2>1
  <2>6. ~Reads(call'[a])
    BY <2>5, QuietCalls
  <2>7. call'[a].cmd # "inbox"
    BY <2>6 DEF Reads
  <2> QED BY <1>3, <2>2, <2>4, <2>6, <2>7, ReaderIs
<1> QED BY <1>6, <1>7, <1>8, <1>9, <1>10
\* The mail of the others is not touched by what an agent reads.
LEMMA OthersMail ==
  ASSUME BookInv, Books, NEW a \in Agent, NEW b \in Agent \ {a},
         Ack(a) \/ InboxCursor(a) \/ InboxTopics(a) \/ InboxRead(a) \/ InboxMark(a)
  PROVE  Steady(b)
<1>1. DOMAIN call = Agent /\ DOMAIN cursor = Agent /\ DOMAIN got = Agent
  BY DEF Books, BookInv, LogInv, IInv, Rows
<1>2. UNCHANGED <<board, subs>>
  BY DEF Ack, InboxCursor, InboxTopics, InboxRead, InboxMark, mail
<1>3. cursor'[b] = cursor[b]
  <2>1. CASE InboxMark(a)
    <3>1. cursor' = IF call[a].arg = 0 THEN cursor ELSE [cursor EXCEPT ![a] = call[a].arg]
      BY <2>1 DEF InboxMark
    <3> QED BY <1>1, <3>1
  <2>2. CASE Ack(a)
    BY <1>1, <2>2 DEF Ack
  <2> QED BY <2>1, <2>2 DEF InboxCursor, InboxTopics, InboxRead, mail
<1>4. got'[b] = got[b]
  <2>1. UNCHANGED got \/ \E S : got' = [got EXCEPT ![a] = S]
    BY DEF Ack, InboxCursor, InboxTopics, InboxRead, InboxMark, mail
  <2> QED BY <1>1, <2>1
<1>5. call'[b] = call[b]
  <2>1. UNCHANGED call \/ \E c : call' = [call EXCEPT ![a] = c]
    BY DEF Ack, InboxCursor, InboxTopics, InboxRead, InboxMark, Begin, Goto, End
  <2> QED BY <1>1, <2>1
<1>6. Calm(b)
  BY <1>2, <1>3, <1>4, <1>5 DEF Calm
<1>7. b \in Applicant => StatusStays(b)
  BY <1>2 DEF StatusStays, board
<1>8. UNCHANGED project
  BY <1>2 DEF board
<1> QED BY <1>6, <1>7, <1>8, SteadyIs

LEMMA ProjectMail ==
  ASSUME CalmJoin, BookInv, BookInv', Books, MailInv, [Next]_vars,
         NEW p \in Project, ProjectPost(p), NEW b \in Agent
  PROVE  Reader(b)'
<1>1. /\ project[p].status = "none"
      /\ project' = [project EXCEPT ![p] = [status |-> "active", start |-> Len(log)]]
      /\ subs' = [subs EXCEPT ![p] = @ \cup {ProjectTopic(p)}]
      /\ cursor' = [cursor EXCEPT ![p] = Len(log)]
      /\ UNCHANGED <<app, got, call>>
  BY DEF ProjectPost
<1>2. /\ DOMAIN project = Project /\ DOMAIN subs = Agent /\ DOMAIN cursor = Agent
      /\ Len(log) \in Nat /\ p \in Agent
  BY SameMessages DEF Books, BookInv, LogInv, IInv, Rows, Agent
<1>3. Reader(b)
  BY DEF MailInv
<1>4. CASE b = p
  <2>1. p \notin Known
    BY <1>1, <1>2, Sinces
  <2>2. ~Reads(call[p])
    BY <1>3, <1>4, <2>1, NotReading
  <2>3. project'[p].start = Len(log) /\ project'[p].status = "active" /\ cursor'[p] = Len(log)
    BY <1>1, <1>2
  <2>4. (p \in Known)' /\ Since(p)' = Len(log)
    BY <2>3, SincesNext
  <2> QED BY <1>1, <1>2, <1>4, <2>2, <2>3, <2>4, ReaderJoins
<1>5. CASE b # p
  <2>1. cursor'[b] = cursor[b] /\ subs'[b] = subs[b]
    BY <1>1, <1>2, <1>5
  <2>2. Calm(b)
    BY <1>1, <2>1 DEF Calm
  <2>3. b \in Project => project'[b] = project[b]
    BY <1>1, <1>2, <1>5
  <2>4. b \in Applicant => StatusStays(b)
    BY <1>1 DEF StatusStays
  <2>5. Steady(b)
    BY <2>2, <2>3, <2>4, SteadyIs
  <2> QED BY <1>3, <2>5, ReaderSteady
<1> QED BY <1>4, <1>5

LEMMA CloseMail ==
  ASSUME CalmJoin, BookInv, Books, MailInv, [Next]_vars,
         NEW p \in Project, ProjectClose(p), NEW b \in Agent
  PROVE  Reader(b)'
<1>1. /\ project' = [project EXCEPT ![p].status = "closed"]
      /\ call' = [call EXCEPT ![p] = Idle]
      /\ UNCHANGED <<app, subs, cursor, got>>
  BY DEF ProjectClose, End
<1>2. DOMAIN project = Project /\ DOMAIN call = Agent
  BY DEF Books, BookInv, LogInv, IInv, Rows
<1>3. p \in Known
  <2>1. call[p].cmd = "project close"
    BY Zenon DEF ProjectClose
  <2>2. Reader(p)
    BY DEF MailInv, Agent
  <2> QED BY <2>1, <2>2, Zenon DEF Reader
<1>4. Reader(b)
  BY DEF MailInv
<1>5. call'[b] = call[b] \/ Still(b, call'[b])
  BY <1>1, <1>2, QuietCalls
<1>6. Calm(b)
  BY <1>1, <1>5 DEF Calm
<1>7. b \in Project /\ project[b].status = "none" => project'[b].status = "none"
  <2>1. project[p].status # "none"
    BY <1>3, Sinces DEF Agent
  <2> QED BY <1>1, <1>2, <2>1
<1>8. b \in Applicant => StatusStays(b)
  BY <1>1 DEF StatusStays
<1>9. Steady(b)
  BY <1>6, <1>7, <1>8, SteadyIs
<1> QED BY <1>4, <1>9, ReaderSteady

LEMMA ApplyMail ==
  ASSUME CalmJoin, BookInv, BookInv', Books, MailInv, [Next]_vars,
         NEW a \in Applicant, NEW j \in Job, JobApply(a, j), NEW b \in Agent
  PROVE  Reader(b)'
<1>1. IInv /\ IsLog(log) /\ DOMAIN cursor = Agent /\ DOMAIN call = Agent /\ a \in Agent
  BY DEF Books, BookInv, LogInv, IInv, Rows, Agent
<1>2. /\ app'[a].status = "pending"
      /\ \A c \in Applicant \ {a} : StatusStays(c)
      /\ app'[a].seq = cursor'[a] /\ cursor'[a] \in Nat
      /\ cursor' = [cursor EXCEPT ![a] = cursor'[a]]
      /\ call' = [call EXCEPT ![a] = Idle]
  BY <1>1, Applied
<1>3. UNCHANGED <<project, subs, got>>
  BY DEF JobApply
<1>4. Reader(b)
  BY DEF MailInv
<1>5. CASE b = a
  <2>1. call'[a] = Idle
    BY <1>1, <1>2
  <2>2. ~Reads(call'[a])
    BY <2>1, QuietCalls
  <2>3. (a \in Known)' /\ Since(a)' = app'[a].seq
    BY <1>2, SincesNext
  <2> QED BY <1>1, <1>2, <1>5, <2>2, <2>3, ReaderJoins
<1>6. CASE b # a
  <2>1. cursor'[b] = cursor[b] /\ call'[b] = call[b]
    BY <1>1, <1>2, <1>6
  <2>2. Calm(b)
    BY <1>3, <2>1 DEF Calm
  <2>3. Steady(b)
    BY <1>2, <1>3, <1>6, <2>2, SteadyIs
  <2> QED BY <1>4, <2>3, ReaderSteady
<1> QED BY <1>5, <1>6

LEMMA HireMailed ==
  ASSUME CalmJoin, BookInv, BookInv', Books, MailInv, [Next]_vars,
         NEW p \in Project, JobHire(p), NEW b \in Agent
  PROVE  Reader(b)'
<1>1. PICK won \in SUBSET Applicant, jobs \in SUBSET Job :
        HireEffect(p, won, jobs) /\ HireMail(p, won, jobs)
  BY HireRows DEF BookInv, LogInv
<1>2. /\ \A a \in won : MayJoin(a)
      /\ cursor' = [a \in Agent |-> IF a \in won THEN project[p].start ELSE cursor[a]]
  BY <1>1, Zenon DEF HireMail
<1>3. UNCHANGED <<project, got, call>>
  BY DEF JobHire
<1>4. Reader(b) /\ \A a \in Applicant : app[a] \in AppRow
  BY DEF MailInv, BookInv, LogInv, IInv, Rows
<1>5. CASE b \in won
  <2> DEFINE j == app[b].job
  <2>1. app[b].status = "pending" /\ j \in jobs /\ app'[b] = [app[b] EXCEPT !.status = "hired"]
    BY <1>1, <1>5, Zenon DEF HireEffect
  <2>2. \A k \in jobs : job[k].status = "open" /\ job[k].project = p
    BY <1>1, Zenon DEF HireEffect
  <2>3. app'[b].status = "hired" /\ app'[b].job = j
    <3>1. "hired" \in AppStatus
      BY DEF AppStatus
    <3>2. /\ [app[b] EXCEPT !.status = "hired"].status = "hired"
          /\ [app[b] EXCEPT !.status = "hired"].job = j
      BY <1>4, <1>5, <3>1, AppFields
    <3> QED BY <2>1, <3>2
  <2> HIDE DEF j
  <2>4. job'[j].project = p
    <3>1. j \in Job /\ job[j].status # "none" /\ job[j].project = p
      BY <2>1, <2>2
    <3> QED BY <3>1, JobStep DEF JobGoesOn, BookInv, LogInv
  <2>5. (b \in Known)' /\ Since(b)' = project[p].start
    BY <1>3, <1>5, <2>3, <2>4, SincesNext
  <2>6. ~Reads(call'[b])
    BY <1>2, <1>3, <1>5 DEF MayJoin, Reads
  <2>7. cursor'[b] = project[p].start /\ project[p].start \in Nat
    BY <1>2, <1>5 DEF Books
  <2> QED BY <2>5, <2>6, <2>7, ReaderJoins
<1>6. CASE b \notin won
  <2>1. cursor'[b] = cursor[b] /\ call'[b] = call[b]
    BY <1>2, <1>3, <1>6
  <2>2. subs'[b] = subs[b]
    BY <1>1, <1>6, Zenon DEF HireEffect
  <2>3. Calm(b)
    BY <1>3, <2>1, <2>2 DEF Calm
  <2>4. ASSUME b \in Applicant PROVE StatusStays(b)
    <3>1. app'[b] = IF app[b].status = "pending" /\ app[b].job \in jobs
                    THEN [app[b] EXCEPT !.status = "rejected"] ELSE app[b]
      BY <1>1, <1>6, <2>4, Zenon DEF HireEffect
    <3>2. [app[b] EXCEPT !.status = "rejected"].status = "rejected"
      BY <1>4, <2>4, Hired
    <3> QED BY <3>1, <3>2 DEF StatusStays
  <2>5. Steady(b)
    BY <1>3, <2>3, <2>4, SteadyIs
  <2> QED BY <1>4, <2>5, ReaderSteady
<1> QED BY <1>5, <1>6

LEMMA MailStep ==
  ASSUME CalmJoin, BookInv, BookInv', Books, MailInv, [Next]_vars
  PROVE  MailInv'
<1> SUFFICES ASSUME NEW b \in Agent PROVE Reader(b)'
  BY DEF MailInv
<1>1. Reader(b) /\ IInv
  BY DEF MailInv, BookInv, LogInv
<1>2. CASE Undisturbed
  <2>1. Steady(b)
    BY <1>2, SteadyIs DEF Undisturbed
  <2> QED BY <1>1, <2>1, ReaderSteady
<1>3. ASSUME NEW a \in Agent,
             Ack(a) \/ InboxCursor(a) \/ InboxTopics(a) \/ InboxRead(a) \/ InboxMark(a)
      PROVE  Reader(b)'
  <2>1. CASE b = a
    BY <1>1, <1>3, <2>1, OwnMail
  <2>2. CASE b # a
    BY <1>1, <1>3, <2>2, OthersMail, ReaderSteady
  <2> QED BY <2>1, <2>2
<1>4. ASSUME NEW p \in Project, ProjectPost(p) \/ ProjectClose(p) \/ JobHire(p)
      PROVE  Reader(b)'
  BY <1>4, ProjectMail, CloseMail, HireMailed
<1>5. ASSUME NEW a \in Applicant, NEW j \in Job, JobApply(a, j) PROVE Reader(b)'
  BY <1>5, ApplyMail
<1>6. Moves => Reader(b)'
  BY <1>3, <1>4, <1>5 DEF Moves
<1> QED BY <1>1, <1>2, <1>6, MovesOrNot

\* README.md, "Read unread mail": when nobody joins a channel in the middle of its inbox,
\* a message below the cursor of a reader was shown to it, whatever is killed in between.
THEOREM NoMailSkipped ==
  ASSUME CalmJoin PROVE Spec => []NothingSkipped
<1>1. Init => MailInv
  <2> SUFFICES ASSUME Init, NEW a \in Agent PROVE Reader(a)
    BY DEF MailInv
  <2>1. /\ \A p \in Project : project[p].status = "none"
        /\ \A b \in Applicant : app[b].status = "none"
        /\ call[a] = Idle
    BY DEF Init
  <2>2. a \notin Known
    BY <2>1 DEF Known
  <2>3. ~Reads(call[a])
    BY <2>1, QuietCalls
  <2>4. call[a].cmd = "idle"
    BY <2>1, CallFields
  <2>5. "idle" # "project close" /\ "idle" # "inbox"
    BY Zenon
  <2> QED BY <2>2, <2>3, <2>4, <2>5, Zenon DEF Reader
<1>2. BookInv /\ BookInv' /\ Books /\ MailInv /\ [Next]_vars => MailInv'
  BY MailStep
<1>3. MailInv => NothingSkipped
  <2>1. Known \subseteq Agent
    BY DEF Known, Agent
  <2> QED BY <2>1, ReaderHas DEF MailInv, NothingSkipped, Shown
<1> QED BY <1>1, <1>2, <1>3, AlwaysBooks, PTL DEF Spec

-----------------------------------------------------------------------------
(* Jobs that somebody reads                                                *)

\* A job that was shown: its views are never taken back.
WasShown(j) == j \in Job /\ job[j].status # "none" /\ job[j].views > 0
ReadInv == \A a \in Agent : call[a].cmd = "reading" => WasShown(call[a].arg)

LEMMA ViewsKept ==
  ASSUME NEW r \in JobRow
  PROVE  /\ \A s : [r EXCEPT !.status = s].views = r.views
         /\ \A s, e : [r EXCEPT !.status = s, !.engineer = e].views = r.views
         /\ \A n : [r EXCEPT !.views = n].views = n
BY DEF JobRow

LEMMA ExpiredViews ==
  ASSUME Rows
  PROVE  \A j \in Job : ExpiredJobs[j].views = job[j].views
BY ViewsKept DEF Rows, ExpiredJobs

\* No step takes a view back.
LEMMA ViewsGrow ==
  ASSUME IInv, IsLog(log), [Next]_vars
  PROVE  \A j \in Job : job[j].status # "none" => job'[j].views >= job[j].views
<1>1. Rows /\ (\A j \in Job : job[j] \in JobRow) /\ job \in [Job -> JobRow]
  BY DEF IInv, Rows
<1>2. \A j \in Job : job[j].views \in Nat
  BY <1>1, JobFields
<1> DEFINE Keeps(j) == job[j].status # "none" => job'[j].views >= job[j].views
<1>3. ASSUME NEW j \in Job, job'[j] = job[j] \/ job'[j] = ExpiredJobs[j] PROVE Keeps(j)
  BY <1>1, <1>2, <1>3, ExpiredViews
<1>4. ASSUME Quiet \/ Expiry PROVE \A k \in Job : Keeps(k)
  BY <1>3, <1>4 DEF Quiet, Expiry
<1>5. ASSUME NEW j \in Job, Viewed(j) PROVE \A k \in Job : Keeps(k)
  <2>1. job' = [job EXCEPT ![j] = [job[j] EXCEPT !.views = job[j].views + 1]]
    BY <1>5 DEF Viewed
  <2>2. /\ job'[j].views = job[j].views + 1
        /\ \A k \in Job \ {j} : job'[k] = job[k]
    BY <1>1, <2>1, ViewsKept
  <2> QED BY <1>2, <1>3, <2>2
<1>6. ASSUME NEW p \in Project, NEW j \in Job, JobPost(p, j) PROVE \A k \in Job : Keeps(k)
  <2>1. /\ job[j].status = "none"
        /\ \A k \in Job \ {j} : job'[k] = ExpiredJobs[k]
    BY <1>6 DEF JobPost, ExpiredJobs
  <2> QED BY <1>3, <2>1
<1>7. ASSUME NEW a \in Applicant, NEW j \in Job, JobApply(a, j) PROVE \A k \in Job : Keeps(k)
  <2>1. job' = ExpiredJobs
    BY <1>7 DEF JobApply
  <2> QED BY <1>3, <2>1
<1>8. ASSUME NEW p \in Project, JobHire(p) PROVE \A k \in Job : Keeps(k)
  <2>1. PICK won \in SUBSET Applicant, jobs \in SUBSET Job : HireEffect(p, won, jobs)
    BY <1>8, HireRows
  <2>2. ASSUME NEW j \in jobs PROVE Keeps(j)
    <3>1. PICK e \in won : job'[j] = [job[j] EXCEPT !.status = "filled", !.engineer = e]
      BY <2>1 DEF HireEffect
    <3>2. job'[j].views = job[j].views
      BY <1>1, <3>1, ViewsKept
    <3> QED BY <1>2, <3>2
  <2>3. \A j \in Job \ jobs : job'[j] = job[j]
    BY <2>1 DEF HireEffect
  <2> QED BY <1>3, <2>2, <2>3
<1>9. ASSUME NEW p \in Project, JobClose(p) PROVE \A k \in Job : Keeps(k)
  <2>1. PICK j \in Job : job' = [job EXCEPT ![j].status = "closed"]
    BY <1>9, CloseRows
  <2>2. /\ job'[j].views = job[j].views
        /\ \A k \in Job \ {j} : job'[k] = job[k]
    BY <1>1, <2>1, ViewsKept
  <2> QED BY <1>2, <1>3, <2>2
<1> HIDE DEF Keeps
<1>10. \A k \in Job : Keeps(k)
  BY <1>4, <1>5, <1>6, <1>7, <1>8, <1>9, Cases
<1> QED BY <1>10 DEF Keeps

\* A job begins to be read only when it is shown.
Shows(a) == \E j \in PickOpen : /\ job' = [job EXCEPT ![j].views = @ + 1]
                                /\ call' = [call EXCEPT ![a] = Call("reading", j, {})]
LEMMA ReadStarts ==
  ASSUME IInv, [Next]_vars
  PROVE  \/ \A a \in Agent : call'[a] = call[a] \/ call'[a].cmd # "reading"
         \/ \E a \in Applicant : Shows(a)
<1> DEFINE Right(c) == c.cmd # "reading"
<1> DEFINE Others == \A a \in Agent : call'[a] = call[a] \/ Right(call'[a])
<1>1. DOMAIN call = Agent
  BY DEF IInv, Rows
<1>2. ASSUME NEW a \in Agent, NEW c, call' = [call EXCEPT ![a] = c], Right(c) PROVE Others
  BY <1>1, <1>2
<1>3. \A cmd, arg, topics : cmd # "reading" => Right(Call(cmd, arg, topics))
  BY DEF Call
<1>4. Right(Idle)
  BY <1>3 DEF Idle
<1>5. UNCHANGED call => Others
  OBVIOUS
<1> HIDE DEF Right, Others
<1> USE DEF Goto, Begin, End
<1>6. ASSUME NEW a \in Agent, Say(a) \/ Sub(a) \/ Ack(a) \/ Inbox(a) \/ Kill(a)
      PROVE  Others
  <2>1. CASE Say(a) \/ Sub(a) \/ Ack(a)
    BY <1>5, <2>1 DEF Say, Sub, Ack
  <2>2. CASE InboxCursor(a)
    <3>1. call' = [call EXCEPT ![a] = Call("topics", cursor[a], {})]
      BY <2>2 DEF InboxCursor
    <3> QED BY <3>1, <1>2, <1>3
  <2>3. CASE InboxTopics(a)
    <3>1. call' = [call EXCEPT ![a] = Call("inbox", call[a].arg, Own(a) \cup subs[a])]
      BY <2>3 DEF InboxTopics
    <3> QED BY <3>1, <1>2, <1>3
  <2>4. CASE InboxRead(a)
    <3>1. call' = [call EXCEPT ![a] = Call("mark", Max({0} \cup Unread(a)), {})]
      BY <2>4 DEF InboxRead
    <3> QED BY <3>1, <1>2, <1>3
  <2>5. CASE InboxMark(a) \/ Kill(a)
    BY <2>5, <1>2, <1>4 DEF InboxMark, Kill
  <2> QED
    BY <1>6, <2>1, <2>2, <2>3, <2>4, <2>5 DEF Inbox
<1>7. ASSUME NEW a \in Applicant, ShowStart(a) \/ ShowEnd(a) PROVE Others
  <2>1. a \in Agent
    BY DEF Agent
  <2>2. CASE ShowStart(a)
    <3>1. call' = [call EXCEPT ![a] = Call("show", None, {})]
      BY <2>2 DEF ShowStart
    <3> QED BY <2>1, <3>1, <1>2, <1>3
  <2>3. CASE ShowEnd(a)
    BY <2>1, <2>3, <1>2, <1>4 DEF ShowEnd
  <2> QED BY <1>7, <2>2, <2>3
<1>8. ASSUME NEW a \in Applicant, ShowPick(a) PROVE Shows(a)
  BY <1>8 DEF ShowPick, Shows
<1>9. ASSUME NEW a \in Applicant, NEW j \in Job, JobApply(a, j) PROVE Others
  BY <1>2, <1>4, <1>9 DEF JobApply, Agent
<1>10. ASSUME NEW p \in Project,
              ProjectPost(p) \/ ProjectCloseCheck(p) \/ ProjectClose(p) \/ JobHire(p) \/ JobClose(p)
       PROVE  Others
  <2>1. Right(Call("project close", None, {}))
    <3>1. "project close" # "reading"
      BY Zenon
    <3> QED BY <3>1, <1>3, Zenon
  <2>2. \/ UNCHANGED call \/ call' = [call EXCEPT ![p] = Idle]
        \/ call' = [call EXCEPT ![p] = Call("project close", None, {})]
    BY <1>10 DEF ProjectPost, ProjectCloseCheck, ProjectClose, JobHire, JobClose
  <2> QED BY <1>2, <1>4, <1>5, <2>1, <2>2 DEF Agent
<1>11. ASSUME NEW p \in Project, NEW j \in Job, JobCloseResolve(p, j) PROVE Others
  <2>1. call' = [call EXCEPT ![p] = Call("job close", j, {})]
    BY <1>11 DEF JobCloseResolve
  <2>2. Right(Call("job close", j, {}))
    <3>1. "job close" # "reading"
      BY Zenon
    <3> QED BY <3>1, <1>3, Zenon
  <2> QED BY <1>2, <2>1, <2>2 DEF Agent
<1>12. ASSUME \/ UNCHANGED vars \/ JobList \/ (\E j \in Job : Age(j))
              \/ (\E p \in Project, j \in Job : JobPost(p, j))
       PROVE  Others
  BY <1>5, <1>12 DEF vars, Age, JobList, JobPost
<1> HIDE DEF Shows
<1>13. Others \/ \E a \in Applicant : Shows(a)
  BY <1>6, <1>7, <1>8, <1>9, <1>10, <1>11, <1>12 DEF Next
<1> QED
  BY <1>13 DEF Others, Right

LEMMA ReadStep ==
  ASSUME IInv, IsLog(log), [Next]_vars, ReadInv
  PROVE  ReadInv'
<1>1. ASSUME NEW j \in Job, job[j].status # "none" PROVE job'[j].status # "none"
  <2>1. job[j].status \in JobStatus
    BY JobFields DEF IInv, Rows
  <2>2. job'[j].status \in Life(job[j].status)
    BY JobStep DEF JobGoesOn
  <2> QED BY <1>1, <2>1, <2>2, LifeStays
<1>2. \A j \in Job : job[j].views \in Nat /\ job'[j].views \in Nat
  BY JobStep, JobFields DEF IInv, Rows
<1>3. ASSUME NEW j, WasShown(j) PROVE WasShown(j)'
  BY <1>1, <1>2, <1>3, ViewsGrow DEF WasShown
<1>4. CASE \A a \in Agent : call'[a] = call[a] \/ call'[a].cmd # "reading"
  <2>1. ASSUME NEW a \in Agent, call'[a].cmd = "reading" PROVE WasShown(call[a].arg)'
    <3>1. call'[a] = call[a]
      BY <1>4, <2>1
    <3>2. WasShown(call[a].arg)
      BY <2>1, <3>1 DEF ReadInv
    <3> QED BY <1>1, <1>2, <3>1, <3>2, ViewsGrow DEF WasShown
  <2> QED BY <2>1 DEF ReadInv
<1>5. ASSUME NEW a \in Applicant, Shows(a) PROVE ReadInv'
  <2>1. PICK j \in PickOpen : /\ job' = [job EXCEPT ![j].views = @ + 1]
                              /\ call' = [call EXCEPT ![a] = Call("reading", j, {})]
    BY <1>5 DEF Shows
  <2>2. j \in Job /\ job[j].status = "open"
    BY <2>1 DEF PickOpen, OpenJobs
  <2>3. job \in [Job -> JobRow] /\ DOMAIN call = Agent
    BY DEF IInv, Rows
  <2>4. job'[j].views = job[j].views + 1
    BY <2>1, <2>2, <2>3, ViewsKept
  <2>5. job'[j].status # "none"
    BY <1>1, <2>2
  <2>6. ASSUME NEW b \in Agent, call'[b].cmd = "reading" PROVE WasShown(call[b].arg)'
    <3>1. CASE b = a
      <4>1. call'[b].arg = j
        BY <2>1, <2>3, <3>1, CallFields
      <4> QED BY <1>2, <2>2, <2>4, <2>5, <4>1 DEF WasShown
    <3>2. CASE b # a
      <4>1. call'[b] = call[b]
        BY <2>1, <2>3, <3>2
      <4>2. WasShown(call[b].arg)
        BY <2>6, <4>1 DEF ReadInv
      <4> QED BY <1>1, <1>2, <4>1, <4>2, ViewsGrow DEF WasShown
    <3> QED BY <3>1, <3>2
  <2> QED BY <2>6 DEF ReadInv
<1> QED
  BY <1>4, <1>5, ReadStarts

\* job show --next: an engineer is shown a job that another one reads only when every
\* open job was shown to somebody or is applied for.
THEOREM FreshJobsShownFirst == Spec => FreshJobsFirst
<1> DEFINE Fresh == \A a \in Applicant :
             ShowPick(a) /\ ReadBy(call'[a].arg) # {} => \A j \in OpenJobs : Load(j) > 0
<1>1. Init => ReadInv
  <2>1. Idle.cmd # "reading"
    BY CallFields
  <2> QED BY <2>1 DEF Init, ReadInv
<1>2. LogInv /\ ReadInv /\ [Next]_vars => ReadInv'
  BY ReadStep DEF LogInv
<1>3. ASSUME LogInv, ReadInv PROVE Fresh
  <2>1. job \in [Job -> JobRow] /\ DOMAIN call = Agent
    BY <1>3 DEF LogInv, IInv, Rows
  <2>2. \A j \in Job : Cardinality(Pending(j)) \in Nat /\ job[j].views \in Nat /\ Load(j) \in Nat
    <3>1. ASSUME NEW j \in Job PROVE Cardinality(Pending(j)) \in Nat
      <4>1. Pending(j) \subseteq Applicant
        BY DEF Pending
      <4> QED BY <4>1, FS_Subset, FS_CardinalityType, BoardAssumption DEF BoardAssumption
    <3>2. \A j \in Job : job[j].views \in Nat
      BY <2>1, JobFields
    <3> QED BY <3>1, <3>2 DEF Load
  <2>3. ASSUME NEW a \in Applicant, ShowPick(a), ReadBy(call'[a].arg) # {}, NEW k \in OpenJobs
        PROVE  Load(k) > 0
    <3>1. PICK j \in PickOpen : call' = [call EXCEPT ![a] = Call("reading", j, {})]
      BY <2>3 DEF ShowPick, Goto
    <3>2. call'[a].arg = j
      BY <2>1, <3>1, CallFields DEF Agent
    <3>3. PICK b \in Applicant : call[b].cmd = "reading" /\ call[b].arg = j
      BY <2>3, <3>2 DEF ReadBy
    <3>4. j \in Job /\ job[j].views > 0
      BY <1>3, <3>3 DEF ReadInv, WasShown, Agent
    <3>5. Load(j) > 0
      BY <2>2, <3>4 DEF Load
    <3>6. Before(j, k) /\ k \in Job
      BY <3>1 DEF PickOpen, OpenJobs
    <3> QED BY <2>2, <3>4, <3>5, <3>6 DEF Before
  <2> QED BY <2>3
<1>4. LogInv /\ ReadInv /\ [Next]_vars => [Fresh]_vars
  BY <1>3
<1> HIDE DEF Fresh
<1>5. Spec => [](LogInv /\ ReadInv)
  BY <1>1, <1>2, Always, PTL DEF Spec
<1>6. Spec => [][Fresh]_vars
  BY <1>4, <1>5, PTL DEF Spec
<1> QED
  BY <1>6 DEF FreshJobsFirst, Fresh
=============================================================================

------------------------------ MODULE PathLock ------------------------------
(***************************************************************************)
(* team/mb/src/mb/lock.sh: path locks kept as files under <lock dir>/held, *)
(* owner heartbeats under <lock dir>/owners, and a mkdir mutex around      *)
(* every change of held/.  Each process is one invocation of the script;   *)
(* the script's steps between two file system operations are atomic, and   *)
(* any number of invocations interleave.                                   *)
(*                                                                         *)
(* `granted` is the one variable the script does not store: the paths each *)
(* owner has been given by an acquire and has not given up since.          *)
(***************************************************************************)
EXTENDS Integers

CONSTANTS
  Proc,            \* invocations of lock.sh that may run at the same time
  Owner, NoOwner,  \* owners, and "no lock file"
  OwnerOf,         \* OwnerOf[p]: the OWNER argument of p's calls
  Path, Below,     \* canonical paths and the inside-of relation (LockTable)
  PathSets,        \* the PATH... arguments a call may name
  Cmds,            \* the commands the processes issue
  WaitSecs,        \* the SECONDS argument of wait
  BusySecs,        \* the BUSY_SECONDS argument of alive (NoBusy: not given)
  StaleAfter,      \* STALE_AFTER
  MutexStaleSecs,  \* MUTEX_STALE_SECS
  MaxTries,        \* attempts on the mutex before the call dies (600 in the script)
  CanStall,        \* TRUE: a step may take longer than MutexStaleSecs
  KillPoints,      \* program points at which an invocation may be killed
  MaxKills,        \* bound: how many invocations are killed
  MaxTime          \* bound: the last value of the clock

Commands == {"acquire", "wait", "release", "release-all", "alive",
             "reap", "reap --force", "break"}

\* The program points between mutex_lock's mkdir and mutex_unlock's rm.
InMutex == {"stamp", "scan", "write", "remove", "unlock"}
Points == {"idle", "hbread", "hbwrite", "reapcheck", "mkdir", "judge"} \cup InMutex

NoBusy == -1       \* heartbeat without a BUSY_SECONDS argument
Empty == -1        \* $MUTEX/t is missing or empty
Never == -StaleAfter - 1   \* an absent time reads as 0, far in the past

ASSUME ConstantsAssumption ==
  /\ NoOwner \notin Owner
  /\ OwnerOf \in [Proc -> Owner]
  /\ PathSets \subseteq SUBSET Path /\ {} \notin PathSets
  /\ Cmds \subseteq Commands
  /\ WaitSecs \subseteq Nat
  /\ BusySecs \subseteq Nat \cup {NoBusy}
  /\ StaleAfter \in Nat
  /\ MutexStaleSecs \in Nat
  /\ MaxTries \in Nat
  /\ CanStall \in BOOLEAN
  /\ KillPoints \subseteq Points
  /\ MaxKills \in Nat
  /\ MaxTime \in Nat

VARIABLES
  now,        \* date +%s
  holder,     \* held/: the owner line of each path's lock file, or NoOwner
  lockedAt,   \* held/: its time line (Never without a lock file)
  lastSeen,   \* owners/: last_seen of each owner (Never without an owner file)
  busyUntil,  \* owners/: busy_until of each owner (Never without one)
  mutex,      \* the directory .mutex: is it there, and the time in .mutex/t
  granted,    \* what each owner has been given (see above)
  pc,         \* the program point of each invocation
  call,       \* its arguments
  todo,       \* the paths its loop has still to write or to remove
  peeked,     \* `born`: the mutex time mutex_lock read
  tries,      \* failed attempts on the mutex
  hb,         \* the heartbeat it is about to write
  rc,         \* ACQ_RC, the exit code of an acquire
  kills       \* invocations killed so far

files == <<holder, lockedAt>>
owners == <<lastSeen, busyUntil>>
disk == <<files, owners, mutex>>
locals == <<pc, call, todo, peeked, tries, hb, rc>>
vars == <<now, disk, granted, locals, kills>>

Table == INSTANCE LockTable WITH granted <- granted
\* Mutant: a lock on a file does not block its parent directories.
Conflict_ParentForgotten(a, b) == Table!Covers(a, b)
Conflict(a, b) == Table!Conflict(a, b)

NoCall == [cmd |-> "alive", paths |-> {}, until |-> 0, busy |-> NoBusy,
           target |-> NoOwner]
NoBeat == [t |-> 0, busy |-> 0]

ArgLists(cmds, pathLists, untils, busy, targets) ==
  [cmd : cmds, paths : pathLists, until : untils, busy : busy, target : targets]

\* The argument lists of the command line, with the defaults of the unused ones.
Calls ==
  {a \in ArgLists({"acquire", "release", "break"}, PathSets, {0}, {NoBusy}, {NoOwner})
     \cup ArgLists({"wait"}, PathSets, {now + s : s \in WaitSecs}, {NoBusy}, {NoOwner})
     \cup ArgLists({"release-all"}, {{}}, {0}, {0}, {NoOwner})
     \cup ArgLists({"alive"}, {{}}, {0}, BusySecs, {NoOwner})
     \cup ArgLists({"reap", "reap --force"}, {{}}, {0}, {NoBusy}, Owner) :
     a.cmd \in Cmds /\ a.until <= MaxTime}

Init ==
  /\ now = 0
  /\ holder = [c \in Path |-> NoOwner]
  /\ lockedAt = [c \in Path |-> Never]
  /\ lastSeen = [o \in Owner |-> Never]
  /\ busyUntil = [o \in Owner |-> Never]
  /\ mutex = [up |-> FALSE, born |-> Empty]
  /\ granted = [o \in Owner |-> {}]
  /\ pc = [p \in Proc |-> "idle"]
  /\ call = [p \in Proc |-> NoCall]
  /\ todo = [p \in Proc |-> {}]
  /\ peeked = [p \in Proc |-> Empty]
  /\ tries = [p \in Proc |-> 0]
  /\ hb = [p \in Proc |-> NoBeat]
  /\ rc = [p \in Proc |-> 0]
  /\ kills = 0

Goto(p, l) == pc' = [pc EXCEPT ![p] = l]

\* The process ends, and its variables with it.
Exit(p) ==
  /\ Goto(p, "idle")
  /\ call' = [call EXCEPT ![p] = NoCall]
  /\ tries' = [tries EXCEPT ![p] = 0]
  /\ rc' = [rc EXCEPT ![p] = 0]

\* STALE: not seen for StaleAfter seconds, neither in its owner file nor by a
\* lock it took, and not inside its declared busy window.
Stale(o) ==
  /\ now - lastSeen[o] > StaleAfter
  /\ \A c \in Path : holder[c] = o => now - lockedAt[c] > StaleAfter
  /\ now > busyUntil[o]

\* A command line is typed.  An owner that releases stops relying on the paths.
Start(p) ==
  /\ pc[p] = "idle"
  /\ \E a \in Calls :
       /\ call' = [call EXCEPT ![p] = a]
       /\ Goto(p, CASE a.cmd \in {"reap", "reap --force"} -> "reapcheck"
                    [] a.cmd = "break" -> "mkdir"
                    [] OTHER -> "hbread")
       /\ granted' = [granted EXCEPT ![OwnerOf[p]] =
                        CASE a.cmd = "release" -> @ \ a.paths
                          [] a.cmd = "release-all" -> {}
                          [] OTHER -> @]
  /\ UNCHANGED <<now, disk, todo, peeked, tries, hb, rc, kills>>

-----------------------------------------------------------------------------
(* heartbeat: the owner file is read, then replaced by a rename.           *)

\* Mutant: a heartbeat without BUSY_SECONDS ends the window.
HeartbeatRead_Forgets(p) ==
  /\ pc[p] = "hbread"
  /\ hb' = [hb EXCEPT ![p] =
              [t |-> now, busy |-> IF call[p].busy = NoBusy THEN 0 ELSE now + call[p].busy]]
  /\ Goto(p, "hbwrite")
  /\ UNCHANGED <<now, disk, granted, call, todo, peeked, tries, rc, kills>>

HeartbeatRead(p) ==
  /\ pc[p] = "hbread"
  /\ hb' = [hb EXCEPT ![p] =
              [t |-> now, busy |-> IF call[p].busy = NoBusy
                                   THEN busyUntil[OwnerOf[p]]
                                   ELSE now + call[p].busy]]
  /\ Goto(p, "hbwrite")
  /\ UNCHANGED <<now, disk, granted, call, todo, peeked, tries, rc, kills>>

HeartbeatWrite(p) ==
  /\ pc[p] = "hbwrite"
  /\ lastSeen' = [lastSeen EXCEPT ![OwnerOf[p]] = hb[p].t]
  /\ busyUntil' = [busyUntil EXCEPT ![OwnerOf[p]] = hb[p].busy]
  /\ hb' = [hb EXCEPT ![p] = NoBeat]
  /\ IF call[p].cmd = "alive" THEN Exit(p)
     ELSE Goto(p, "mkdir") /\ UNCHANGED <<call, tries, rc>>
  /\ UNCHANGED <<now, files, mutex, granted, todo, peeked, kills>>

\* reap looks at the owner before it takes the mutex; --force does not ask.
ReapCheck(p) ==
  /\ pc[p] = "reapcheck"
  /\ IF call[p].cmd = "reap" /\ ~Stale(call[p].target) THEN Exit(p)
     ELSE Goto(p, "mkdir") /\ UNCHANGED <<call, tries, rc>>
  /\ UNCHANGED <<now, disk, granted, todo, peeked, hb, kills>>

-----------------------------------------------------------------------------
(* mutex_lock and mutex_unlock                                             *)

Mkdir(p) ==
  /\ pc[p] = "mkdir"
  /\ ~mutex.up
  /\ mutex' = [up |-> TRUE, born |-> Empty]
  /\ tries' = [tries EXCEPT ![p] = 0]
  /\ Goto(p, "stamp")
  /\ UNCHANGED <<now, files, owners, granted, call, todo, peeked, hb, rc, kills>>

\* mkdir fails; the waiter reads when the mutex was taken.
Peek(p) ==
  /\ pc[p] = "mkdir"
  /\ mutex.up
  /\ peeked' = [peeked EXCEPT ![p] = mutex.born]
  /\ Goto(p, "judge")
  /\ UNCHANGED <<now, disk, granted, call, todo, tries, hb, rc, kills>>

\* Mutant: a mutex without a time in it counts as stale.
MutexStale_EmptyToo(p) == peeked[p] = Empty \/ now - peeked[p] > MutexStaleSecs
\* Mutant: the age is computed the wrong way round.
MutexStale_Reversed(p) == peeked[p] # Empty /\ peeked[p] - now > MutexStaleSecs

MutexStale(p) == peeked[p] # Empty /\ now - peeked[p] > MutexStaleSecs

\* A mutex that is too old is removed, whoever holds it by now.
BreakMutex(p) ==
  /\ pc[p] = "judge"
  /\ MutexStale(p)
  /\ mutex' = [up |-> FALSE, born |-> Empty]
  /\ peeked' = [peeked EXCEPT ![p] = Empty]
  /\ Goto(p, "mkdir")
  /\ UNCHANGED <<now, files, owners, granted, call, todo, tries, hb, rc, kills>>

\* Mutant: wait never gives up.
TriesAgain_Forever(p, code) == call[p].cmd = "wait" /\ code \notin {0, 3}
\* wait tries again after anything but success, a timeout, or rc 3.
TriesAgain(p, code) == call[p].cmd = "wait" /\ code \notin {0, 3} /\ now < call[p].until

\* What follows an attempt to acquire that ended with a code, or any other command.
Finish(p, code) ==
  IF TriesAgain(p, code)
  THEN /\ Goto(p, "hbread")
       /\ tries' = [tries EXCEPT ![p] = 0]
       /\ rc' = [rc EXCEPT ![p] = 0]
       /\ UNCHANGED call
  ELSE Exit(p)

\* Otherwise it sleeps and tries again, or dies after MaxTries attempts (which
\* wait, running it in a subshell, survives).
Retry(p) ==
  /\ pc[p] = "judge"
  /\ ~MutexStale(p)
  /\ peeked' = [peeked EXCEPT ![p] = Empty]
  /\ IF tries[p] < MaxTries
     THEN /\ tries' = [tries EXCEPT ![p] = @ + 1]
          /\ Goto(p, "mkdir")
          /\ UNCHANGED <<call, rc>>
     ELSE Finish(p, 2)
  /\ UNCHANGED <<now, disk, granted, todo, hb, kills>>

\* Mutant: the time is written into a mutex that is not there any more.
Stamp_Blind(p) ==
  /\ pc[p] = "stamp"
  /\ mutex' = [mutex EXCEPT !.born = now]
  /\ Goto(p, "scan")
  /\ UNCHANGED <<now, files, owners, granted, call, todo, peeked, tries, hb, rc, kills>>
\* `now > $MUTEX/t` fails without effect when the directory is gone.
Stamp(p) ==
  /\ pc[p] = "stamp"
  /\ mutex' = IF mutex.up THEN [mutex EXCEPT !.born = now] ELSE mutex
  /\ Goto(p, "scan")
  /\ UNCHANGED <<now, files, owners, granted, call, todo, peeked, tries, hb, rc, kills>>

Unlock(p) ==
  /\ pc[p] = "unlock"
  /\ mutex' = [up |-> FALSE, born |-> Empty]
  /\ Finish(p, rc[p])
  /\ UNCHANGED <<now, files, owners, granted, todo, peeked, hb, kills>>

-----------------------------------------------------------------------------
(* do_acquire                                                              *)

\* Mutant: a stale owner's locks are taken over silently.
ConflictsFor_StaleIgnored(P, me) ==
  {q \in Path : /\ holder[q] \notin {NoOwner, me} /\ ~Stale(holder[q])
                /\ \E c \in P : Conflict(q, c)}
\* The locks of other owners that overlap a path of P.
ConflictsFor(P, me) ==
  {q \in Path : holder[q] \notin {NoOwner, me} /\ \E c \in P : Conflict(q, c)}

Scan(p) ==
  /\ pc[p] = "scan"
  /\ call[p].cmd \in {"acquire", "wait"}
  /\ LET bad == ConflictsFor(call[p].paths, OwnerOf[p])
     IN  IF bad = {}
         THEN /\ todo' = [todo EXCEPT ![p] = call[p].paths]
              /\ rc' = [rc EXCEPT ![p] = 0]
              /\ Goto(p, "write")
         ELSE /\ rc' = [rc EXCEPT ![p] =
                          IF \A q \in bad : Stale(holder[q]) THEN 3 ELSE 1]
              /\ Goto(p, "unlock")
              /\ UNCHANGED todo
  /\ UNCHANGED <<now, disk, granted, call, peeked, tries, hb, kills>>

\* The lock files are written one after the other; the last one completes the call.
Write(p) ==
  /\ pc[p] = "write"
  /\ \E c \in todo[p] :
       /\ holder' = [holder EXCEPT ![c] = OwnerOf[p]]
       /\ lockedAt' = [lockedAt EXCEPT ![c] = now]
       /\ todo' = [todo EXCEPT ![p] = @ \ {c}]
       /\ IF todo[p] = {c}
          THEN /\ granted' = [granted EXCEPT ![OwnerOf[p]] = @ \cup call[p].paths]
               /\ Goto(p, "unlock")
          ELSE UNCHANGED <<granted, pc>>
  /\ UNCHANGED <<now, owners, mutex, call, peeked, tries, hb, rc, kills>>

-----------------------------------------------------------------------------
(* do_release, remove_all_of and do_break: one loop over lock files        *)

ByName(p) == call[p].cmd \in {"release", "break"}

\* Mutant: release does not look at the owner line.
MayRemove_Anyone(p, o) ==
  \/ call[p].cmd = "release-all" /\ o = OwnerOf[p]
  \/ call[p].cmd \in {"reap", "reap --force"} /\ o = call[p].target
  \/ call[p].cmd \in {"break", "release"}
\* Whose lock files the loop may remove.
MayRemove(p, o) ==
  \/ call[p].cmd \in {"release", "release-all"} /\ o = OwnerOf[p]
  \/ call[p].cmd \in {"reap", "reap --force"} /\ o = call[p].target
  \/ call[p].cmd = "break"

\* The loop runs over the named paths, or over every lock file there is.
Glob(p) ==
  /\ pc[p] = "scan"
  /\ call[p].cmd \notin {"acquire", "wait"}
  /\ todo' = [todo EXCEPT ![p] = IF ByName(p) THEN call[p].paths
                                 ELSE {c \in Path : holder[c] # NoOwner}]
  /\ Goto(p, "remove")
  /\ UNCHANGED <<now, disk, granted, call, peeked, tries, hb, rc, kills>>

Remove(p) ==
  /\ pc[p] = "remove"
  /\ \E c \in todo[p] :
       /\ todo' = [todo EXCEPT ![p] = @ \ {c}]
       /\ IF holder[c] # NoOwner /\ MayRemove(p, holder[c])
          THEN /\ holder' = [holder EXCEPT ![c] = NoOwner]
               /\ lockedAt' = [lockedAt EXCEPT ![c] = Never]
               /\ granted' = [granted EXCEPT ![holder[c]] = @ \ {c}]
          ELSE UNCHANGED <<files, granted>>
  /\ UNCHANGED <<now, owners, mutex, pc, call, peeked, tries, hb, rc, kills>>

\* Mutant: the loop returns before its last path.
RemoveEnd_Early(p) ==
  /\ pc[p] = "remove"
  /\ rc' = [rc EXCEPT ![p] = 0]
  /\ Goto(p, "unlock")
  /\ UNCHANGED <<now, disk, granted, call, todo, peeked, tries, hb, kills>>

RemoveEnd(p) ==
  /\ pc[p] = "remove"
  /\ todo[p] = {}
  /\ rc' = [rc EXCEPT ![p] = 0]
  /\ Goto(p, "unlock")
  /\ UNCHANGED <<now, disk, granted, call, todo, peeked, tries, hb, kills>>

-----------------------------------------------------------------------------
(* The environment: the clock, and agents whose calls are killed.          *)

\* Without stalls, a critical section, and the reaction of a waiter to the mutex
\* time it read, are over before MutexStaleSecs have passed.
Prompt ==
  \A p \in Proc :
    /\ pc[p] \in InMutex => mutex.born = Empty \/ now - mutex.born < MutexStaleSecs
    /\ pc[p] = "judge" => peeked[p] = Empty \/ now - peeked[p] < MutexStaleSecs

Tick ==
  /\ now < MaxTime
  /\ CanStall \/ Prompt
  /\ now' = now + 1
  /\ UNCHANGED <<disk, granted, locals, kills>>

Kill(p) ==
  /\ pc[p] \in KillPoints \ {"idle"}
  /\ kills < MaxKills
  /\ kills' = kills + 1
  /\ Exit(p)
  /\ todo' = [todo EXCEPT ![p] = {}]
  /\ peeked' = [peeked EXCEPT ![p] = Empty]
  /\ hb' = [hb EXCEPT ![p] = NoBeat]
  /\ UNCHANGED <<now, disk, granted>>

Step(p) ==
  \/ HeartbeatRead(p) \/ HeartbeatWrite(p) \/ ReapCheck(p)
  \/ Mkdir(p) \/ Peek(p) \/ BreakMutex(p) \/ Retry(p) \/ Stamp(p) \/ Unlock(p)
  \/ Scan(p) \/ Write(p) \/ Glob(p) \/ Remove(p) \/ RemoveEnd(p)

Next == Tick \/ \E p \in Proc : Start(p) \/ Step(p) \/ Kill(p)

Spec == Init /\ [][Next]_vars

\* A running invocation keeps running (the scheduler does not forget it), and time
\* passes.  Nobody is obliged to type a command, or to be killed.
FairSpec == Spec /\ WF_vars(Tick) /\ \A p \in Proc : WF_vars(Step(p))

-----------------------------------------------------------------------------
(* Properties                                                              *)

\* No invocation dies or stalls between mutex_lock's mkdir and mutex_unlock's rm.
Reliable == ~CanStall /\ KillPoints \cap InMutex = {}

CallType == ArgLists(Commands, SUBSET Path, Int, Int, Owner \cup {NoOwner})
BeatType == [t : Int, busy : Int]
MutexStates == [up : {TRUE}, born : Int] \cup [up : {FALSE}, born : {Empty}]

\* The types of the variables.  A mutex directory that is absent has no time in it.
TypeOK ==
  /\ now \in 0..MaxTime
  /\ holder \in [Path -> Owner \cup {NoOwner}]
  /\ lockedAt \in [Path -> Int]
  /\ lastSeen \in [Owner -> Int]
  /\ busyUntil \in [Owner -> Int]
  /\ mutex \in MutexStates
  /\ granted \in [Owner -> SUBSET Path]
  /\ pc \in [Proc -> Points]
  /\ call \in [Proc -> CallType]
  /\ todo \in [Proc -> SUBSET Path]
  /\ peeked \in [Proc -> Int]
  /\ tries \in [Proc -> 0..MaxTries]
  /\ hb \in [Proc -> BeatType]
  /\ rc \in [Proc -> 0..3]
  /\ kills \in 0..MaxKills

\* The mutex of lock.sh:81-94 lets one invocation at a time read and change held/.
MutexExclusion ==
  \A p, q \in Proc : pc[p] \in InMutex /\ pc[q] \in InMutex => p = q

\* While somebody is inside, the directory is there, and it is never older than
\* MutexStaleSecs; nor is what a waiter has read of it when the waiter judges it.
MutexInv ==
  /\ MutexExclusion
  /\ mutex.up <=> \E p \in Proc : pc[p] \in InMutex
  /\ mutex.up /\ mutex.born # Empty => now - mutex.born <= MutexStaleSecs
  /\ \A p \in Proc :
       pc[p] = "judge" /\ peeked[p] # Empty => now - peeked[p] <= MutexStaleSecs

\* LOCKING.md: two owners are never given overlapping paths.
Exclusive == Table!Exclusive

\* The script keeps every promise of the lock table: an acquire takes all of its
\* paths in one step, and only when no other owner holds an overlapping one.
ImplementsTable == Table!Spec

\* lock.sh:14, "exit 0 got all": a call that reports success has a lock file in
\* its owner's name on every path it named at the moment it gives the mutex back.
SuccessMeansHeld ==
  \A p \in Proc :
    pc[p] = "unlock" /\ call[p].cmd \in {"acquire", "wait"} /\ rc[p] = 0 =>
      \A c \in call[p].paths : holder[c] = OwnerOf[p]

Acquires(p) == call[p].cmd \in {"acquire", "wait"}

\* What do_acquire found out under the mutex still holds when it writes: no other
\* owner's lock overlaps the named paths, and what is written already is the owner's.
ScanStillValid ==
  \A p \in Proc :
    pc[p] = "write" =>
      /\ Acquires(p)
      /\ ConflictsFor(call[p].paths, OwnerOf[p]) = {}
      /\ todo[p] \subseteq call[p].paths
      /\ \A c \in call[p].paths \ todo[p] : holder[c] = OwnerOf[p]

\* The lock files of two owners never overlap, and every path an owner was given
\* and has not given up has a lock file in its name.
FilesInv ==
  /\ \A c, d \in Path :
       Conflict(c, d) /\ holder[c] # NoOwner /\ holder[d] # NoOwner => holder[c] = holder[d]
  /\ \A o \in Owner : \A c \in granted[o] : holder[c] = o

\* A loop that removes lock files belongs to a command that removes some, and goes
\* over the paths the command line names.
RemovalsInv ==
  \A p \in Proc :
    pc[p] = "remove" =>
      /\ ~Acquires(p)
      /\ ByName(p) => todo[p] \subseteq call[p].paths

\* The inductive invariant of a reliable run.
IInv ==
  /\ TypeOK
  /\ MutexInv
  /\ FilesInv
  /\ ScanStillValid
  /\ SuccessMeansHeld
  /\ RemovalsInv

\* lock.sh:6, "taken ALL-OR-NOTHING": between critical sections an owner's lock
\* files make up whole calls.  (Stated for argument lists that are pairwise disjoint
\* and commands other than break, so that a part can only be left by a broken call.)
AllOrNothing ==
  ~mutex.up =>
    \A P \in PathSets, o \in Owner :
      (\E c \in P : holder[c] = o) => \A c \in P : holder[c] = o

\* lock.sh:11: nobody's lock is removed automatically.  A lock file changes hands
\* only by its owner's release, or by a reap of that owner or a break of that path.
RemovedOnPurpose ==
  [][\A c \in Path :
       holder[c] # NoOwner /\ holder'[c] # holder[c] =>
         \E p \in Proc :
           /\ pc[p] = "remove"
           /\ \/ call[p].cmd \in {"release", "release-all"} /\ holder[c] = OwnerOf[p]
              \/ call[p].cmd \in {"reap", "reap --force"} /\ holder[c] = call[p].target
              \/ call[p].cmd = "break" /\ c \in call[p].paths]_vars

\* An agent waits for a call to end before it types the next one.
OneCallPerOwner == \A p, q \in Proc : OwnerOf[p] = OwnerOf[q] => p = q

\* LOCKING.md rule 4: a declared busy window protects its owner until it ends.  A
\* heartbeat that declares nothing never takes it back.
BusyWindowKept ==
  [][\A o \in Owner :
       busyUntil'[o] < busyUntil[o] =>
         \E p \in Proc : OwnerOf[p] = o /\ pc[p] = "hbwrite" /\ call[p].busy # NoBusy]_vars

\* Every invocation comes to an end: no waiter hangs on the mutex, and wait ends
\* when its seconds are over.
EveryCallReturns == \A p \in Proc : pc[p] # "idle" ~> pc[p] = "idle"

\* A mutex whose holder was killed does not block the others for ever: while one of
\* them tries, the abandoned mutex is removed once it is too old.
DeadMutexRemoved ==
  \A p \in Proc :
    /\ pc[p] = "mkdir" /\ mutex.up /\ mutex.born # Empty
    /\ now - mutex.born > MutexStaleSecs
    ~> ~mutex.up
=============================================================================

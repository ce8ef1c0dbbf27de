----------------------------- MODULE CvService -----------------------------
(***************************************************************************)
(* examples/cvaccel: the accelerator service, its clients (cvclient over   *)
(* SimTransport and SimDevice) and the block with one worker per core.     *)
(* Every call into the service holds its one mutex, so a call is one       *)
(* action; the workers and the clients interleave between the calls.       *)
(*                                                                         *)
(* A request is its number; `req` holds what postConfig wrote down, which  *)
(* nothing changes afterwards.  Times are left out: `arrived` orders what  *)
(* tQueued orders.                                                         *)
(***************************************************************************)
EXTENDS MemoryPool, Sequences, FiniteSets, FiniteSetsExt

CONSTANTS
  Client,       \* clients, each with a device fd of its own
  Core,         \* CoreType
  MaxSessions,  \* kMaxSessions
  MaxQueue,     \* kMaxQueuePerCore
  MaxJobBytes,  \* kMaxJobBytes
  PriorityOf,   \* the priority each client opens its sessions with
  AllocSizes,   \* the sizes clients ask for
  JobSizes,     \* the bytes of the posted configurations
  Waiters,      \* the clients that call wait
  Leavers,      \* the clients whose objects go, or whose process dies
  Refusals,     \* what submit of the block may return besides OK ({} for the
                \* simulated block: it refuses only while it is busy)
  MaxRequests,  \* bound: how many configurations are posted
  PostsOf,      \* bound: how many of them each client posts
  MaxHandles,   \* bound: how many blocks are allocated
  MaxRefusals,  \* bound: how many requests the block refuses with BUSY
  MaxOpens,     \* bound: how many sessions are opened
  Nobody        \* no client

ASSUME CvAssumption ==
  /\ MaxSessions \in Nat /\ MaxQueue \in Nat /\ MaxJobBytes \in Nat
  /\ PriorityOf \in [Client -> Nat]
  /\ AllocSizes \subseteq Nat /\ JobSizes \subseteq Nat
  /\ Waiters \subseteq Client /\ Leavers \subseteq Client
  /\ Refusals \subseteq {"BUSY", "HW_ERROR"}
  /\ PostsOf \in [Client -> Nat]
  /\ MaxRequests \in Nat /\ MaxHandles \in Nat
  /\ MaxRefusals \in Nat /\ MaxOpens \in Nat
  /\ Nobody \notin Client

VARIABLES
  session,    \* SessionManager::sessions_
  blocks,     \* MemoryPool::blocks_
  nextHandle, \* MemoryPool::nextHandle_
  req,        \* the requests, by number; nextRequest_ is one more than its length
  posted,     \* posted_: configured, not yet submitted
  queue,      \* RequestQueue::queues_
  running,    \* Dispatcher::running_: jobs handed to the hardware
  silenced,   \* those of running_ whose clientFd is -1
  worker,     \* each core of the block: its program point and its job
  phase,      \* how far each client's objects have been taken down
  mine,       \* Client::session_ (0: none)
  inbox,      \* Client::Impl::completions
  waitsFor,   \* the request a blocked wait is for (0: not in wait)
  counted,    \* PerfMonitor::perSession_[s].count
  errors,     \* PerfMonitor::integrityErrors_
  told,       \* history: the answers the service sent for each request: "CANCELLED",
              \* or "done" for the status the block gave
  taken,      \* history: completions a wait returned
  arrived,    \* history: the requests in the order submit accepted them
  pushedBack, \* history: how many requests had arrived when the block last refused
              \* this one with BUSY (0: never)
  ended,      \* history: requests whose session was closed
  hasty,      \* history: requests whose memory was freed before they were done
  opens       \* how many sessions were opened

service == <<session, blocks, nextHandle, req, posted, queue, running, silenced>>
clients == <<phase, mine, inbox, waitsFor, taken>>
stats == <<counted, errors>>
history == <<told, arrived, pushedBack, ended, hasty>>
vars == <<service, worker, clients, stats, history, opens>>

Request == 1..MaxRequests
SessionId == 1..MaxSessions

Closed == [fd |-> Nobody, priority |-> 0, openRequests |-> 0, bytesAllocated |-> 0]
Active(s) == session[s].fd # Nobody

\* The SessionInfo `x` with other counts.
Charged(x, requests, bytes) ==
  [fd |-> x.fd, priority |-> x.priority, openRequests |-> requests,
   bytesAllocated |-> bytes]
Owns(s, c) == s \in SessionId /\ session[s].fd = c

Elements(s) == {s[i] : i \in 1..Len(s)}
Submitted == Elements(arrived)
Queued == UNION {Elements(queue[k]) : k \in Core}
Idle == [at |-> "idle", job |-> 0]

\* Nothing more will be heard of a request: posted, queued and running no longer.
Gone(r) == r \notin posted \cup Queued \cup running

Init ==
  /\ session = [s \in SessionId |-> Closed]
  /\ blocks = {}
  /\ nextHandle = 1
  /\ req = <<>>
  /\ posted = {}
  /\ queue = [k \in Core |-> <<>>]
  /\ running = {}
  /\ silenced = {}
  /\ worker = [k \in Core |-> Idle]
  /\ phase = [c \in Client |-> "up"]
  /\ mine = [c \in Client |-> 0]
  /\ inbox = [c \in Client |-> {}]
  /\ waitsFor = [c \in Client |-> 0]
  /\ counted = [s \in SessionId |-> 0]
  /\ errors = 0
  /\ told = [r \in Request |-> <<>>]
  /\ taken = {}
  /\ arrived = <<>>
  /\ pushedBack = [r \in Request |-> 0]
  /\ ended = {}
  /\ hasty = {}
  /\ opens = 0

-----------------------------------------------------------------------------
(* What happens to requests that end: the wake-up of the client, the record *)
(* of the performance monitor, the count of the session.                    *)

\* ioctlToClient finds a handler for the client's fd.
Registered(c) == phase[c] \in {"up", "destroyed"}

\* The wake handler keeps a completion for a later wait.
\* Mutant: only when a wait is blocked on it.
Keeps_IfWaited(c, r) == Registered(c) /\ waitsFor[c] = r
Keeps(c, r) == Registered(c)

\* The requests `heard` are answered with the status.
Tell(heard, status) ==
  /\ told' = [r \in Request |->
                IF r \in heard THEN Append(told[r], status) ELSE told[r]]
  /\ inbox' = [c \in Client |->
                 inbox[c] \cup {r \in heard : req[r].fd = c /\ Keeps(c, r)}]

OfSession(rs, s) == Cardinality({r \in rs : req[r].session = s})

\* bytesOk and coreBytesOk, with the size of the block as it is now (0 when freed).
BytesOk(r) ==
  /\ \E b \in Find(blocks, req[r].mem) : req[r].bytes <= b.bytes
  /\ req[r].bytes <= MaxJobBytes

\* PerfMonitor::record, for each of the requests.
\* Mutant: it is called where the client is woken.
Record_Heard(rs) ==
  /\ counted' = [s \in SessionId |-> counted[s] + OfSession(rs \ silenced, s)]
  /\ errors' = errors + Cardinality({r \in rs \ silenced : ~BytesOk(r)})
Record(rs) ==
  /\ counted' = [s \in SessionId |-> counted[s] + OfSession(rs, s)]
  /\ errors' = errors + Cardinality({r \in rs : ~BytesOk(r)})

\* The session a request names now, whoever opened it, counts one request less.
\* Mutants: without the test of 0; not at all.
Less_Unclamped(n, rs, s) == n - OfSession(rs, s)
Less_Never(n, rs, s) == n
Less(n, rs, s) == IF n > OfSession(rs, s) THEN n - OfSession(rs, s) ELSE 0

\* The sessions after `accepted` were queued and `rs` have ended.
Recount(accepted, rs) ==
  LET requests(s) == Less(session[s].openRequests + OfSession(accepted, s), rs, s)
  IN session' = [s \in SessionId |->
                   IF Active(s)
                   THEN Charged(session[s], requests(s), session[s].bytesAllocated)
                   ELSE session[s]]

-----------------------------------------------------------------------------
(* Dispatcher::pump *)

Busy(k) == worker[k].at # "idle"

MayRefuse == Cardinality({r \in Request : pushedBack[r] > 0}) < MaxRefusals

\* What the pump's loop can do to the queue of a core: fail its first n requests in
\* place, then start the next one, put it back, or leave it.
Fates(k, waiting) ==
  {f \in [failed : 0..MaxRequests, then : {"start", "BUSY", "stop"}] :
     /\ f.failed <= Len(waiting)
     /\ f.failed > 0 => "HW_ERROR" \in Refusals
     /\ f.then = "BUSY" => "BUSY" \in Refusals /\ MayRefuse
     /\ f.then = "stop" <=> Busy(k) \/ f.failed = Len(waiting)
     /\ Busy(k) => f.failed = 0}

\* Insert before the first entry with strictly lower priority.
\* Mutant: before the first entry that has no higher priority.
Ahead_Lifo(x, r) == req[x].priority > req[r].priority
Ahead(x, r) == req[x].priority >= req[r].priority

Enqueued(q, r) ==
  LET ahead == {i \in 1..Len(q) : \A j \in 1..i : Ahead(q[j], r)}
      n == Cardinality(ahead)
  IN SubSeq(q, 1, n) \o <<r>> \o SubSeq(q, n + 1, Len(q))

\* The request the pump comes to after those it fails.
NextOf(q, f) == q[f.failed + 1]

\* start: these requests are handed to the block and become running_.
Started(q, fate) == {NextOf(q[k], fate[k]) : k \in {x \in Core : fate[x].then = "start"}}

\* submit of the block: the core is busy until its worker frees it.
Given(r) == [at |-> "working", job |-> r]

QueueAfter(q, f) ==
  LET rest == SubSeq(q, f.failed + 1, Len(q))
  IN CASE f.then = "stop" -> rest
       [] f.then = "start" -> Tail(rest)
       [] f.then = "BUSY" -> Enqueued(Tail(rest), Head(rest))

\* One pump over all cores, from the queues `q`, the jobs `run` and the workers
\* `cores`, at the end of a call that accepted the requests `accepted` and in
\* which the block reported the requests `done`.
Pump(q, run, cores, accepted, done) ==
  \E fate \in [Core -> UNION {Fates(k, q[k]) : k \in Core}] :
    /\ \A k \in Core : fate[k] \in Fates(k, q[k])
    /\ LET failed == UNION {{q[k][i] : i \in 1..fate[k].failed} : k \in Core}
           over == done \cup failed
       IN /\ queue' = [k \in Core |-> QueueAfter(q[k], fate[k])]
          /\ running' = run \cup Started(q, fate)
          /\ silenced' = silenced \cap run
          /\ worker' = [k \in Core |-> IF fate[k].then = "start"
                                       THEN Given(NextOf(q[k], fate[k])) ELSE cores[k]]
          /\ pushedBack' =
               [r \in Request |->
                  IF \E k \in Core : fate[k].then = "BUSY" /\ r = NextOf(q[k], fate[k])
                  THEN Len(arrived) + Cardinality(accepted) ELSE pushedBack[r]]
          /\ Tell(over \ silenced, "done")
          /\ Record(over)
          /\ Recount(accepted, over)

-----------------------------------------------------------------------------
(* The calls of a client *)

\* A client's own thread can make a call: its objects exist and it is not in wait.
Calls(c) == phase[c] = "up" /\ waitsFor[c] = 0

\* ... and it has a session: the library's calls return NO_SESSION otherwise.
InSession(c) == Calls(c) /\ Owns(mine[c], c)

Unhurried == UNCHANGED <<ended, hasty>>

\* SessionManager::open takes the first inactive entry.  A client that has a session
\* forgets it for the new one, but the service does not close it.
OpenSession(c) ==
  /\ Calls(c)
  /\ opens < MaxOpens /\ opens' = opens + 1
  /\ \E s \in SessionId :
       /\ ~Active(s) /\ \A t \in 1..(s - 1) : Active(t)
       /\ session' = [session EXCEPT ![s] = [fd |-> c, priority |-> PriorityOf[c],
                                             openRequests |-> 0, bytesAllocated |-> 0]]
       /\ mine' = [mine EXCEPT ![c] = s]
  /\ UNCHANGED <<blocks, nextHandle, req, posted, queue, running, silenced, worker,
                 phase, inbox, waitsFor, taken, stats, history>>

\* Dispatcher::cancelSession: queued requests are answered, running ones silenced.
\* Mutant: a running job keeps the fd it came from.
Silenced_Kept(ss) == silenced
Silenced(ss) == silenced \cup {r \in running : req[r].session \in ss}

\* RequestQueue::cancelSession: the entries that stay keep their order.
Without(q, removed) ==
  LET left == {i \in 1..Len(q) : q[i] \notin removed}
      Nth(n) == CHOOSE i \in left : Cardinality({j \in left : j <= i}) = n
  IN [n \in 1..Cardinality(left) |-> q[Nth(n)]]

OpenRequests(ss) == {r \in posted \cup Queued \cup running : req[r].session \in ss}

\* closeSession of each of the sessions in `ss`.
CloseSessions(ss) ==
  LET cancelled == {r \in Queued : req[r].session \in ss}
  IN /\ queue' = [k \in Core |-> Without(queue[k], cancelled)]
     /\ Tell(cancelled, "CANCELLED")
     /\ silenced' = Silenced(ss)
     /\ posted' = {r \in posted : req[r].session \notin ss}
     /\ blocks' = ReleasedAll(blocks, ss)
     /\ session' = [s \in SessionId |-> IF s \in ss THEN Closed ELSE session[s]]
     /\ ended' = ended \cup {r \in 1..Len(req) : req[r].session \in ss}
     /\ hasty' = hasty \cup OpenRequests(ss)
     /\ UNCHANGED <<nextHandle, req, running, worker, taken, stats,
                    arrived, pushedBack, opens>>

CloseSession(c) ==
  /\ InSession(c)
  /\ CloseSessions({mine[c]})
  /\ mine' = [mine EXCEPT ![c] = 0]
  /\ UNCHANGED <<phase, waitsFor>>

\* The owner of the block and nobody else frees it.
\* Mutant: release does not look at the owner.
MayFree_Anyone(s, h) == Find(blocks, h) # {}
MayFree(s, h) == Releases(blocks, h, s)

AllocMem(c) ==
  /\ InSession(c)
  /\ nextHandle <= MaxHandles
  /\ \E n \in AllocSizes :
       /\ Allocates(blocks, n)
       /\ blocks' = Allocated(blocks, mine[c], n, nextHandle)
       /\ session' = [session EXCEPT ![mine[c]] =
                        Charged(@, @.openRequests, @.bytesAllocated + n)]
  /\ nextHandle' = nextHandle + 1
  /\ UNCHANGED <<req, posted, queue, running, silenced, worker, clients,
                 stats, history, opens>>

FreeMem(c) ==
  /\ c \in Leavers /\ InSession(c)
  /\ \E b \in blocks :
       /\ MayFree(mine[c], b.handle)
       /\ blocks' = Released(blocks, b.handle)
       /\ session' = [session EXCEPT ![mine[c]] =
                        Charged(@, @.openRequests,
                                IF b.bytes <= @.bytesAllocated
                                THEN @.bytesAllocated - b.bytes ELSE 0)]
       /\ hasty' = hasty \cup {r \in OpenRequests({mine[c]}) : req[r].mem = b.handle}
  /\ UNCHANGED <<nextHandle, req, posted, queue, running, silenced, worker,
                 clients, stats, told, arrived, pushedBack, ended, opens>>

PostConfig(c) ==
  /\ InSession(c)
  /\ Len(req) < MaxRequests
  /\ Cardinality({r \in 1..Len(req) : req[r].fd = c}) < PostsOf[c]
  /\ \E b \in blocks, k \in Core, n \in JobSizes :
       /\ b.owner = mine[c]
       /\ n > 0 /\ n <= b.bytes
       /\ req' = Append(req, [session |-> mine[c], fd |-> c, mem |-> b.handle,
                              core |-> k, priority |-> session[mine[c]].priority,
                              bytes |-> n])
  /\ posted' = posted \cup {Len(req) + 1}
  /\ UNCHANGED <<session, blocks, nextHandle, queue, running, silenced, worker, clients, stats, history, opens>>

\* RequestQueue::enqueue refuses a full queue: the request stays posted.
Submit(c) ==
  /\ InSession(c)
  /\ \E r \in posted :
       /\ req[r].session = mine[c]
       /\ Len(queue[req[r].core]) < MaxQueue
       /\ posted' = posted \ {r}
       /\ arrived' = Append(arrived, r)
       /\ Pump([queue EXCEPT ![req[r].core] = Enqueued(@, r)], running, worker,
               {r}, {})
  /\ Unhurried
  /\ UNCHANGED <<blocks, nextHandle, req, phase, mine, waitsFor, taken,
                 opens>>

\* wait finds the completion, at once or when it is woken, or times out.
Returns(c, r) ==
  /\ r \in inbox[c]
  /\ inbox' = [inbox EXCEPT ![c] = @ \ {r}]
  /\ taken' = taken \cup {r}
  /\ UNCHANGED <<phase, mine>>

Wait(c) ==
  /\ Calls(c) /\ c \in Waiters
  /\ \E r \in {x \in Submitted : req[x].fd = c} :
       \/ Returns(c, r) /\ UNCHANGED waitsFor
       \/ /\ r \notin inbox[c] /\ r \notin taken
          /\ waitsFor' = [waitsFor EXCEPT ![c] = r]
          /\ UNCHANGED <<phase, mine, inbox, taken>>
  /\ UNCHANGED <<service, worker, stats, history, opens>>

\* notify_all, or the timeout with the completion there.
WaitEnds(c) ==
  /\ waitsFor[c] # 0
  /\ Returns(c, waitsFor[c])
  /\ waitsFor' = [waitsFor EXCEPT ![c] = 0]
  /\ UNCHANGED <<service, worker, stats, history, opens>>

WaitTimesOut(c) ==
  /\ waitsFor[c] # 0 /\ waitsFor[c] \notin inbox[c]
  /\ waitsFor' = [waitsFor EXCEPT ![c] = 0]
  /\ UNCHANGED <<service, worker, phase, mine, inbox, taken, stats,
                 history, opens>>

Dropped(c) == inbox' = [inbox EXCEPT ![c] = {}]

\* ~Client, after the closeSession it makes, of the session it has last opened: the
\* completions go.  A wake-up from now on, until the handler is taken away, writes to
\* memory that was freed; in the model it appears in the inbox.
DestroyClient(c) ==
  /\ c \in Leavers
  /\ Calls(c) /\ mine[c] = 0
  /\ phase' = [phase EXCEPT ![c] = "destroyed"]
  /\ Dropped(c)
  /\ UNCHANGED <<service, worker, mine, waitsFor, taken, stats, history,
                 opens>>

\* ~SimTransport takes the fd's handler away, then tells the service; a client
\* process that dies does the same with its session still open.
Unregister(c) ==
  /\ c \in Leavers
  /\ Registered(c)
  /\ phase' = [phase EXCEPT ![c] = "unregistered"]
  /\ waitsFor' = [waitsFor EXCEPT ![c] = 0]
  /\ Dropped(c)
  /\ UNCHANGED <<service, worker, mine, taken, stats, history, opens>>

\* forEachOfClient.
\* Mutant: only the session that the client knows of.
SessionsOf_Last(c) == {s \in SessionId : Owns(s, c) /\ s = mine[c]}
SessionsOf(c) == {s \in SessionId : Owns(s, c)}

ClientDisconnected(c) ==
  /\ phase[c] = "unregistered"
  /\ phase' = [phase EXCEPT ![c] = "left"]
  /\ CloseSessions(SessionsOf(c))
  /\ mine' = [mine EXCEPT ![c] = 0]
  /\ UNCHANGED waitsFor

-----------------------------------------------------------------------------
(* The block's workers, and the maintenance call *)

\* Mutant: onCompletion leaves the job in running_.
RunningWithout_Kept(r) == running
RunningWithout(r) == running \ {r}

\* The worker calls the completion handler: onHwCompletion, still before the core is
\* free again.
JobDone(k) ==
  /\ worker[k].at = "working"
  /\ LET r == worker[k].job
     IN Pump(queue, RunningWithout(r), [worker EXCEPT ![k].at = "reported"], {}, {r})
  /\ Unhurried
  /\ UNCHANGED <<blocks, nextHandle, req, posted, phase, mine, waitsFor,
                 taken, arrived, opens>>

\* Mutant: the worker clears hasJob and not busy.
Freed_StillBusy == [at |-> "busy", job |-> 0]
Freed == Idle

CoreFree(k) ==
  /\ worker[k].at = "reported"
  /\ worker' = [worker EXCEPT ![k] = Freed]
  /\ UNCHANGED <<service, clients, stats, history, opens>>

\* CvAccelService::pump, called now and then by whoever runs the service.
Maintain ==
  /\ Pump(queue, running, worker, {}, {})
  /\ Unhurried
  /\ UNCHANGED <<blocks, nextHandle, req, posted, phase, mine, waitsFor,
                 taken, arrived, opens>>

ClientStep(c) ==
  \/ OpenSession(c) \/ CloseSession(c) \/ AllocMem(c) \/ FreeMem(c)
  \/ PostConfig(c) \/ Submit(c) \/ Wait(c) \/ WaitEnds(c) \/ WaitTimesOut(c)
  \/ DestroyClient(c) \/ Unregister(c) \/ ClientDisconnected(c)

WorkerStep(k) == JobDone(k) \/ CoreFree(k)

\* What happens when nobody calls pump(): the demo's main does not.
NextUnattended ==
  \/ \E c \in Client : ClientStep(c)
  \/ \E k \in Core : WorkerStep(k)

Next == NextUnattended \/ Maintain

\* A worker that has a job works on it.
WorkersRun == \A k \in Core : WF_vars(WorkerStep(k))

\* The maintenance call is made again and again, and a core that is free does not
\* refuse for ever.
Maintained == \A k \in Core : SF_vars(Maintain /\ worker'[k] # worker[k])

Spec == Init /\ [][Next]_vars /\ WorkersRun /\ Maintained
SpecUnattended == Init /\ [][NextUnattended]_vars /\ WorkersRun

-----------------------------------------------------------------------------
TypeOK ==
  /\ session \in [SessionId -> [fd : Client \cup {Nobody}, priority : Nat,
                                openRequests : Nat, bytesAllocated : Nat]]
  /\ blocks \subseteq Blocks(SessionId)
  /\ nextHandle \in Nat
  /\ req \in Seq([session : SessionId, fd : Client, mem : Nat, core : Core,
                  priority : Nat, bytes : Nat])
  /\ posted \subseteq 1..Len(req)
  /\ queue \in [Core -> Seq(Request)]
  /\ running \subseteq 1..Len(req) /\ silenced \subseteq running
  /\ worker \in [Core -> [at : {"idle", "working", "reported"}, job : Nat]]
  /\ phase \in [Client -> {"up", "destroyed", "unregistered", "left"}]
  /\ mine \in [Client -> SessionId \cup {0}]
  /\ inbox \in [Client -> SUBSET Request]
  /\ waitsFor \in [Client -> Request \cup {0}]
  /\ counted \in [SessionId -> Nat] /\ errors \in Nat
  /\ told \in [Request -> Seq({"done", "CANCELLED"})]
  /\ taken \subseteq Request /\ arrived \in Seq(Request)
  /\ pushedBack \in [Request -> Nat] /\ ended \subseteq Request /\ hasty \subseteq Request
  /\ opens \in 0..MaxOpens

\* A request is in one place: posted, in the queue of its core once, at the hardware,
\* or answered; it is answered once, and while its session is open it is never
\* nowhere (posted_, queues_ and running_ of service.cpp, and the wake-ups).
OnePlace ==
  \A r \in 1..Len(req) :
    LET places == {k \in Core : r \in Elements(queue[k])}
        atHardware == {k \in Core : worker[k].at = "working"
                                    /\ worker[k].job = r}
    IN /\ places \subseteq {req[r].core}
       /\ \A k \in places : Cardinality({i \in DOMAIN queue[k] : queue[k][i] = r}) = 1
       /\ Cardinality(atHardware) = IF r \in running THEN 1 ELSE 0
       /\ (IF r \in posted THEN 1 ELSE 0) + Cardinality(places)
            + (IF r \in running THEN 1 ELSE 0) + Len(told[r]) \in
              IF r \in ended THEN {0, 1} ELSE {1}

\* "dequeue returns the highest priority first, FIFO inside a priority"
\* (request_queue.hpp:22), except that a request the block pushed back goes
\* behind those that had arrived by then.
QueueOrder ==
  LET pos(r) == CHOOSE i \in DOMAIN arrived : arrived[i] = r
  IN \A k \in Core : \A i, j \in DOMAIN queue[k] :
       i < j => LET a == queue[k][i]
                    b == queue[k][j]
                IN \/ req[a].priority > req[b].priority
                   \/ /\ req[a].priority = req[b].priority
                      /\ pos(a) < pos(b) \/ pos(a) <= pushedBack[b]

\* A request is not answered after its session was closed, whoever has the session's
\* number since (the clientFd of -1 in dispatcher.cpp:111 and :148), and a client whose
\* completions are gone is woken at most for a session it opened another one over
\* (cvclient.cpp:36): ~Client closes the last session only, and the others go on until
\* the handler is taken away.
LeftOpen(s, c) == Owns(s, c) /\ s # mine[c]
NoLateWake ==
  [][/\ \A c \in Client : \A r \in inbox'[c] \ inbox[c] :
          phase[c] = "up" \/ (phase[c] = "destroyed" /\ LeftOpen(req[r].session, c))
     /\ \A r \in ended : told'[r] = told[r]]_vars

\* "a client's fd was closed: close all its sessions" (service.hpp:31): what is left
\* then, also of sessions the client had forgotten, are jobs at the hardware that will
\* wake nobody.
NothingLeftBehind ==
  \A c \in Client : phase[c] = "left" =>
    /\ \A s \in SessionId : ~Owns(s, c)
    /\ \A r \in posted \cup Queued \cup (running \ silenced) : req[r].fd # c

\* A session is charged for exactly the blocks it holds, and openRequests counts its
\* requests that are queued or running (session_manager.hpp:11) - or fewer, when an
\* earlier session had its number and its jobs end late, but never more.
Accounts ==
  \A s \in SessionId :
    LET live == {r \in (Queued \cup running) \ ended : req[r].session = s}
        reused == \E r \in ended : req[r].session = s
        held == {b \in blocks : b.owner = s}
    IN /\ session[s].bytesAllocated = MapThenSumSet(LAMBDA b : b.bytes, held)
       /\ session[s].openRequests <= Cardinality(live)
       /\ ~reused => session[s].openRequests = Cardinality(live)

\* The blocks are sound, no handle is given out twice, and every block belongs to an
\* open session.
PoolSound ==
  /\ WellFormed(blocks)
  /\ \A b \in blocks : Active(b.owner) /\ b.handle < nextHandle

\* A job at the hardware works on a block of its own session that is large enough,
\* unless its own client freed the block or closed the session before the job ended.
HwMemory ==
  \A k \in Core : worker[k].at = "working" =>
    LET r == worker[k].job
    IN \/ r \in hasty
       \/ \E b \in Find(blocks, req[r].mem) :
            b.owner = req[r].session /\ req[r].bytes <= b.bytes

\* An answered client has the completion or has had it from wait, also when a wait
\* timed out meanwhile; wait hands out each completion once.
NothingLost ==
  \A r \in 1..Len(req) :
    LET c == req[r].fd
    IN /\ phase[c] = "up" /\ told[r] # <<>> => (r \in inbox[c]) # (r \in taken)
       /\ r \in taken \cup inbox[c] => told[r] # <<>>

\* The monitor has counted every request that ended at the hardware, heard of or not,
\* under its session's number, and found no fault with one whose memory was not freed.
StatsMatch ==
  LET finished == {r \in Submitted : Gone(r) /\ told[r] # <<"CANCELLED">>}
  IN /\ \A s \in SessionId : counted[s] = OfSession(finished, s)
     /\ errors <= Cardinality({r \in finished :
                                 r \in hasty \/ req[r].bytes > MaxJobBytes})

\* Every accepted request is answered, unless its session is closed first (SPEC.md:4-5:
\* "takes requests from client applications, queues them, forwards them to the block,
\* and when a job completes it wakes the client that posted it").
\* As there are finitely many, this says that again and again none is unanswered.
EveryRequestAnswered ==
  []<>(\A r \in Submitted : told[r] # <<>> \/ r \in ended)
=============================================================================

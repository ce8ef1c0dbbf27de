-------------------------- MODULE CvServiceProofs --------------------------
(***************************************************************************)
(* Every safety invariant of the service, for any clients, cores, pool and *)
(* bounds.  PoolInv is inductive by itself; ServiceInv adds where the      *)
(* requests are and what the clients have heard; HasArrived, QueuesOrdered,*)
(* MonitorInv, CountsInv and BytesInv are each inductive on top of it.     *)
(***************************************************************************)
EXTENDS CvService, MemoryPoolProofs, CvQueueProofs

\* What the proof carries: PoolSound with the types it rests on.
PoolInv ==
  /\ session = [s \in SessionId |-> session[s]]
  /\ blocks \in SUBSET Blocks(SessionId)
  /\ nextHandle \in Nat \ {0}
  /\ PoolSound

LEMMA InitPoolInv == Init => PoolInv
BY DEF Init, PoolInv, PoolSound, WellFormed

\* A step that leaves the pool alone and takes nobody's session away.
LEMMA PoolUntouched ==
  ASSUME PoolInv, UNCHANGED <<blocks, nextHandle>>,
         session' = [s \in SessionId |-> session'[s]],
         \A s \in SessionId : Active(s) => session'[s].fd # Nobody
  PROVE  PoolInv'
<1>1. blocks' \in SUBSET Blocks(SessionId) /\ nextHandle' \in Nat \ {0}
  BY DEF PoolInv
<1>2. WellFormed(blocks)'
  BY DEF PoolInv, PoolSound, WellFormed, Apart, End
<1>3. ASSUME NEW b \in blocks
      PROVE  session'[b.owner].fd # Nobody /\ b.handle < nextHandle'
  <2>1. b.owner \in SessionId
    BY BlockType DEF PoolInv
  <2> QED BY <2>1 DEF PoolInv, PoolSound
<1> QED BY <1>1, <1>2, <1>3 DEF PoolInv, PoolSound, Active

\* The pump and the completion only change the counts of a session.
LEMMA RecountKeepsFd ==
  ASSUME NEW accepted, NEW rs, Recount(accepted, rs)
  PROVE  /\ session' = [s \in SessionId |-> session'[s]]
         /\ \A s \in SessionId : session'[s].fd = session[s].fd
BY DEF Recount, Charged

LEMMA PumpKeepsPool ==
  ASSUME PoolInv, NEW q, NEW run, NEW cores, NEW accepted, NEW done,
         Pump(q, run, cores, accepted, done), UNCHANGED <<blocks, nextHandle>>
  PROVE  PoolInv'
<1>1. PICK rs : Recount(accepted, rs)
  BY DEF Pump
<1>2. /\ session' = [s \in SessionId |-> session'[s]]
      /\ \A s \in SessionId : session'[s].fd = session[s].fd
  BY <1>1, RecountKeepsFd
<1> QED BY <1>2, PoolUntouched DEF Active

LEMMA CloseKeepsPool ==
  ASSUME PoolInv, NEW ss \in SUBSET SessionId, CloseSessions(ss)
  PROVE  PoolInv'
<1>1. /\ blocks' = {b \in blocks : b.owner \notin ss} /\ nextHandle' = nextHandle
      /\ session' = [s \in SessionId |-> IF s \in ss THEN Closed ELSE session[s]]
  BY DEF CloseSessions, ReleasedAll
<1>2. blocks' \in SUBSET blocks /\ blocks' \in SUBSET Blocks(SessionId)
  BY <1>1 DEF PoolInv
<1>3. WellFormed(blocks')
  BY <1>2, FewerStayWellFormed DEF PoolInv, PoolSound
<1>4. ASSUME NEW b \in blocks'
      PROVE  session'[b.owner].fd # Nobody /\ b.handle < nextHandle'
  <2>1. b \in blocks /\ b.owner \in SessionId /\ b.owner \notin ss
    BY <1>1, BlockType DEF PoolInv
  <2> QED BY <1>1, <2>1 DEF PoolInv, PoolSound, Active
<1>5. session' = [s \in SessionId |-> session'[s]]
  BY <1>1
<1>6. nextHandle' \in Nat \ {0}
  BY <1>1 DEF PoolInv
<1>7. WellFormed(blocks)'
  BY <1>3
<1> QED BY <1>2, <1>4, <1>5, <1>6, <1>7 DEF PoolInv, PoolSound, Active

LEMMA AllocKeepsPool ==
  ASSUME PoolInv, NEW c \in Client, AllocMem(c)
  PROVE  PoolInv'
<1> DEFINE m == mine[c]
<1>1. PICK n \in AllocSizes :
        /\ Allocates(blocks, n)
        /\ blocks' = Allocated(blocks, m, n, nextHandle)
        /\ session' = [session EXCEPT ![m] =
                         Charged(session[m], session[m].openRequests,
                                 session[m].bytesAllocated + n)]
  BY DEF AllocMem
<1>2. /\ m \in SessionId /\ session[m].fd = c /\ c # Nobody
      /\ nextHandle' = nextHandle + 1
  BY CvAssumption DEF AllocMem, InSession, Owns
<1>3. n \in Nat \ {0}
  BY <1>1, CvAssumption DEF Allocates
<1>4. WellFormed(blocks) /\ \A b \in blocks : b.handle # nextHandle
  <2>1. ASSUME NEW b \in blocks PROVE b.handle # nextHandle
    BY BlockType DEF PoolInv, PoolSound
  <2> QED BY <2>1 DEF PoolInv, PoolSound
<1>5. WellFormed(blocks') /\ blocks' \in SUBSET Blocks(SessionId)
  BY <1>1, <1>2, <1>3, <1>4, AllocateKeepsWellFormed DEF PoolInv
<1>6. /\ session' = [s \in SessionId |-> session'[s]]
      /\ \A s \in SessionId : session'[s].fd = session[s].fd
  <2> HIDE DEF m
  <2> QED BY <1>1, <1>2 DEF PoolInv, Charged
<1>7. ASSUME NEW b \in blocks'
      PROVE  session'[b.owner].fd # Nobody /\ b.handle < nextHandle'
  <2>1. CASE b \in blocks
    <3>1. b.owner \in SessionId /\ b.handle \in Nat
      BY <2>1, BlockType DEF PoolInv
    <3> QED BY <1>2, <1>6, <2>1, <3>1 DEF PoolInv, PoolSound, Active
  <2>2. CASE b \notin blocks
    <3>1. PICK at \in FirstFit(blocks, AlignUp(n)) : b = NewBlock(m, n, nextHandle, at)
      BY <1>1, <2>2 DEF Allocated
    <3>2. b.owner = m /\ b.handle = nextHandle
      BY <3>1 DEF NewBlock
    <3> QED BY <1>2, <1>6, <3>2 DEF PoolInv
  <2> QED BY <2>1, <2>2
<1>8. nextHandle' \in Nat \ {0}
  BY <1>2 DEF PoolInv
<1>9. WellFormed(blocks)'
  BY <1>5
<1> QED BY <1>5, <1>6, <1>7, <1>8, <1>9 DEF PoolInv, PoolSound, Active

LEMMA FreeKeepsPool ==
  ASSUME PoolInv, NEW c \in Client, FreeMem(c)
  PROVE  PoolInv'
<1> DEFINE m == mine[c]
<1>1. PICK b \in blocks :
        /\ blocks' = Released(blocks, b.handle)
        /\ \E bytes : session' = [session EXCEPT ![m] =
                         Charged(session[m], session[m].openRequests, bytes)]
  BY DEF FreeMem
<1>2. m \in SessionId /\ nextHandle' = nextHandle
  BY DEF FreeMem, InSession, Owns
<1>3. blocks' \in SUBSET blocks /\ blocks' \in SUBSET Blocks(SessionId)
  BY <1>1 DEF Released, PoolInv
<1>4. WellFormed(blocks)'
  <2>1. WellFormed(blocks')
    BY <1>3, FewerStayWellFormed DEF PoolInv, PoolSound
  <2> QED BY <2>1
<1>5. /\ session' = [s \in SessionId |-> session'[s]]
      /\ \A s \in SessionId : session'[s].fd = session[s].fd
  <2> HIDE DEF m
  <2> QED BY <1>1, <1>2 DEF PoolInv, Charged
<1>6. ASSUME NEW x \in blocks'
      PROVE  session'[x.owner].fd # Nobody /\ x.handle < nextHandle'
  <2>1. x \in blocks /\ x.owner \in SessionId
    BY <1>3, BlockType DEF PoolInv
  <2> QED BY <1>2, <1>5, <2>1 DEF PoolInv, PoolSound, Active
<1> QED BY <1>2, <1>3, <1>4, <1>5, <1>6 DEF PoolInv, PoolSound, Active

LEMMA OpenKeepsPool ==
  ASSUME PoolInv, NEW c \in Client, OpenSession(c)
  PROVE  PoolInv'
<1>1. PICK s \in SessionId :
        session' = [session EXCEPT ![s] =
                      [fd |-> c, priority |-> PriorityOf[c],
                       openRequests |-> 0, bytesAllocated |-> 0]]
  BY DEF OpenSession
<1>2. c # Nobody /\ UNCHANGED <<blocks, nextHandle>>
  BY CvAssumption DEF OpenSession
<1>3. session' = [t \in SessionId |-> session'[t]]
  BY <1>1 DEF PoolInv
<1>4. \A t \in SessionId : Active(t) => session'[t].fd # Nobody
  BY <1>1, <1>2 DEF PoolInv, Active
<1> QED BY <1>2, <1>3, <1>4, PoolUntouched

LEMMA NextKeepsPoolInv == PoolInv /\ [Next]_vars => PoolInv'
<1> SUFFICES ASSUME PoolInv, [Next]_vars PROVE PoolInv'
  OBVIOUS
<1>s. ASSUME UNCHANGED <<session, blocks, nextHandle>> PROVE PoolInv'
  BY <1>s, PoolUntouched DEF PoolInv, Active
<1>1. ASSUME NEW c \in Client, ClientStep(c) PROVE PoolInv'
  <2>1. CASE OpenSession(c)
    BY <2>1, OpenKeepsPool
  <2>2. CASE CloseSession(c)
    BY <2>2, CloseKeepsPool DEF CloseSession, InSession, Owns
  <2>3. CASE AllocMem(c)
    BY <2>3, AllocKeepsPool
  <2>4. CASE FreeMem(c)
    BY <2>4, FreeKeepsPool
  <2>5. CASE PostConfig(c)
    BY <1>s, <2>5 DEF PostConfig
  <2>6. CASE Submit(c)
    BY <2>6, PumpKeepsPool DEF Submit
  <2>7. CASE Wait(c) \/ WaitEnds(c) \/ WaitTimesOut(c)
    BY <1>s, <2>7 DEF Wait, WaitEnds, WaitTimesOut, service
  <2>8. CASE DestroyClient(c) \/ Unregister(c)
    BY <1>s, <2>8 DEF DestroyClient, Unregister, service
  <2>9. CASE ClientDisconnected(c)
    BY <2>9, CloseKeepsPool DEF ClientDisconnected, SessionsOf
  <2> QED BY <1>1, <2>1, <2>2, <2>3, <2>4, <2>5, <2>6, <2>7, <2>8, <2>9 DEF ClientStep
<1>2. ASSUME NEW k \in Core, WorkerStep(k) PROVE PoolInv'
  <2>1. CASE JobDone(k)
    BY <2>1, PumpKeepsPool DEF JobDone
  <2>2. CASE CoreFree(k)
    BY <1>s, <2>2 DEF CoreFree, service
  <2> QED BY <1>2, <2>1, <2>2 DEF WorkerStep
<1>3. CASE Maintain
  BY <1>3, PumpKeepsPool DEF Maintain
<1>4. CASE UNCHANGED vars
  BY <1>s, <1>4 DEF vars, service
<1> QED BY <1>1, <1>2, <1>3, <1>4 DEF Next, NextUnattended

\* Every block lies in the pool, is aligned and overlaps no other, handles are given
\* out once, and a block's owner is an open session - whatever the clients do.
THEOREM PoolAlwaysSound == Spec => []PoolSound
<1>1. Init => PoolInv
  BY InitPoolInv
<1>2. PoolInv /\ [Next]_vars => PoolInv'
  BY NextKeepsPoolInv
<1>3. PoolInv => PoolSound
  BY DEF PoolInv
<1> QED BY <1>1, <1>2, <1>3, PTL DEF Spec

-----------------------------------------------------------------------------
(* The requests: where each of them is, and what its client has heard.      *)
(*                                                                          *)
(* The invariant is a conjunction of five parts.  `Placed` takes the places *)
(* as parameters, because a call changes some of them before it pumps.      *)

Known == 1..Len(req)
QueuedIn(q) == UNION {Elements(q[k]) : k \in Core}
Open == posted \cup Queued \cup running

RequestRecords ==
  [session : SessionId, fd : Client, mem : Nat, core : Core, priority : Nat, bytes : Nat]
Workers == [at : {"idle", "working", "reported"}, job : Nat]
Works(cores, k, r) == cores[k].at = "working" /\ cores[k].job = r

Placed(po, q, run, cores) ==
  /\ q \in [Core -> Seq(Known)] /\ cores \in [Core -> Workers]
  /\ po \subseteq Known /\ run \subseteq Known /\ po \cap run = {}
  /\ \A k \in Core : NoDup(q[k])
  /\ \A k \in Core : \A r \in Elements(q[k]) :
       r \notin po /\ r \notin run /\ req[r].core = k
  /\ \A k \in Core, r \in Nat : Works(cores, k, r) => r \in run
  /\ \A k, l \in Core, r \in Nat : Works(cores, k, r) /\ Works(cores, l, r) => k = l
  /\ \A r \in run : \E k \in Core : Works(cores, k, r)

\* The requests in `over` end, the others stay or start.
Pumped(po, q, run, accepted, done, over) ==
  /\ Placed(po, queue', running', worker')
  /\ done \subseteq over /\ over \subseteq po \cup QueuedIn(q) \cup run \cup done
  /\ over \cap (po \cup run) = {} /\ run \subseteq running'
  /\ po \cup QueuedIn(queue') \cup running'
       = (po \cup QueuedIn(q) \cup run \cup done) \ over
  /\ silenced' = silenced \cap run
  /\ Tell(over \ silenced, "done") /\ Record(over) /\ Recount(accepted, over)

LEMMA GivenType ==
  ASSUME NEW r \in Nat
  PROVE  Given(r) \in Workers /\ Given(r).at = "working" /\ Given(r).job = r
BY DEF Given, Workers

\* A pump starts the next request of free cores and fails others in place; everything
\* else stays where it was.
LEMMA PumpPlaces ==
  ASSUME NEW po, NEW q, NEW run, NEW cores, NEW accepted, NEW done,
         Placed(po, q, run, cores), req \in Seq(RequestRecords),
         done \subseteq Known, done \cap (po \cup QueuedIn(q) \cup run) = {},
         \A k \in Core : ~ Busy(k) => cores[k].at # "working",
         Pump(q, run, cores, accepted, done)
  PROVE  \E over \in SUBSET Known : Pumped(po, q, run, accepted, done, over)
<1> DEFINE F(f, k) == {q[k][i] : i \in 1..f[k].failed}
           St(f, k) == IF f[k].then = "start" THEN {NextOf(q[k], f[k])} ELSE {}
<1>1. PICK fate \in [Core -> UNION {Fates(k, q[k]) : k \in Core}] :
        /\ \A k \in Core : fate[k] \in Fates(k, q[k])
        /\ queue' = [k \in Core |-> QueueAfter(q[k], fate[k])]
        /\ running' = run \cup Started(q, fate)
        /\ silenced' = silenced \cap run
        /\ worker' = [k \in Core |-> IF fate[k].then = "start"
                                      THEN Given(NextOf(q[k], fate[k])) ELSE cores[k]]
        /\ pushedBack' =
             [r \in Request |->
                IF \E k \in Core : fate[k].then = "BUSY" /\ r = NextOf(q[k], fate[k])
                THEN Len(arrived) + Cardinality(accepted) ELSE pushedBack[r]]
        /\ Tell((done \cup UNION {F(fate, k) : k \in Core}) \ silenced, "done")
        /\ Record(done \cup UNION {F(fate, k) : k \in Core})
        /\ Recount(accepted, done \cup UNION {F(fate, k) : k \in Core})
  BY Zenon DEF Pump
<1> DEFINE failed(k) == F(fate, k)
           started(k) == St(fate, k)
           over == done \cup UNION {failed(k) : k \in Core}
<1>2. ASSUME NEW k \in Core
      PROVE  /\ queue'[k] \in Seq(Known) /\ NoDup(queue'[k])
             /\ Elements(queue'[k]) = Elements(q[k]) \ (failed(k) \cup started(k))
             /\ failed(k) \subseteq Elements(q[k]) /\ started(k) \subseteq Elements(q[k])
             /\ failed(k) \cap started(k) = {}
  <2>1. q[k] \in Seq(Known) /\ NoDup(q[k]) /\ fate[k] \in Fates(k, q[k])
    BY <1>1 DEF Placed
  <2>2. queue'[k] = QueueAfter(q[k], fate[k])
    BY <1>1
  <2> QED BY <2>1, <2>2, QueueAfterElements
<1>3. Started(q, fate) = UNION {started(k) : k \in Core}
  BY DEF Started
<1>4. ASSUME NEW k \in Core
      PROVE  /\ fate[k].then = "start" =>
                  /\ started(k) = {NextOf(q[k], fate[k])} /\ NextOf(q[k], fate[k]) \in Nat
                  /\ worker'[k] = Given(NextOf(q[k], fate[k])) /\ cores[k].at # "working"
             /\ fate[k].then # "start" => started(k) = {} /\ worker'[k] = cores[k]
  <2>1. worker'[k] = IF fate[k].then = "start"
                     THEN Given(NextOf(q[k], fate[k])) ELSE cores[k]
    BY <1>1
  <2>2. ASSUME fate[k].then = "start"
        PROVE  ~ Busy(k) /\ NextOf(q[k], fate[k]) \in Known
    <3>1. q[k] \in Seq(Known) /\ fate[k] \in Fates(k, q[k])
      BY <1>1 DEF Placed
    <3> QED BY <2>2, <3>1, FateType
  <2> QED BY <2>1, <2>2 DEF Known
<1>5. running' = run \cup UNION {started(k) : k \in Core}
  BY <1>1, <1>3
<1>6. /\ silenced' = silenced \cap run
      /\ Tell(over \ silenced, "done") /\ Record(over) /\ Recount(accepted, over)
  BY <1>1
<1>7. DOMAIN queue' = Core /\ queue' = [k \in Core |-> queue'[k]]
      /\ worker' = [k \in Core |-> worker'[k]]
  BY <1>1
<1> HIDE DEF failed, started
\* The entries of two queues are different requests: their cores differ.
<1>8. ASSUME NEW k \in Core, NEW l \in Core, NEW r \in Elements(q[k]), r \in Elements(q[l])
      PROVE  k = l
  BY <1>8 DEF Placed
<1>9. ASSUME NEW k \in Core
      PROVE  Elements(queue'[k]) \cap (po \cup running' \cup over) = {}
  <2>1. ASSUME NEW r \in Elements(queue'[k]), r \in po \cup run \cup done PROVE FALSE
    <3>1. r \in Elements(q[k])
      BY <1>2
    <3> QED BY <2>1, <3>1 DEF Placed, QueuedIn
  <2>2. ASSUME NEW r \in Elements(queue'[k]), NEW l \in Core,
               r \in started(l) \cup failed(l)
        PROVE  FALSE
    <3>1. r \in Elements(q[k]) /\ r \in Elements(q[l])
      BY <1>2, <2>2
    <3>2. k = l
      BY <1>8, <3>1
    <3> QED BY <1>2, <2>2, <3>2
  <2> QED BY <1>5, <2>1, <2>2
<1>10. over \cap (po \cup running') = {}
  <2>1. done \cap UNION {started(l) : l \in Core} = {}
    BY <1>2 DEF QueuedIn
  <2>2. ASSUME NEW k \in Core, NEW r \in failed(k) PROVE r \notin po \cup running'
    <3>1. r \in Elements(q[k])
      BY <1>2
    <3>2. ASSUME NEW l \in Core, r \in started(l) PROVE FALSE
      <4>1. k = l
        BY <1>2, <1>8, <3>1, <3>2
      <4> QED BY <1>2, <3>2, <4>1
    <3> QED BY <1>5, <3>1, <3>2 DEF Placed
  <2> QED BY <1>5, <2>1, <2>2
<1>11. po \cup QueuedIn(queue') \cup running'
         = (po \cup QueuedIn(q) \cup run \cup done) \ over
  <2>1. ASSUME NEW r \in QueuedIn(queue') PROVE r \in QueuedIn(q) /\ r \notin over
    <3>1. PICK k \in Core : r \in Elements(queue'[k])
      BY DEF QueuedIn
    <3>2. r \in Elements(q[k]) /\ r \notin over
      BY <1>2, <1>9, <3>1
    <3> QED BY <3>2 DEF QueuedIn
  <2>2. ASSUME NEW r \in running' PROVE r \in run \cup QueuedIn(q) /\ r \notin over
    BY <1>2, <1>5, <1>10 DEF QueuedIn
  <2>3. ASSUME NEW r \in QueuedIn(q), r \notin over PROVE r \in QueuedIn(queue') \cup running'
    <3>1. PICK k \in Core : r \in Elements(q[k])
      BY DEF QueuedIn
    <3>2. r \in Elements(queue'[k]) \/ r \in started(k)
      BY <1>2, <2>3, <3>1
    <3> QED BY <1>5, <3>2 DEF QueuedIn
  <2> QED BY <1>5, <1>10, <2>1, <2>2, <2>3
<1>12. over \subseteq Known /\ over \subseteq po \cup QueuedIn(q) \cup run \cup done
  <2>1. ASSUME NEW k \in Core, NEW r \in failed(k) PROVE r \in QueuedIn(q) /\ r \in Known
    <3>1. r \in Elements(q[k]) /\ q[k] \in Seq(Known)
      BY <1>2 DEF Placed
    <3> QED BY <3>1, ElementOfSeq DEF QueuedIn, Elements
  <2> QED BY <2>1
<1>13. Placed(po, queue', running', worker')
  <2>1. queue' \in [Core -> Seq(Known)]
    BY <1>2, <1>7
  <2>2. ASSUME NEW k \in Core, NEW r \in started(k) PROVE r \in Known /\ r \notin po /\ r \notin run
    <3>1. r \in Elements(q[k]) /\ q[k] \in Seq(Known)
      BY <1>2 DEF Placed
    <3> QED BY <3>1, ElementOfSeq DEF Elements, Placed
  <2>3. running' \subseteq Known /\ po \cap running' = {}
    BY <1>5, <2>2 DEF Placed
  <2>4. worker' \in [Core -> Workers]
    <3>1. ASSUME NEW k \in Core PROVE worker'[k] \in Workers
      <4>1. CASE fate[k].then = "start"
        BY <1>4, <4>1, GivenType
      <4>2. CASE fate[k].then # "start"
        BY <1>4, <4>2 DEF Placed
      <4> QED BY <4>1, <4>2
    <3> QED BY <1>7, <3>1
  <2>5. ASSUME NEW k \in Core, NEW r \in Elements(queue'[k])
        PROVE  r \notin po /\ r \notin running' /\ req[r].core = k
    BY <1>2, <1>9 DEF Placed
  <2>6. ASSUME NEW k \in Core, NEW r \in Nat, Works(worker', k, r)
        PROVE  \/ fate[k].then = "start" /\ r \in started(k)
               \/ fate[k].then # "start" /\ Works(cores, k, r) /\ r \in run
    <3>1. CASE fate[k].then = "start"
      BY <1>4, <2>6, <3>1, GivenType DEF Works
    <3>2. CASE fate[k].then # "start"
      <4>1. Works(cores, k, r)
        BY <1>4, <2>6, <3>2 DEF Works
      <4> QED BY <3>2, <4>1 DEF Placed
    <3> QED BY <3>1, <3>2
  <2>7. ASSUME NEW k \in Core, NEW l \in Core, NEW r \in Nat,
               Works(worker', k, r), Works(worker', l, r)
        PROVE  k = l
    <3>1. CASE r \in run
      <4>1. Works(cores, k, r) /\ Works(cores, l, r)
        BY <2>2, <2>6, <2>7, <3>1
      <4> QED BY <4>1 DEF Placed
    <3>2. CASE r \notin run
      <4>1. r \in started(k) /\ r \in started(l)
        BY <2>6, <2>7, <3>2
      <4> QED BY <1>2, <1>8, <4>1
    <3> QED BY <3>1, <3>2
  <2>8. ASSUME NEW r \in running' PROVE \E k \in Core : Works(worker', k, r)
    <3>1. CASE r \in run
      <4>1. PICK k \in Core : Works(cores, k, r)
        BY <3>1 DEF Placed
      <4> QED BY <1>4, <4>1 DEF Works
    <3>2. ASSUME NEW k \in Core, r \in started(k) PROVE Works(worker', k, r)
      BY <1>4, <3>2, GivenType DEF Works
    <3> QED BY <1>5, <3>1, <3>2
  <2>9. \A k \in Core, r \in Nat : Works(worker', k, r) => r \in running'
    BY <1>5, <2>6
  <2>10. \A k \in Core : NoDup(queue'[k])
    BY <1>2
  <2>11. po \subseteq Known
    BY DEF Placed
  <2> HIDE DEF over
  <2> QED BY <2>1, <2>3, <2>4, <2>5, <2>7, <2>8, <2>9, <2>10, <2>11 DEF Placed
<1>14. over \cap (po \cup run) = {} /\ done \subseteq over /\ run \subseteq running'
  BY <1>5, <1>10
<1> HIDE DEF over
<1> QED BY <1>6, <1>11, <1>12, <1>13, <1>14 DEF Pumped

SessionRecords ==
  [fd : Client \cup {Nobody}, priority : Nat, openRequests : Nat, bytesAllocated : Nat]

Types ==
  /\ session \in [SessionId -> SessionRecords]
  /\ req \in Seq(RequestRecords) /\ Len(req) <= MaxRequests
  /\ silenced \subseteq running
  /\ phase \in [Client -> {"up", "destroyed", "unregistered", "left"}]
  /\ mine \in [Client -> SessionId \cup {0}]
  /\ inbox \in [Client -> SUBSET Request] /\ waitsFor \in [Client -> Request \cup {0}]
  /\ counted \in [SessionId -> Nat] /\ errors \in Nat
  /\ told \in [Request -> Seq({"done", "CANCELLED"})]
  /\ taken \subseteq Request /\ arrived \in Seq(Request)
  /\ pushedBack \in [Request -> Nat] /\ hasty \subseteq Request
  /\ opens \in 0..MaxOpens

\* A request that has not ended is unanswered; one that has ended was answered once,
\* or its session was closed first.
Answered ==
  /\ \A r \in Request : Len(told[r]) <= 1
  /\ \A r \in Request : r \in Open \/ r \notin Known => told[r] = <<>>
  /\ \A r \in Known : r \notin Open /\ r \notin ended => told[r] # <<>>
  /\ ended \subseteq Known /\ ended \cap Open = silenced

\* A request whose session was not closed belongs to a session of its client; a client
\* without its objects knows of no session, and one that has left has none.
SessionsHeld ==
  /\ \A r \in Known : r \notin ended => session[req[r].session].fd = req[r].fd
  /\ \A c \in Client : phase[c] \in {"destroyed", "left"} => mine[c] = 0
  /\ \A c \in Client : phase[c] # "up" => waitsFor[c] = 0
  /\ \A c \in Client : phase[c] = "left" => \A s \in SessionId : session[s].fd # c

\* The completions of a client are those of its requests that were answered and that
\* no wait has returned.
Delivered ==
  /\ \A c \in Client : \A r \in inbox[c] :
       r \in Known /\ req[r].fd = c /\ r \notin taken /\ told[r] # <<>>
  /\ \A r \in taken : r \in Known /\ told[r] # <<>>
  /\ \A r \in Known : phase[req[r].fd] = "up" /\ told[r] # <<>> =>
       r \in inbox[req[r].fd] \/ r \in taken

\* The block a request was posted with is there, with its owner and its size, until
\* the request has ended or its memory was freed under it.
BlockHeld(r) ==
  \E b \in blocks : /\ b.handle = req[r].mem
                     /\ b.owner = req[r].session /\ req[r].bytes <= b.bytes
MemoryHeld == \A r \in Open : r \in hasty \/ BlockHeld(r)

ServiceInv ==
  /\ PoolInv /\ Types /\ Placed(posted, queue, running, worker)
  /\ Answered /\ SessionsHeld /\ Delivered /\ MemoryHeld

\* What a call that pumps does with the requests in `over`, which end in it.
Finishes(over) ==
  /\ over \subseteq Open /\ Open' = Open \ over /\ over \cap posted' = {}
  /\ silenced' = silenced \ over /\ silenced' \subseteq running'
  /\ Tell(over \ silenced, "done")
  /\ Record(over)
  /\ \E accepted \in SUBSET posted :
       /\ posted' = posted \ accepted /\ Submitted' = Submitted \cup accepted
       /\ Recount(accepted, over)
  /\ arrived' = arrived \/ \E r \in posted : arrived' = Append(arrived, r)
  /\ UNCHANGED <<blocks, nextHandle, req, phase, mine, waitsFor, taken, ended, hasty, opens>>

LEMMA KnownType ==
  ASSUME Types
  PROVE  /\ Len(req) \in Nat /\ Known \subseteq Request /\ IsFiniteSet(Known)
         /\ \A r \in Known : /\ req[r] \in RequestRecords /\ req[r].session \in SessionId
                              /\ req[r].fd \in Client /\ req[r].core \in Core
                              /\ req[r].mem \in Nat /\ req[r].bytes \in Nat
                              /\ req[r].priority \in Nat
<1>1. Len(req) \in Nat /\ \A r \in Known : req[r] \in RequestRecords
  BY LenProperties, ElementOfSeq DEF Types, Known
<1>2. Known \subseteq Request
  BY <1>1, CvAssumption DEF Known, Request, Types
<1>3. IsFiniteSet(Known)
  BY <1>1, FS_Interval DEF Known
<1> QED BY <1>1, <1>2, <1>3 DEF RequestRecords

LEMMA OpenType ==
  ASSUME Types, Placed(posted, queue, running, worker)
  PROVE  /\ Open \subseteq Known /\ Queued = QueuedIn(queue)
         /\ Queued \cap posted = {} /\ Queued \cap running = {} /\ posted \cap running = {}
<1>1. ASSUME NEW k \in Core, NEW r \in Elements(queue[k])
      PROVE  r \in Known /\ r \notin posted /\ r \notin running
  <2>1. queue[k] \in Seq(Known)
    BY DEF Placed
  <2> QED BY <1>1, <2>1, ElementOfSeq DEF Placed, Elements
<1>2. Queued = QueuedIn(queue)
  BY DEF Queued, QueuedIn
<1> QED BY <1>1, <1>2 DEF Open, Placed, QueuedIn

LEMMA PlacedAfter ==
  ASSUME UNCHANGED req, Placed(posted', queue', running', worker')
  PROVE  Placed(posted, queue, running, worker)'
BY DEF Placed, Known, Works, NoDup, Elements

LEMMA AppendedElements ==
  ASSUME NEW S, NEW q \in Seq(S), NEW r \in S
  PROVE  Elements(Append(q, r)) = Elements(q) \cup {r}
<1>1. /\ Len(q) \in Nat /\ Len(Append(q, r)) = Len(q) + 1 /\ Append(q, r)[Len(q) + 1] = r
      /\ \A i \in 1..Len(q) : Append(q, r)[i] = q[i]
  BY AppendProperties, LenProperties
<1>2. 1..(Len(q) + 1) = 1..Len(q) \cup {Len(q) + 1}
  BY <1>1
<1> QED BY <1>1, <1>2 DEF Elements

\* The pump at the end of a call: from the places the call has made, to the next state.
LEMMA PumpFinishes ==
  ASSUME Types, Placed(posted, queue, running, worker),
         NEW q, NEW run, NEW cores, NEW accepted \in SUBSET posted, NEW done,
         posted' = posted \ accepted, Submitted' = Submitted \cup accepted,
         arrived' = arrived \/ \E r \in posted : arrived' = Append(arrived, r),
         Placed(posted', q, run, cores), Pump(q, run, cores, accepted, done),
         done \subseteq Known, done \cap (posted' \cup QueuedIn(q) \cup run) = {},
         posted' \cup QueuedIn(q) \cup run \cup done = Open,
         run = running \ done,
         \A k \in Core : ~ Busy(k) => cores[k].at # "working",
         UNCHANGED <<blocks, nextHandle, req, phase, mine, waitsFor, taken, ended, hasty, opens>>
  PROVE  Placed(posted, queue, running, worker)' /\ \E over : Finishes(over)
<1>1. req \in Seq(RequestRecords)
  BY DEF Types
<1>2. PICK over \in SUBSET Known :
        /\ Placed(posted', queue', running', worker')
        /\ done \subseteq over /\ over \subseteq Open
        /\ over \cap (posted' \cup run) = {} /\ run \subseteq running'
        /\ posted' \cup QueuedIn(queue') \cup running' = Open \ over
        /\ silenced' = silenced \cap run
        /\ Tell(over \ silenced, "done") /\ Record(over) /\ Recount(accepted, over)
  <2>1. \E over \in SUBSET Known : Pumped(posted', q, run, accepted, done, over)
    BY <1>1, PumpPlaces
  <2> QED BY <2>1 DEF Pumped
<1>3. Open' = Open \ over
  BY <1>2 DEF Open, Queued, QueuedIn
<1>4. silenced' = silenced \ over /\ silenced' \subseteq running'
  BY <1>2 DEF Types
<1>5. Placed(posted, queue, running, worker)'
  BY <1>2, PlacedAfter
<1> QED BY <1>2, <1>3, <1>4, <1>5 DEF Finishes

LEMMA SubmitFinishes ==
  ASSUME Types, Placed(posted, queue, running, worker), NEW c \in Client, Submit(c)
  PROVE  Placed(posted, queue, running, worker)' /\ \E over : Finishes(over)
<1>1. PICK r \in posted :
        /\ posted' = posted \ {r} /\ arrived' = Append(arrived, r)
        /\ Pump([queue EXCEPT ![req[r].core] = Enqueued(queue[req[r].core], r)],
                running, worker, {r}, {})
  BY DEF Submit
<1>2. /\ UNCHANGED <<blocks, nextHandle, req, phase, mine, waitsFor, taken, ended, hasty, opens>>
  BY DEF Submit, Unhurried
<1> DEFINE k0 == req[r].core
           q == [queue EXCEPT ![k0] = Enqueued(queue[k0], r)]
<1>3. r \in Known /\ k0 \in Core /\ r \notin Queued /\ r \notin running
  BY KnownType, OpenType DEF Placed, Open
<1>4. queue \in [Core -> Seq(Known)] /\ \A k \in Core : NoDup(queue[k])
  BY DEF Placed
<1>5. /\ Enqueued(queue[k0], r) \in Seq(Known)
      /\ Elements(Enqueued(queue[k0], r)) = Elements(queue[k0]) \cup {r}
      /\ NoDup(Enqueued(queue[k0], r))
  <2>1. r \notin Elements(queue[k0]) /\ queue[k0] \in Seq(Known) /\ NoDup(queue[k0])
    BY <1>3, <1>4 DEF Queued
  <2>2. Enqueued(queue[k0], r) \in Seq(Known)
    BY <1>3, <2>1, EnqueuedAt
  <2> QED BY <1>3, <2>1, <2>2, EnqueuedElements
<1>6. /\ q \in [Core -> Seq(Known)] /\ \A k \in Core : NoDup(q[k])
      /\ \A k \in Core : k # k0 => Elements(q[k]) = Elements(queue[k])
      /\ Elements(q[k0]) = Elements(queue[k0]) \cup {r}
  <2> HIDE DEF k0
  <2> QED BY <1>3, <1>4, <1>5
<1>7. QueuedIn(q) = Queued \cup {r}
  <2>1. QueuedIn(q) \subseteq Queued \cup {r}
    BY <1>6 DEF QueuedIn, Queued
  <2>2. Queued \cup {r} \subseteq QueuedIn(q)
    BY <1>3, <1>6 DEF QueuedIn, Queued
  <2> QED BY <2>1, <2>2
<1>8. \A k \in Core : \A x \in Elements(q[k]) :
        x \notin posted' /\ x \notin running /\ req[x].core = k
  <2>1. ASSUME NEW k \in Core, NEW x \in Elements(q[k])
        PROVE  x \notin posted' /\ x \notin running /\ req[x].core = k
    <3>1. CASE x = r
      <4>1. k = k0
        BY <1>3, <1>6, <2>1, <3>1 DEF Queued
      <4> QED BY <1>1, <1>3, <3>1, <4>1
    <3>2. CASE x # r
      <4>1. x \in Elements(queue[k])
        BY <1>6, <2>1, <3>2
      <4> QED BY <1>1, <4>1 DEF Placed
    <3> QED BY <3>1, <3>2
  <2> QED BY <2>1
<1>9. Placed(posted', q, running, worker)
  <2> HIDE DEF q
  <2> QED BY <1>1, <1>6, <1>8 DEF Placed
<1>10. posted' \cup QueuedIn(q) \cup running = Open
  BY <1>1, <1>7 DEF Open
<1>11. \A k \in Core : ~ Busy(k) => worker[k].at # "working"
  BY DEF Busy
<1> DEFINE none == {}
<1>12. Pump(q, running, worker, {r}, none) /\ {r} \in SUBSET posted
  BY <1>1, <1>3
<1>14. Submitted' = Submitted \cup {r}
  <2>1. r \in Request /\ arrived \in Seq(Request)
    BY <1>3, KnownType DEF Types
  <2> QED BY <1>1, <2>1, AppendedElements DEF Submitted
<1>13. /\ none \subseteq Known /\ none \cap (posted' \cup QueuedIn(q) \cup running) = {}
       /\ posted' \cup QueuedIn(q) \cup running \cup none = Open
       /\ running = running \ none
  BY <1>10
<1> HIDE DEF q, none
<1> QED BY <1>1, <1>2, <1>9, <1>11, <1>12, <1>13, <1>14, PumpFinishes

LEMMA JobDoneFinishes ==
  ASSUME Types, Placed(posted, queue, running, worker), NEW k \in Core, JobDone(k)
  PROVE  Placed(posted, queue, running, worker)' /\ \E over : Finishes(over)
<1> DEFINE r == worker[k].job
           run == running \ {r}
           cores == [worker EXCEPT ![k].at = "reported"]
           none == {}
<1>1. /\ worker[k].at = "working" /\ Pump(queue, run, cores, none, {r})
      /\ UNCHANGED <<blocks, nextHandle, req, posted, phase, mine, waitsFor, taken,
                     ended, hasty, opens, arrived>>
  BY DEF JobDone, RunningWithout, Unhurried
<1>2. r \in Nat /\ r \in running /\ r \in Known
  BY <1>1 DEF Placed, Workers, Works
<1>3. /\ cores \in [Core -> Workers] /\ cores[k].at = "reported"
      /\ \A l \in Core : l # k => cores[l] = worker[l]
  BY <1>1 DEF Placed, Workers
<1>4. r \notin posted /\ r \notin Queued /\ {r} \subseteq running
  BY <1>2, OpenType
<1> HIDE DEF cores
<1>5. \A l \in Core, x \in Nat : Works(cores, l, x) => l # k /\ Works(worker, l, x)
  BY <1>3 DEF Works
<1>6. Placed(posted', queue, run, cores)
  <2>1. \A l \in Core, x \in Nat : Works(cores, l, x) => x \in run
    <3>1. ASSUME NEW l \in Core, NEW x \in Nat, Works(cores, l, x) PROVE x \in run
      <4>1. x # r
        BY <1>1, <1>2, <1>5, <3>1 DEF Placed, Works
      <4> QED BY <1>5, <3>1, <4>1 DEF Placed
    <3> QED BY <3>1
  <2>2. ASSUME NEW x \in run PROVE \E l \in Core : Works(cores, l, x)
    <3>1. PICK l \in Core : Works(worker, l, x)
      BY DEF Placed
    <3>2. l # k
      BY <3>1 DEF Works
    <3> QED BY <1>3, <3>1, <3>2 DEF Works
  <2>3. run \subseteq Known /\ posted' \cap run = {} /\ run \subseteq running
    BY <1>1 DEF Placed
  <2> HIDE DEF run, r
  <2> QED BY <1>1, <1>3, <1>5, <2>1, <2>2, <2>3 DEF Placed
<1>7. /\ {r} \subseteq Known /\ {r} \cap (posted' \cup QueuedIn(queue) \cup run) = {}
      /\ posted' \cup QueuedIn(queue) \cup run \cup {r} = Open
  BY <1>1, <1>2, <1>4, OpenType DEF Open
<1>8. \A l \in Core : ~ Busy(l) => cores[l].at # "working"
  BY <1>3 DEF Busy
<1>9. /\ Pump(queue, run, cores, none, {r}) /\ none \in SUBSET posted
      /\ posted' = posted \ none /\ Submitted' = Submitted \cup none
  BY <1>1 DEF Submitted
<1> HIDE DEF run, r, none
<1>10. run = running \ {r}
  BY DEF run
<1> QED BY <1>1, <1>6, <1>7, <1>8, <1>9, <1>10, PumpFinishes

LEMMA MaintainFinishes ==
  ASSUME Types, Placed(posted, queue, running, worker), Maintain
  PROVE  Placed(posted, queue, running, worker)' /\ \E over : Finishes(over)
<1> DEFINE none == {}
<1>1. /\ Pump(queue, running, worker, none, none)
      /\ UNCHANGED <<blocks, nextHandle, req, posted, phase, mine, waitsFor, taken,
                     ended, hasty, opens, arrived>>
  BY DEF Maintain, Unhurried
<1>2. Placed(posted', queue, running, worker)
  BY <1>1
<1>3. \A l \in Core : ~ Busy(l) => worker[l].at # "working"
  BY DEF Busy
<1>4. /\ none \subseteq Known /\ none \cap (posted' \cup QueuedIn(queue) \cup running) = {}
      /\ posted' \cup QueuedIn(queue) \cup running \cup none = Open
      /\ running = running \ none /\ none \in SUBSET posted
      /\ posted' = posted \ none /\ Submitted' = Submitted \cup none
  BY <1>1, OpenType DEF Open, Submitted
<1> HIDE DEF none
<1> QED BY <1>1, <1>2, <1>3, <1>4, PumpFinishes

\* Closing sessions: their queued requests are answered, their posted ones forgotten,
\* their running ones silenced.
LEMMA CloseMoves ==
  ASSUME Types, Placed(posted, queue, running, worker),
         NEW ss \in SUBSET SessionId, CloseSessions(ss)
  PROVE  /\ Placed(posted, queue, running, worker)'
         /\ Open' = {r \in Open : r \in running \/ req[r].session \notin ss}
<1> DEFINE cancelled == {r \in Queued : req[r].session \in ss}
<1>1. /\ queue' = [k \in Core |-> Without(queue[k], cancelled)]
      /\ posted' = {r \in posted : req[r].session \notin ss}
      /\ UNCHANGED <<req, running, worker>>
  BY DEF CloseSessions
<1>2. ASSUME NEW k \in Core
      PROVE  /\ queue'[k] \in Seq(Known) /\ NoDup(queue'[k])
             /\ Elements(queue'[k]) = Elements(queue[k]) \ cancelled
  <2>1. queue[k] \in Seq(Known) /\ NoDup(queue[k]) /\ queue'[k] = Without(queue[k], cancelled)
    BY <1>1 DEF Placed
  <2> HIDE DEF cancelled
  <2>2. /\ queue'[k] \in Seq(Known)
        /\ Elements(queue'[k]) = Elements(queue[k]) \ cancelled
        /\ \E at : Picks(queue'[k], queue[k], at)
    BY <2>1, WithoutPicks
  <2>3. NoDup(queue'[k])
    BY <2>1, <2>2, PicksKeepNoDup
  <2> QED BY <2>2, <2>3
<1>3. Placed(posted', queue', running', worker')
  <2>1. queue' \in [Core -> Seq(Known)]
    BY <1>1, <1>2
  <2>2. \A k \in Core : \A r \in Elements(queue'[k]) :
          r \notin posted' /\ r \notin running' /\ req[r].core = k
    BY <1>1, <1>2 DEF Placed
  <2> HIDE DEF cancelled
  <2> QED BY <1>1, <1>2, <2>1, <2>2 DEF Placed
<1>4. QueuedIn(queue') = {r \in QueuedIn(queue) : req[r].session \notin ss}
  <2>1. ASSUME NEW k \in Core, NEW r \in Elements(queue'[k])
        PROVE  r \in QueuedIn(queue) /\ req[r].session \notin ss
    BY <1>2 DEF QueuedIn, Queued
  <2>2. ASSUME NEW k \in Core, NEW r \in Elements(queue[k]), req[r].session \notin ss
        PROVE  r \in Elements(queue'[k])
    BY <1>2, <2>2
  <2> QED BY <2>1, <2>2 DEF QueuedIn
<1>5. Open' = posted' \cup QueuedIn(queue') \cup running'
  BY DEF Open, Queued, QueuedIn
<1>6. Open' = {r \in Open : r \in running \/ req[r].session \notin ss}
  BY <1>1, <1>4, <1>5, OpenType DEF Open
<1> QED BY <1>1, <1>3, <1>6, PlacedAfter

\* A new request is posted under the next number.
LEMMA PostMoves ==
  ASSUME PoolInv, Types, Placed(posted, queue, running, worker), NEW c \in Client,
         PostConfig(c)
  PROVE  /\ Placed(posted, queue, running, worker)'
         /\ req' \in Seq(RequestRecords) /\ Len(req') = Len(req) + 1
         /\ Known' = Known \cup {Len(req) + 1} /\ Len(req) + 1 \notin Known
         /\ \A r \in Known : req'[r] = req[r]
         /\ Open' = Open \cup {Len(req) + 1}
         /\ req'[Len(req) + 1].session = mine[c] /\ req'[Len(req) + 1].fd = c
         /\ \E b \in blocks : /\ b.owner = mine[c] /\ b.handle = req'[Len(req) + 1].mem
                              /\ req'[Len(req) + 1].bytes <= b.bytes
<1> DEFINE n == Len(req) + 1
           Rec(b, k, bytes) == [session |-> mine[c], fd |-> c, mem |-> b.handle, core |-> k,
                                priority |-> session[mine[c]].priority, bytes |-> bytes]
<1>1. PICK b \in blocks, k \in Core, bytes \in JobSizes :
        b.owner = mine[c] /\ bytes <= b.bytes /\ req' = Append(req, Rec(b, k, bytes))
  BY DEF PostConfig
<1>2. mine[c] \in SessionId /\ session[mine[c]].priority \in Nat
  BY DEF PostConfig, InSession, Owns, Types, SessionRecords
<1>3. posted' = posted \cup {n} /\ UNCHANGED <<queue, running, worker>>
  BY DEF PostConfig
<1>4. b.handle \in Nat /\ bytes \in Nat
  <2>1. b \in Blocks(SessionId)
    BY DEF PoolInv
  <2> QED BY <2>1, BlockType, CvAssumption
<1> DEFINE rec == Rec(b, k, bytes)
<1>5. /\ rec \in RequestRecords /\ rec.session = mine[c] /\ rec.fd = c
      /\ rec.mem = b.handle /\ rec.bytes = bytes
  BY <1>2, <1>4 DEF RequestRecords
<1>6. req \in Seq(RequestRecords) /\ Len(req) \in Nat /\ req' = Append(req, rec)
  BY <1>1, KnownType DEF Types
<1> HIDE DEF rec, Rec
<1>7. /\ req' \in Seq(RequestRecords) /\ Len(req') = Len(req) + 1 /\ req'[n] = rec
      /\ \A r \in 1..Len(req) : req'[r] = req[r]
  BY <1>5, <1>6, AppendProperties
<1>8. Known' = 1..Len(req') /\ Known' = Known \cup {n} /\ n \notin Known
  BY <1>6, <1>7 DEF Known
<1>9. Open' = Open \cup {n}
  BY <1>3 DEF Open, Queued
<1>10. Placed(posted, queue, running, worker)'
  <2>1. \A r \in Known : req'[r] = req[r] /\ r # n /\ r \in Known'
    BY <1>7, <1>8 DEF Known
  <2>2. ASSUME NEW k1 \in Core
        PROVE  /\ queue[k1] \in Seq(Known') /\ NoDup(queue[k1])
               /\ \A r \in Elements(queue[k1]) :
                    r \notin posted' /\ r \notin running /\ req'[r].core = k1
    <3>1. queue[k1] \in Seq(Known) /\ NoDup(queue[k1])
      BY DEF Placed
    <3>2. \A i \in 1..Len(queue[k1]) : queue[k1][i] \in Known'
      BY <2>1, <3>1, ElementOfSeq
    <3>3. queue[k1] \in Seq(Known')
      BY <1>8, <3>1, SeqMonotonic
    <3>4. ASSUME NEW r \in Elements(queue[k1])
          PROVE  r \notin posted' /\ r \notin running /\ req'[r].core = k1
      <4>1. r \in Known
        BY <3>1, ElementOfSeq DEF Elements
      <4> QED BY <1>3, <2>1, <4>1 DEF Placed
    <3> QED BY <3>1, <3>3, <3>4
  <2>3. queue = [k1 \in Core |-> queue[k1]]
    BY DEF Placed
  <2>4. queue \in [Core -> Seq(Known')]
    BY <2>2, <2>3
  <2>5. posted' \subseteq Known' /\ running \subseteq Known' /\ posted' \cap running = {}
    <3>1. /\ posted \subseteq Known /\ running \subseteq Known
          /\ posted \cap running = {}
      BY DEF Placed
    <3>2. n \notin running /\ posted' = posted \cup {n} /\ running' = running
      BY <1>3, <1>8, <3>1
    <3> HIDE DEF n
    <3> QED BY <1>8, <3>1, <3>2
  <2> QED BY <1>3, <2>2, <2>4, <2>5 DEF Placed, Works, NoDup, Elements
<1> QED BY <1>1, <1>5, <1>7, <1>8, <1>9, <1>10 DEF Known

\* A call closes the sessions `ss` of the client `c`: the one it knows of, or, when it
\* leaves, all of them.
Closes(c, ss) ==
  /\ CloseSessions(ss)
  /\ Open' = {r \in Open : r \in running \/ req[r].session \notin ss}
  /\ mine' = [mine EXCEPT ![c] = 0] /\ waitsFor' = waitsFor
  /\ \/ phase' = phase
     \/ /\ phase[c] # "up" /\ phase' = [phase EXCEPT ![c] = "left"]
        /\ ss = {s \in SessionId : session[s].fd = c}

\* A step that concerns no request.
Quiet == UNCHANGED <<req, posted, queue, running, silenced, told, ended>>

\* What a step can be, as far as the requests are concerned.
LEMMA StepKinds ==
  ASSUME ServiceInv, [Next]_vars
  PROVE  /\ Placed(posted, queue, running, worker)'
         /\ \/ \E over : Finishes(over)
            \/ \E c \in Client, ss \in SUBSET SessionId : Closes(c, ss)
            \/ \E c \in Client : PostConfig(c)
            \/ \E c \in Client : OpenSession(c) \/ AllocMem(c) \/ FreeMem(c)
            \/ \E c \in Client : Wait(c) \/ WaitEnds(c) \/ WaitTimesOut(c)
            \/ \E c \in Client : DestroyClient(c) \/ Unregister(c)
            \/ \E k \in Core : CoreFree(k)
            \/ UNCHANGED vars
<1>1. Types /\ Placed(posted, queue, running, worker) /\ PoolInv /\ SessionsHeld
  BY DEF ServiceInv
<1>q. ASSUME UNCHANGED <<req, posted, queue, running, worker>>
      PROVE  Placed(posted, queue, running, worker)'
  BY <1>1, <1>q, PlacedAfter
<1>2. ASSUME NEW c \in Client, Submit(c)
      PROVE  Placed(posted, queue, running, worker)' /\ \E over : Finishes(over)
  BY <1>1, <1>2, SubmitFinishes
<1>3. ASSUME NEW k \in Core, JobDone(k)
      PROVE  Placed(posted, queue, running, worker)' /\ \E over : Finishes(over)
  BY <1>1, <1>3, JobDoneFinishes
<1>4. ASSUME Maintain
      PROVE  Placed(posted, queue, running, worker)' /\ \E over : Finishes(over)
  BY <1>1, <1>4, MaintainFinishes
<1>5. ASSUME NEW c \in Client, CloseSession(c) \/ ClientDisconnected(c)
      PROVE  /\ Placed(posted, queue, running, worker)'
             /\ \E ss \in SUBSET SessionId : Closes(c, ss)
  <2>1. PICK ss \in SUBSET SessionId :
          /\ CloseSessions(ss)
          /\ \/ phase' = phase
             \/ /\ phase[c] # "up" /\ phase' = [phase EXCEPT ![c] = "left"]
                /\ ss = {s \in SessionId : session[s].fd = c}
    <3>1. CASE CloseSession(c)
      <4>1. {mine[c]} \in SUBSET SessionId /\ CloseSessions({mine[c]}) /\ phase' = phase
        BY <3>1 DEF CloseSession, InSession, Owns
      <4> QED BY <4>1
    <3>2. CASE ClientDisconnected(c)
      <4> DEFINE all == {s \in SessionId : session[s].fd = c}
      <4>1. SessionsOf(c) = all /\ all \in SUBSET SessionId
        BY DEF SessionsOf, Owns
      <4>2. /\ CloseSessions(SessionsOf(c)) /\ phase[c] # "up"
            /\ phase' = [phase EXCEPT ![c] = "left"]
        BY <3>2 DEF ClientDisconnected
      <4> QED BY <4>1, <4>2
    <3> QED BY <1>5, <3>1, <3>2
  <2>2. mine' = [mine EXCEPT ![c] = 0] /\ waitsFor' = waitsFor
    BY <1>5 DEF CloseSession, ClientDisconnected
  <2>3. /\ Placed(posted, queue, running, worker)'
        /\ Open' = {r \in Open : r \in running \/ req[r].session \notin ss}
    BY <1>1, <2>1, CloseMoves
  <2> QED BY <2>1, <2>2, <2>3 DEF Closes
<1>6. ASSUME NEW c \in Client, PostConfig(c)
      PROVE  Placed(posted, queue, running, worker)'
  BY <1>1, <1>6, PostMoves
<1>7. ASSUME NEW c \in Client,
             OpenSession(c) \/ AllocMem(c) \/ FreeMem(c) \/ Wait(c) \/ WaitEnds(c)
               \/ WaitTimesOut(c) \/ DestroyClient(c) \/ Unregister(c)
      PROVE  Placed(posted, queue, running, worker)'
  BY <1>7, <1>q DEF OpenSession, AllocMem, FreeMem, Wait, WaitEnds, WaitTimesOut,
                    DestroyClient, Unregister, service
<1>8. ASSUME NEW k \in Core, CoreFree(k)
      PROVE  Placed(posted, queue, running, worker)'
  <2>1. /\ worker[k].at = "reported" /\ worker' = [worker EXCEPT ![k] = Idle]
        /\ UNCHANGED <<req, posted, queue, running>>
    BY <1>8 DEF CoreFree, Freed, service
  <2>2. /\ worker \in [Core -> Workers] /\ Idle \in Workers /\ Idle.at = "idle"
        /\ posted \cap running = {}
    BY <1>1 DEF Placed, Idle, Workers
  <2>3. worker' \in [Core -> Workers]
    BY <2>1, <2>2
  <2>4. ASSUME NEW l \in Core, NEW r
        PROVE  Works(worker', l, r) <=> Works(worker, l, r)
    BY <2>1, <2>2 DEF Works
  <2>5. Placed(posted, queue, running, worker')
    BY <1>1, <2>3, <2>4 DEF Placed
  <2>6. Placed(posted', queue', running', worker')
    BY <2>1, <2>5
  <2> QED BY <2>1, <2>6, PlacedAfter
<1>9. UNCHANGED vars => Placed(posted, queue, running, worker)'
  BY <1>q DEF vars, service
<1> QED BY <1>2, <1>3, <1>4, <1>5, <1>6, <1>7, <1>8, <1>9
         DEF Next, NextUnattended, ClientStep, WorkerStep

\* A request that is open and not silenced is of a session its client has.  If the
\* client's objects are gone but not its handler, it is one the client has forgotten.
LEMMA HeardIsOpen ==
  ASSUME ServiceInv, NEW r \in Open \ silenced
  PROVE  /\ r \in Known /\ r \in Request /\ r \notin ended /\ told[r] = <<>>
         /\ req[r].session \in SessionId /\ session[req[r].session].fd = req[r].fd
         /\ phase[req[r].fd] = "destroyed" => LeftOpen(req[r].session, req[r].fd)
<1>1. r \in Known /\ Known \subseteq Request
  BY KnownType, OpenType DEF ServiceInv
<1>2. r \notin ended /\ told[r] = <<>>
  BY <1>1 DEF ServiceInv, Answered
<1>3. /\ req[r].session \in SessionId /\ req[r].fd \in Client
      /\ session[req[r].session].fd = req[r].fd
  BY <1>1, <1>2, KnownType DEF ServiceInv, SessionsHeld
<1>4. ASSUME phase[req[r].fd] = "destroyed" PROVE LeftOpen(req[r].session, req[r].fd)
  <2>1. mine[req[r].fd] = 0 /\ 0 \notin SessionId
    BY <1>3, <1>4 DEF ServiceInv, SessionsHeld, SessionId
  <2> QED BY <1>3, <2>1 DEF LeftOpen, Owns
<1> QED BY <1>1, <1>2, <1>3, <1>4

\* Answers reach the clients that have their handlers, and only the requests that had
\* no answer.
LEMMA Told ==
  ASSUME ServiceInv, NEW heard \in SUBSET (Open \ silenced), NEW status, Tell(heard, status)
  PROVE  /\ told' = [r \in Request |-> IF r \in heard THEN <<status>> ELSE told[r]]
         /\ DOMAIN inbox' = Client
         /\ \A c \in Client :
              inbox'[c] = inbox[c] \cup {r \in heard : req[r].fd = c /\ Registered(c)}
<1>1. \A r \in heard : told[r] = <<>>
  BY HeardIsOpen
<1>2. told' = [r \in Request |-> IF r \in heard THEN <<status>> ELSE told[r]]
  <2>1. told' = [r \in Request |-> IF r \in heard THEN Append(told[r], status) ELSE told[r]]
    BY DEF Tell
  <2>2. Append(<<>>, status) = <<status>>
    OBVIOUS
  <2> QED BY <1>1, <2>1, <2>2
<1>3. inbox' = [c \in Client |->
                  inbox[c] \cup {r \in heard : req[r].fd = c /\ Registered(c)}]
  BY DEF Tell, Keeps
<1> QED BY <1>2, <1>3

\* The requests whose clients a call answers: those that finish, or those that are
\* cancelled with their session.
LEMMA FinishTells ==
  ASSUME ServiceInv, NEW over, Finishes(over)
  PROVE  over \ silenced \in SUBSET (Open \ silenced) /\ Tell(over \ silenced, "done")
BY DEF Finishes

Cancelled(ss) == {r \in Queued : req[r].session \in ss}

LEMMA CloseTells ==
  ASSUME ServiceInv, NEW c \in Client, NEW ss \in SUBSET SessionId, Closes(c, ss)
  PROVE  /\ Cancelled(ss) \in SUBSET (Open \ silenced) /\ Tell(Cancelled(ss), "CANCELLED")
         /\ Open' = {r \in Open : r \in running \/ req[r].session \notin ss}
         /\ silenced' = silenced \cup {r \in running : req[r].session \in ss}
         /\ posted' = {r \in posted : req[r].session \notin ss}
         /\ blocks' = {b \in blocks : b.owner \notin ss}
         /\ session' = [s \in SessionId |-> IF s \in ss THEN Closed ELSE session[s]]
         /\ ended' = ended \cup {r \in Known : req[r].session \in ss}
         /\ hasty' = hasty \cup {r \in Open : req[r].session \in ss}
         /\ UNCHANGED <<nextHandle, req, running, taken, counted, errors, arrived,
                        pushedBack, opens, waitsFor>>
<1>1. /\ CloseSessions(ss) /\ waitsFor' = waitsFor
      /\ Open' = {r \in Open : r \in running \/ req[r].session \notin ss}
  BY DEF Closes
<1>2. Queued \subseteq Open /\ Queued \cap running = {} /\ silenced \subseteq running
  BY OpenType DEF ServiceInv, Types, Open
<1>3. /\ Tell({r \in Queued : req[r].session \in ss}, "CANCELLED")
      /\ silenced' = silenced \cup {r \in running : req[r].session \in ss}
      /\ posted' = {r \in posted : req[r].session \notin ss}
      /\ blocks' = {b \in blocks : b.owner \notin ss}
      /\ session' = [s \in SessionId |-> IF s \in ss THEN Closed ELSE session[s]]
      /\ ended' = ended \cup {r \in Known : req[r].session \in ss}
      /\ hasty' = hasty \cup {r \in Open : req[r].session \in ss}
      /\ UNCHANGED <<nextHandle, req, running, taken, counted, errors, arrived,
                     pushedBack, opens>>
  BY <1>1 DEF CloseSessions, Silenced, ReleasedAll, OpenRequests, Open, Known, stats
<1>4. Cancelled(ss) \in SUBSET (Open \ silenced)
  BY <1>2 DEF Cancelled
<1> QED BY <1>1, <1>3, <1>4 DEF Cancelled

\* The records stay: a step changes only which requests there are.
LEMMA QuietSteps ==
  ASSUME [Next]_vars
  PROVE  /\ \A c \in Client : OpenSession(c) \/ AllocMem(c) \/ FreeMem(c) => Quiet
         /\ \A c \in Client : Wait(c) \/ WaitEnds(c) \/ WaitTimesOut(c) => Quiet
         /\ \A c \in Client : DestroyClient(c) \/ Unregister(c) => Quiet
         /\ \A k \in Core : CoreFree(k) => Quiet
         /\ UNCHANGED vars => Quiet
         /\ Quiet => Open' = Open /\ Known' = Known
<1>1. \A c \in Client : OpenSession(c) \/ AllocMem(c) \/ FreeMem(c) => Quiet
  BY DEF OpenSession, AllocMem, FreeMem, Quiet, history
<1>2. \A c \in Client : Wait(c) \/ WaitEnds(c) \/ WaitTimesOut(c) => Quiet
  BY DEF Wait, WaitEnds, WaitTimesOut, Quiet, history, service
<1>3. \A c \in Client : DestroyClient(c) \/ Unregister(c) => Quiet
  BY DEF DestroyClient, Unregister, Quiet, history, service
<1>4. \A k \in Core : CoreFree(k) => Quiet
  BY DEF CoreFree, Quiet, history, service
<1>5. UNCHANGED vars => Quiet
  BY DEF vars, Quiet, history, service
<1>6. Quiet => Open' = Open /\ Known' = Known
  BY DEF Quiet, Open, Queued, Known
<1> QED BY <1>1, <1>2, <1>3, <1>4, <1>5, <1>6

LEMMA AnsweredKept ==
  ASSUME ServiceInv, [Next]_vars
  PROVE  Answered'
<1>1. /\ Known \subseteq Request /\ Open \subseteq Known /\ silenced \subseteq running
      /\ running \subseteq Open /\ Answered
  BY KnownType, OpenType DEF ServiceInv, Types, Open
<1>2. ASSUME Quiet PROVE Answered'
  <2>1. Open' = Open /\ Known' = Known /\ UNCHANGED <<told, ended, silenced>>
    BY <1>2, QuietSteps DEF Quiet
  <2> QED BY <1>1, <2>1 DEF Answered
<1>3. ASSUME NEW over, Finishes(over) PROVE Answered'
  <2>1. /\ over \subseteq Open /\ Open' = Open \ over /\ silenced' = silenced \ over
        /\ ended' = ended /\ Known' = Known
    BY <1>3 DEF Finishes, Known
  <2>2. told' = [r \in Request |-> IF r \in over \ silenced THEN <<"done">> ELSE told[r]]
    <3> DEFINE heard == over \ silenced
    <3>1. heard \in SUBSET (Open \ silenced) /\ Tell(heard, "done")
      BY <1>3, FinishTells
    <3> HIDE DEF heard
    <3>2. told' = [r \in Request |-> IF r \in heard THEN <<"done">> ELSE told[r]]
      BY <3>1, Told
    <3> QED BY <3>2 DEF heard
  <2>3. Len(<<"done">>) = 1 /\ <<"done">> # <<>>
    OBVIOUS
  <2>4. \A r \in Request : Len(told'[r]) <= 1
    BY <1>1, <2>2, <2>3 DEF Answered
  <2>5. \A r \in Request : r \in Open' \/ r \notin Known' => told'[r] = <<>>
    BY <1>1, <2>1, <2>2 DEF Answered
  <2>6. \A r \in Known' : r \notin Open' /\ r \notin ended' => told'[r] # <<>>
    BY <1>1, <2>1, <2>2, <2>3 DEF Answered
  <2>7. ended' \subseteq Known' /\ ended' \cap Open' = silenced'
    BY <1>1, <2>1 DEF Answered
  <2> QED BY <2>4, <2>5, <2>6, <2>7 DEF Answered
<1>4. ASSUME NEW c \in Client, NEW ss \in SUBSET SessionId, Closes(c, ss)
      PROVE  Answered'
  <2> DEFINE Of(r) == req[r].session \in ss
             heard == Cancelled(ss)
  <2>1. /\ heard = {r \in Queued : Of(r)} /\ Queued \subseteq Open /\ Queued \cap running = {}
        /\ Open' = {r \in Open : r \in running \/ ~ Of(r)}
        /\ silenced' = silenced \cup {r \in running : Of(r)}
        /\ ended' = ended \cup {r \in Known : Of(r)} /\ Known' = Known
    BY <1>4, CloseTells, OpenType DEF Cancelled, ServiceInv, Known, Open
  <2>2. told' = [r \in Request |-> IF r \in heard THEN <<"CANCELLED">> ELSE told[r]]
    <3>1. heard \in SUBSET (Open \ silenced) /\ Tell(heard, "CANCELLED")
      BY <1>4, CloseTells
    <3> HIDE DEF heard
    <3> QED BY <3>1, Told
  <2>3. Len(<<"CANCELLED">>) = 1 /\ <<"CANCELLED">> # <<>>
    OBVIOUS
  <2> HIDE DEF heard, Of
  <2>4. \A r \in Request : Len(told'[r]) <= 1
    BY <1>1, <2>2, <2>3 DEF Answered
  <2>5. \A r \in Request : r \in Open' \/ r \notin Known' => told'[r] = <<>>
    BY <1>1, <2>1, <2>2 DEF Answered
  <2>6. \A r \in Known' : r \notin Open' /\ r \notin ended' => told'[r] # <<>>
    BY <1>1, <2>1, <2>2, <2>3 DEF Answered
  <2>7. ended' \subseteq Known' /\ ended' \cap Open' = silenced'
    BY <1>1, <2>1 DEF Answered
  <2> QED BY <2>4, <2>5, <2>6, <2>7 DEF Answered
<1>5. ASSUME NEW c \in Client, PostConfig(c) PROVE Answered'
  <2>1. /\ Known' = Known \cup {Len(req) + 1} /\ Len(req) + 1 \notin Known
        /\ Open' = Open \cup {Len(req) + 1}
    BY <1>5, PostMoves DEF ServiceInv
  <2>2. UNCHANGED <<told, ended, silenced>>
    BY <1>5 DEF PostConfig, history
  <2> QED BY <1>1, <2>1, <2>2 DEF Answered
<1> QED BY <1>2, <1>3, <1>4, <1>5, StepKinds, QuietSteps

\* Which sessions there are, and who has them: the fds of the sessions and what the
\* clients know stay in most steps.
LEMMA SessionsHeldKept ==
  ASSUME ServiceInv, [Next]_vars
  PROVE  SessionsHeld'
<1>1. /\ Open \subseteq Known /\ Types /\ SessionsHeld /\ Answered /\ PoolInv
      /\ \A r \in Known : req[r].session \in SessionId /\ req[r].fd \in Client
      /\ \A s \in SessionId : session[s].fd \in Client \cup {Nobody}
      /\ session = [s \in SessionId |-> session[s]]
  BY KnownType, OpenType DEF ServiceInv, Types, SessionRecords
<1>2. Nobody \notin Client /\ 0 \notin SessionId
  BY CvAssumption DEF SessionId
\* The parts about the sessions' fds.
<1>f. ASSUME \A r \in Known' : r \notin ended' => r \in Known /\ r \notin ended
                                                  /\ req'[r] = req[r],
             \A c \in Client : phase'[c] = "left" => phase[c] = "left",
             \A s \in SessionId : session'[s].fd = session[s].fd
      PROVE  /\ \A r \in Known' : r \notin ended' => session'[req'[r].session].fd = req'[r].fd
             /\ \A c \in Client : phase'[c] = "left" =>
                  \A s \in SessionId : session'[s].fd # c
  BY <1>1, <1>f DEF SessionsHeld
<1>q. ASSUME Quiet
      PROVE  \A r \in Known' : r \notin ended' => r \in Known /\ r \notin ended
                                                  /\ req'[r] = req[r]
  BY <1>q DEF Quiet, Known
<1>3. ASSUME NEW over, Finishes(over) PROVE SessionsHeld'
  <2>1. /\ UNCHANGED <<req, ended, mine, phase, waitsFor>>
        /\ \E accepted : Recount(accepted, over)
    BY <1>3 DEF Finishes
  <2>2. \A s \in SessionId : session'[s].fd = session[s].fd
    BY <2>1, RecountKeepsFd
  <2>3. Known' = Known
    BY <2>1 DEF Known
  <2> QED BY <1>1, <1>f, <2>1, <2>2, <2>3 DEF SessionsHeld
<1>4. ASSUME NEW c \in Client, NEW ss \in SUBSET SessionId, Closes(c, ss)
      PROVE  SessionsHeld'
  <2>1. /\ session' = [s \in SessionId |-> IF s \in ss THEN Closed ELSE session[s]]
        /\ ended' = ended \cup {r \in Known : req[r].session \in ss}
        /\ UNCHANGED <<req, waitsFor>> /\ Known' = Known
    BY <1>4, CloseTells DEF Known
  <2>2. /\ mine' = [mine EXCEPT ![c] = 0]
        /\ \/ phase' = phase
           \/ /\ phase[c] # "up" /\ phase' = [phase EXCEPT ![c] = "left"]
              /\ ss = {s \in SessionId : session[s].fd = c}
    BY <1>4 DEF Closes
  <2>3. Closed.fd = Nobody
    BY DEF Closed
  <2>4. ASSUME NEW r \in Known', r \notin ended'
        PROVE  session'[req'[r].session].fd = req'[r].fd
    BY <1>1, <2>1, <2>4 DEF SessionsHeld
  <2>5. ASSUME NEW d \in Client, phase'[d] = "left", NEW s \in SessionId
        PROVE  session'[s].fd # d
    <3>1. CASE s \in ss
      BY <1>2, <2>1, <2>3, <3>1
    <3>2. CASE s \notin ss
      <4>1. session'[s] = session[s]
        BY <2>1, <3>2
      <4>2. CASE phase[d] = "left"
        BY <1>1, <4>1, <4>2 DEF SessionsHeld
      <4>3. CASE phase[d] # "left"
        <5>1. d = c /\ ss = {x \in SessionId : session[x].fd = c}
          BY <1>1, <2>2, <2>5, <4>3 DEF Types
        <5> QED BY <3>2, <4>1, <5>1
      <4> QED BY <4>2, <4>3
    <3> QED BY <3>1, <3>2
  <2>6. ASSUME NEW d \in Client, phase'[d] \in {"destroyed", "left"} PROVE mine'[d] = 0
    BY <1>1, <2>2, <2>6 DEF SessionsHeld, Types
  <2>7. ASSUME NEW d \in Client, phase'[d] # "up" PROVE waitsFor'[d] = 0
    BY <1>1, <2>1, <2>2, <2>7 DEF SessionsHeld, Types
  <2> QED BY <2>4, <2>5, <2>6, <2>7 DEF SessionsHeld
<1>5. ASSUME NEW c \in Client, PostConfig(c) PROVE SessionsHeld'
  <2>1. /\ Known' = Known \cup {Len(req) + 1} /\ \A r \in Known : req'[r] = req[r]
        /\ req'[Len(req) + 1].session = mine[c] /\ req'[Len(req) + 1].fd = c
    BY <1>5, PostMoves DEF ServiceInv
  <2>2. UNCHANGED <<session, phase, mine, waitsFor, ended>>
    BY <1>5 DEF PostConfig, history, clients
  <2>3. session[mine[c]].fd = c
    BY <1>5 DEF PostConfig, InSession, Owns
  <2> HIDE DEF Known
  <2> QED BY <1>1, <2>1, <2>2, <2>3 DEF SessionsHeld
<1>6. ASSUME NEW c \in Client, OpenSession(c) PROVE SessionsHeld'
  <2>1. PICK s \in SessionId :
          /\ session[s].fd = Nobody /\ mine' = [mine EXCEPT ![c] = s]
          /\ session' = [session EXCEPT ![s] = [fd |-> c, priority |-> PriorityOf[c],
                                                openRequests |-> 0, bytesAllocated |-> 0]]
    BY <1>6 DEF OpenSession, Active
  <2>2. /\ phase[c] = "up" /\ UNCHANGED <<phase, waitsFor, req, ended>>
        /\ Known' = Known
    BY <1>6 DEF OpenSession, Calls, history, Known
  <2>3. ASSUME NEW r \in Known', r \notin ended'
        PROVE  session'[req'[r].session].fd = req'[r].fd
    BY <1>1, <1>2, <2>1, <2>2, <2>3 DEF SessionsHeld
  <2>4. ASSUME NEW d \in Client, phase'[d] = "left", NEW t \in SessionId
        PROVE  session'[t].fd # d
    <3>1. d # c /\ session[t].fd # d
      BY <1>1, <2>2, <2>4 DEF SessionsHeld
    <3>2. session'[t].fd = IF t = s THEN c ELSE session[t].fd
      BY <1>1, <2>1
    <3> QED BY <3>1, <3>2
  <2>5. ASSUME NEW d \in Client, phase'[d] \in {"destroyed", "left"} PROVE mine'[d] = 0
    BY <1>1, <2>1, <2>2, <2>5 DEF SessionsHeld, Types
  <2>6. \A d \in Client : phase'[d] # "up" => waitsFor'[d] = 0
    BY <1>1, <2>2 DEF SessionsHeld
  <2> QED BY <2>3, <2>4, <2>5, <2>6 DEF SessionsHeld
<1>7. ASSUME NEW c \in Client, AllocMem(c) \/ FreeMem(c) PROVE SessionsHeld'
  <2>1. PICK requests, bytes :
          session' = [session EXCEPT ![mine[c]] = Charged(session[mine[c]], requests, bytes)]
    BY <1>7 DEF AllocMem, FreeMem
  <2>2. \A s \in SessionId : session'[s].fd = session[s].fd
    BY <1>1, <2>1 DEF Charged
  <2>3. UNCHANGED <<phase, mine, waitsFor>> /\ Quiet
    BY <1>7, QuietSteps DEF AllocMem, FreeMem, clients
  <2> QED BY <1>1, <1>f, <1>q, <2>2, <2>3 DEF SessionsHeld
<1>8. ASSUME NEW c \in Client, Wait(c) \/ WaitEnds(c) \/ WaitTimesOut(c) PROVE SessionsHeld'
  <2>1. UNCHANGED <<session, phase, mine>> /\ Quiet
    BY <1>8, QuietSteps DEF Wait, WaitEnds, WaitTimesOut, Returns, service
  <2>2. phase[c] = "up"
    BY <1>1, <1>8 DEF Wait, WaitEnds, WaitTimesOut, Calls, SessionsHeld
  <2>3. \A d \in Client : d # c => waitsFor'[d] = waitsFor[d]
    BY <1>1, <1>8 DEF Wait, WaitEnds, WaitTimesOut, Types
  <2> QED BY <1>1, <1>f, <1>q, <2>1, <2>2, <2>3 DEF SessionsHeld
<1>9. ASSUME NEW c \in Client, DestroyClient(c) \/ Unregister(c) PROVE SessionsHeld'
  <2>1. /\ UNCHANGED <<session, mine>> /\ Quiet
        /\ \/ mine[c] = 0 /\ waitsFor[c] = 0 /\ waitsFor' = waitsFor
              /\ phase' = [phase EXCEPT ![c] = "destroyed"]
           \/ /\ waitsFor' = [waitsFor EXCEPT ![c] = 0]
              /\ phase' = [phase EXCEPT ![c] = "unregistered"]
    BY <1>9, QuietSteps DEF DestroyClient, Unregister, Dropped, Calls, service
  <2>2. ASSUME NEW d \in Client, phase'[d] # "up" PROVE waitsFor'[d] = 0
    BY <1>1, <2>1, <2>2 DEF SessionsHeld, Types
  <2>3. ASSUME NEW d \in Client, phase'[d] \in {"destroyed", "left"} PROVE mine'[d] = 0
    BY <1>1, <2>1, <2>3 DEF SessionsHeld, Types
  <2>4. \A d \in Client : phase'[d] = "left" => phase[d] = "left"
    BY <1>1, <2>1 DEF Types
  <2> QED BY <1>1, <1>f, <1>q, <2>1, <2>2, <2>3, <2>4 DEF SessionsHeld
<1>10. ASSUME UNCHANGED <<session, phase, mine, waitsFor>>, Quiet PROVE SessionsHeld'
  BY <1>1, <1>f, <1>q, <1>10 DEF SessionsHeld
<1>11. ASSUME NEW k \in Core, CoreFree(k) PROVE SessionsHeld'
  BY <1>10, <1>11, QuietSteps DEF CoreFree, service, clients
<1>12. CASE UNCHANGED vars
  BY <1>10, <1>12, QuietSteps DEF vars, service, clients
<1> QED BY <1>3, <1>4, <1>5, <1>6, <1>7, <1>8, <1>9, <1>11, <1>12, StepKinds

LEMMA DeliveredKept ==
  ASSUME ServiceInv, [Next]_vars
  PROVE  Delivered'
<1>1. /\ Known \subseteq Request /\ Open \subseteq Known /\ Types /\ Answered /\ Delivered
      /\ \A r \in Known : req[r].fd \in Client
  BY KnownType, OpenType DEF ServiceInv
\* Answers that are given in a step come to those that are there.
<1>t. ASSUME NEW heard, NEW status, heard \in SUBSET (Open \ silenced), Tell(heard, status),
             UNCHANGED <<req, taken>>,
             \A c \in Client : phase'[c] = "up" => phase[c] = "up"
      PROVE  Delivered'
  <2>1. /\ told' = [r \in Request |-> IF r \in heard THEN <<status>> ELSE told[r]]
        /\ \A c \in Client :
             inbox'[c] = inbox[c] \cup {r \in heard : req[r].fd = c /\ Registered(c)}
        /\ \A c \in Client : phase[c] = "up" => Registered(c)
    BY <1>t, Told DEF Registered
  <2>2. \A r \in heard : r \in Known /\ r \in Request /\ told[r] = <<>> /\ told'[r] # <<>>
    <3>1. <<status>> # <<>>
      OBVIOUS
    <3> QED BY <1>1, <1>t, <2>1, <3>1, HeardIsOpen
  <2>3. Known' = Known /\ \A r \in Request : told[r] # <<>> => told'[r] # <<>>
    BY <1>t, <2>1, <2>2 DEF Known
  <2>4. ASSUME NEW c \in Client, NEW r \in inbox'[c]
        PROVE  r \in Known' /\ req'[r].fd = c /\ r \notin taken' /\ told'[r] # <<>>
    <3>1. CASE r \in inbox[c]
      BY <1>1, <1>t, <2>3, <3>1 DEF Delivered
    <3>2. CASE r \notin inbox[c]
      <4>1. r \in heard /\ req[r].fd = c
        BY <2>1, <3>2
      <4> QED BY <1>1, <1>t, <2>2, <2>3, <4>1 DEF Delivered
    <3> QED BY <3>1, <3>2
  <2>5. \A r \in taken' : r \in Known' /\ told'[r] # <<>>
    BY <1>1, <1>t, <2>3 DEF Delivered
  <2>6. ASSUME NEW r \in Known', phase'[req'[r].fd] = "up", told'[r] # <<>>
        PROVE  r \in inbox'[req'[r].fd] \/ r \in taken'
    <3>1. r \in Known /\ req[r].fd \in Client /\ req'[r] = req[r] /\ phase[req[r].fd] = "up"
      BY <1>1, <1>t, <2>3, <2>6
    <3>2. r \in heard \/ told[r] # <<>>
      BY <1>1, <2>1, <2>6, <3>1
    <3> QED BY <1>1, <1>t, <2>1, <3>1, <3>2 DEF Delivered
  <2> QED BY <2>4, <2>5, <2>6 DEF Delivered
<1>2. ASSUME NEW over, Finishes(over) PROVE Delivered'
  <2> DEFINE heard == over \ silenced
  <2>1. heard \in SUBSET (Open \ silenced) /\ Tell(heard, "done")
    BY <1>2, FinishTells
  <2>2. UNCHANGED <<req, taken, phase>>
    BY <1>2 DEF Finishes
  <2> HIDE DEF heard
  <2> QED BY <1>t, <2>1, <2>2
<1>3. ASSUME NEW c \in Client, NEW ss \in SUBSET SessionId, Closes(c, ss)
      PROVE  Delivered'
  <2> DEFINE heard == Cancelled(ss)
  <2>1. heard \in SUBSET (Open \ silenced) /\ Tell(heard, "CANCELLED") /\ UNCHANGED <<req, taken>>
    BY <1>3, CloseTells
  <2>2. \A d \in Client : phase'[d] = "up" => phase[d] = "up"
    BY <1>1, <1>3 DEF Closes, Types
  <2> HIDE DEF heard
  <2> QED BY <1>t, <2>1, <2>2
<1>4. ASSUME NEW c \in Client, PostConfig(c) PROVE Delivered'
  <2>1. /\ Known' = Known \cup {Len(req) + 1} /\ Len(req) + 1 \notin Known
        /\ \A r \in Known : req'[r] = req[r]
    BY <1>4, PostMoves DEF ServiceInv
  <2>2. UNCHANGED <<inbox, taken, told, phase>> /\ Len(req) + 1 \in Request
    <3>1. Len(req) \in Nat /\ Len(req) < MaxRequests
      BY <1>1, <1>4, KnownType DEF PostConfig
    <3> QED BY <1>4, <3>1, CvAssumption DEF PostConfig, history, clients, Request
  <2>3. told[Len(req) + 1] = <<>>
    BY <1>1, <2>1, <2>2 DEF Answered
  <2> HIDE DEF Known
  <2> QED BY <1>1, <2>1, <2>2, <2>3 DEF Delivered
<1>5. ASSUME UNCHANGED <<taken, inbox, phase>>, Quiet PROVE Delivered'
  BY <1>1, <1>5 DEF Delivered, Quiet, Known
\* A wait takes the completion it returns.
<1>6. ASSUME NEW c \in Client, NEW r, Returns(c, r), Quiet PROVE Delivered'
  <2>1. /\ r \in inbox[c] /\ inbox' = [inbox EXCEPT ![c] = inbox[c] \ {r}]
        /\ taken' = taken \cup {r} /\ phase' = phase /\ UNCHANGED <<req, told>> /\ Known' = Known
    BY <1>6 DEF Returns, Quiet, Known
  <2>2. /\ inbox'[c] = inbox[c] \ {r} /\ \A d \in Client : d # c => inbox'[d] = inbox[d]
        /\ r \in Known /\ req[r].fd = c /\ told[r] # <<>>
    BY <1>1, <2>1 DEF Types, Delivered
  <2>3. ASSUME NEW d \in Client, NEW x \in inbox'[d]
        PROVE  x \in Known /\ req[x].fd = d /\ x \notin taken' /\ told[x] # <<>>
    <3>1. x \in inbox[d] /\ (d = c => x # r)
      BY <2>2, <2>3
    <3>2. x \in Known /\ req[x].fd = d /\ x \notin taken /\ told[x] # <<>>
      BY <1>1, <3>1 DEF Delivered
    <3> QED BY <2>1, <2>2, <3>1, <3>2
  <2>4. \A x \in taken' : x \in Known /\ told[x] # <<>>
    BY <1>1, <2>1, <2>2 DEF Delivered
  <2>5. ASSUME NEW x \in Known, phase[req[x].fd] = "up", told[x] # <<>>
        PROVE  x \in inbox'[req[x].fd] \/ x \in taken'
    <3>1. x \in inbox[req[x].fd] \/ x \in taken
      BY <1>1, <2>5 DEF Delivered
    <3> QED BY <1>1, <2>1, <2>2, <2>5, <3>1
  <2> QED BY <2>1, <2>3, <2>4, <2>5 DEF Delivered
<1>7. ASSUME NEW c \in Client, Wait(c) \/ WaitEnds(c) \/ WaitTimesOut(c) PROVE Delivered'
  <2>1. Quiet
    BY <1>7, QuietSteps
  <2>2. (\E r : Returns(c, r)) \/ UNCHANGED <<taken, inbox, phase>>
    BY <1>7 DEF Wait, WaitEnds, WaitTimesOut
  <2> QED BY <1>5, <1>6, <2>1, <2>2
<1>8. ASSUME NEW c \in Client, DestroyClient(c) \/ Unregister(c) PROVE Delivered'
  <2>1. /\ Quiet /\ inbox' = [inbox EXCEPT ![c] = {}] /\ taken' = taken
        /\ phase' \in {[phase EXCEPT ![c] = "destroyed"], [phase EXCEPT ![c] = "unregistered"]}
    BY <1>8, QuietSteps DEF DestroyClient, Unregister, Dropped
  <2>2. /\ inbox'[c] = {} /\ phase'[c] # "up"
        /\ \A d \in Client : d # c => inbox'[d] = inbox[d] /\ phase'[d] = phase[d]
    BY <1>1, <2>1 DEF Types
  <2>3. UNCHANGED <<req, told>> /\ Known' = Known
    BY <2>1 DEF Quiet, Known
  <2> QED BY <1>1, <2>1, <2>2, <2>3 DEF Delivered
<1>9. ASSUME NEW c \in Client, OpenSession(c) \/ AllocMem(c) \/ FreeMem(c) PROVE Delivered'
  BY <1>5, <1>9, QuietSteps DEF OpenSession, AllocMem, FreeMem, clients
<1>10. ASSUME NEW k \in Core, CoreFree(k) PROVE Delivered'
  BY <1>5, <1>10, QuietSteps DEF CoreFree, clients
<1>11. CASE UNCHANGED vars
  BY <1>5, <1>11, QuietSteps DEF vars, clients
<1> QED BY <1>2, <1>3, <1>4, <1>7, <1>8, <1>9, <1>10, <1>11, StepKinds

LEMMA MemoryHeldKept ==
  ASSUME ServiceInv, [Next]_vars
  PROVE  MemoryHeld'
<1>1. /\ Known \subseteq Request /\ Open \subseteq Known /\ Types /\ PoolInv /\ MemoryHeld
      /\ \A r \in Known : req[r].session \in SessionId
  BY KnownType, OpenType DEF ServiceInv
<1>2. ASSUME Open' \subseteq Open, blocks \subseteq blocks', hasty \subseteq hasty',
             UNCHANGED req
      PROVE  MemoryHeld'
  BY <1>1, <1>2 DEF MemoryHeld, BlockHeld
<1>3. ASSUME NEW over, Finishes(over) PROVE MemoryHeld'
  BY <1>2, <1>3 DEF Finishes
<1>4. ASSUME NEW c \in Client, NEW ss \in SUBSET SessionId, Closes(c, ss)
      PROVE  MemoryHeld'
  <2>1. /\ blocks' = {b \in blocks : b.owner \notin ss} /\ req' = req
        /\ hasty' = hasty \cup {r \in Open : req[r].session \in ss}
        /\ Open' \subseteq Open
    BY <1>4, CloseTells
  <2>2. ASSUME NEW r \in Open', r \notin hasty' PROVE BlockHeld(r)'
    <3>1. BlockHeld(r) /\ req[r].session \notin ss
      BY <1>1, <2>1, <2>2 DEF MemoryHeld
    <3> QED BY <2>1, <3>1 DEF BlockHeld
  <2> QED BY <2>2 DEF MemoryHeld
<1>5. ASSUME NEW c \in Client, PostConfig(c) PROVE MemoryHeld'
  <2> PICK n : n = Len(req) + 1
    OBVIOUS
  <2>1. /\ Open' = Open \cup {n} /\ \A r \in Known : req'[r] = req[r]
        /\ req'[n].session = mine[c]
        /\ \E b \in blocks : /\ b.owner = mine[c] /\ b.handle = req'[n].mem
                             /\ req'[n].bytes <= b.bytes
    BY <1>5, PostMoves DEF ServiceInv
  <2>2. UNCHANGED <<blocks, hasty>>
    BY <1>5 DEF PostConfig, history
  <2>3. BlockHeld(n)'
    BY <2>1, <2>2 DEF BlockHeld
  <2>4. \A r \in Open : r \in hasty' \/ BlockHeld(r)'
    BY <1>1, <2>1, <2>2 DEF MemoryHeld, BlockHeld
  <2> QED BY <2>1, <2>3, <2>4 DEF MemoryHeld
<1>6. ASSUME NEW c \in Client, OpenSession(c) \/ AllocMem(c) PROVE MemoryHeld'
  <2>1. Quiet /\ blocks \subseteq blocks' /\ hasty' = hasty
    BY <1>6, QuietSteps DEF OpenSession, AllocMem, Allocated, history
  <2> QED BY <1>2, <2>1, QuietSteps DEF Quiet
\* The block that is freed is the one the request works on, or the request keeps its own.
<1>7. ASSUME NEW c \in Client, FreeMem(c) PROVE MemoryHeld'
  <2>1. PICK b \in blocks :
          /\ MayFree(mine[c], b.handle) /\ blocks' = Released(blocks, b.handle)
          /\ hasty' = hasty \cup {r \in OpenRequests({mine[c]}) : req[r].mem = b.handle}
    BY <1>7 DEF FreeMem
  <2>2. Quiet /\ Open' = Open /\ req' = req
    BY <1>7, QuietSteps DEF Quiet
  <2>3. PICK x \in blocks : x.handle = b.handle /\ x.owner = mine[c]
    BY <2>1 DEF MayFree, Releases
  <2>4. ASSUME NEW r \in Open', r \notin hasty' PROVE BlockHeld(r)'
    <3>1. PICK y \in blocks : /\ y.handle = req[r].mem /\ y.owner = req[r].session
                              /\ req[r].bytes <= y.bytes
      BY <1>1, <2>1, <2>2, <2>4 DEF MemoryHeld, BlockHeld
    <3>2. y.handle # b.handle
      <4>1. SUFFICES ASSUME y.handle = b.handle PROVE FALSE
        OBVIOUS
      <4>2. y = x
        BY <1>1, <2>3, <4>1 DEF PoolInv, PoolSound, WellFormed
      <4>3. r \in OpenRequests({mine[c]})
        BY <2>2, <2>3, <2>4, <3>1, <4>2 DEF OpenRequests, Open
      <4> QED BY <2>1, <2>4, <3>1, <4>1, <4>3
    <3>3. y \in blocks'
      BY <2>1, <3>2 DEF Released
    <3> QED BY <2>2, <3>1, <3>3 DEF BlockHeld
  <2> QED BY <2>4 DEF MemoryHeld
<1>8. ASSUME Quiet, UNCHANGED <<blocks, hasty>> PROVE MemoryHeld'
  BY <1>2, <1>8, QuietSteps DEF Quiet
<1>9. ASSUME NEW c \in Client, Wait(c) \/ WaitEnds(c) \/ WaitTimesOut(c) PROVE MemoryHeld'
  BY <1>8, <1>9, QuietSteps DEF Wait, WaitEnds, WaitTimesOut, service, history
<1>10. ASSUME NEW c \in Client, DestroyClient(c) \/ Unregister(c) PROVE MemoryHeld'
  BY <1>8, <1>10, QuietSteps DEF DestroyClient, Unregister, service, history
<1>11. ASSUME NEW k \in Core, CoreFree(k) PROVE MemoryHeld'
  BY <1>8, <1>11, QuietSteps DEF CoreFree, service, history
<1>12. CASE UNCHANGED vars
  BY <1>8, <1>12, QuietSteps DEF vars, service, history
<1> QED BY <1>3, <1>4, <1>5, <1>6, <1>7, <1>9, <1>10, <1>11, <1>12, StepKinds

-----------------------------------------------------------------------------
(* Types of the rest of the state.                                          *)

LEMMA CountsAreNumbers ==
  ASSUME Types, NEW rs \in SUBSET Known
  PROVE  /\ IsFiniteSet(rs) /\ Cardinality(rs) \in Nat
         /\ \A s : OfSession(rs, s) \in Nat
         /\ Cardinality({r \in rs : ~BytesOk(r)}) \in Nat
<1>1. ASSUME NEW T \in SUBSET Known PROVE IsFiniteSet(T) /\ Cardinality(T) \in Nat
  BY KnownType, FS_Subset, FS_CardinalityType
<1>2. \A s : {r \in rs : req[r].session = s} \in SUBSET Known
  OBVIOUS
<1>3. {r \in rs : ~BytesOk(r)} \in SUBSET Known
  OBVIOUS
<1> QED BY <1>1, <1>2, <1>3 DEF OfSession

LEMMA ChargedType ==
  ASSUME NEW x \in SessionRecords, NEW requests \in Nat, NEW bytes \in Nat
  PROVE  Charged(x, requests, bytes) \in SessionRecords
BY DEF SessionRecords, Charged

LEMMA SessionTypesKept ==
  ASSUME ServiceInv, [Next]_vars
  PROVE  session' \in [SessionId -> SessionRecords]
<1>1. Types /\ PoolInv /\ \A s \in SessionId : /\ session[s] \in SessionRecords
                                    /\ session[s].openRequests \in Nat
                                    /\ session[s].bytesAllocated \in Nat
  BY DEF ServiceInv, Types, SessionRecords
<1>2. ASSUME NEW accepted \in SUBSET Known, NEW rs \in SUBSET Known, Recount(accepted, rs)
      PROVE  session' \in [SessionId -> SessionRecords]
  <2> DEFINE n(s) == Less(session[s].openRequests + OfSession(accepted, s), rs, s)
  <2>1. ASSUME NEW s \in SessionId PROVE n(s) \in Nat
    <3>1. OfSession(accepted, s) \in Nat /\ OfSession(rs, s) \in Nat
      BY CountsAreNumbers, <1>1
    <3>2. session[s].openRequests \in Nat
      BY <1>1
    <3> QED BY <3>1, <3>2 DEF Less
  <2>2. session' = [s \in SessionId |->
                      IF Active(s) THEN Charged(session[s], n(s), session[s].bytesAllocated)
                      ELSE session[s]]
    BY <1>2 DEF Recount
  <2> HIDE DEF n
  <2>3. \A s \in SessionId :
          Charged(session[s], n(s), session[s].bytesAllocated) \in SessionRecords
    BY <1>1, <2>1, ChargedType
  <2> QED BY <1>1, <2>2, <2>3
<1>3. ASSUME NEW over, Finishes(over) PROVE session' \in [SessionId -> SessionRecords]
  <2>1. over \in SUBSET Known
    BY <1>3, OpenType DEF Finishes, ServiceInv
  <2>2. posted \subseteq Known
    BY DEF ServiceInv, Placed
  <2>3. \E accepted \in SUBSET Known : Recount(accepted, over)
    BY <1>3, <2>2 DEF Finishes
  <2> QED BY <1>2, <2>1, <2>3
<1>4. ASSUME NEW c \in Client, NEW ss \in SUBSET SessionId, Closes(c, ss)
      PROVE  session' \in [SessionId -> SessionRecords]
  <2>1. Closed \in SessionRecords
    BY DEF Closed, SessionRecords
  <2> QED BY <1>1, <1>4, <2>1, CloseTells
<1>5. ASSUME NEW c \in Client, OpenSession(c) PROVE session' \in [SessionId -> SessionRecords]
  <2>1. PICK s \in SessionId :
          session' = [session EXCEPT ![s] = [fd |-> c, priority |-> PriorityOf[c],
                                             openRequests |-> 0, bytesAllocated |-> 0]]
    BY <1>5 DEF OpenSession
  <2>2. [fd |-> c, priority |-> PriorityOf[c], openRequests |-> 0, bytesAllocated |-> 0]
          \in SessionRecords
    BY CvAssumption DEF SessionRecords
  <2> QED BY <1>1, <2>1, <2>2 DEF Types
<1>6. ASSUME NEW c \in Client, AllocMem(c) PROVE session' \in [SessionId -> SessionRecords]
  <2>1. PICK n \in AllocSizes :
          session' = [session EXCEPT ![mine[c]] =
                        Charged(session[mine[c]], session[mine[c]].openRequests,
                                session[mine[c]].bytesAllocated + n)]
    BY <1>6 DEF AllocMem
  <2>2. mine[c] \in SessionId /\ n \in Nat
    BY <1>6, CvAssumption DEF AllocMem, InSession, Owns
  <2>3. Charged(session[mine[c]], session[mine[c]].openRequests,
                session[mine[c]].bytesAllocated + n) \in SessionRecords
    BY <1>1, <2>2, ChargedType
  <2> QED BY <1>1, <2>1, <2>3 DEF Types
<1>7. ASSUME NEW c \in Client, FreeMem(c) PROVE session' \in [SessionId -> SessionRecords]
  <2> DEFINE m == mine[c]
             left(b) == IF b.bytes <= session[m].bytesAllocated
                        THEN session[m].bytesAllocated - b.bytes ELSE 0
  <2>1. PICK b \in blocks :
          session' = [session EXCEPT ![m] =
                        Charged(session[m], session[m].openRequests, left(b))]
    BY <1>7 DEF FreeMem
  <2>2. m \in SessionId /\ b.bytes \in Nat
    BY <1>1, <1>7, BlockType DEF FreeMem, InSession, Owns, PoolInv
  <2>3. left(b) \in Nat
    BY <1>1, <2>2
  <2> HIDE DEF left, m
  <2>4. Charged(session[m], session[m].openRequests, left(b)) \in SessionRecords
    BY <1>1, <2>2, <2>3, ChargedType
  <2> QED BY <1>1, <2>1, <2>4 DEF Types
<1>8. ASSUME session' = session PROVE session' \in [SessionId -> SessionRecords]
  BY <1>1, <1>8 DEF Types
<1>9. ASSUME NEW c \in Client, PostConfig(c) \/ Wait(c) \/ WaitEnds(c) \/ WaitTimesOut(c)
                                 \/ DestroyClient(c) \/ Unregister(c)
      PROVE  session' \in [SessionId -> SessionRecords]
  BY <1>8, <1>9 DEF PostConfig, Wait, WaitEnds, WaitTimesOut, DestroyClient, Unregister, service
<1>10. ASSUME NEW k \in Core, CoreFree(k) PROVE session' \in [SessionId -> SessionRecords]
  BY <1>8, <1>10 DEF CoreFree, service
<1>11. CASE UNCHANGED vars
  BY <1>8, <1>11 DEF vars, service
<1> QED BY <1>3, <1>4, <1>5, <1>6, <1>7, <1>9, <1>10, <1>11, StepKinds

LEMMA ClientTypesKept ==
  ASSUME ServiceInv, [Next]_vars
  PROVE  /\ phase' \in [Client -> {"up", "destroyed", "unregistered", "left"}]
         /\ mine' \in [Client -> SessionId \cup {0}]
         /\ inbox' \in [Client -> SUBSET Request]
         /\ waitsFor' \in [Client -> Request \cup {0}]
         /\ taken' \subseteq Request
<1> DEFINE T == /\ phase' \in [Client -> {"up", "destroyed", "unregistered", "left"}]
                /\ mine' \in [Client -> SessionId \cup {0}]
                /\ inbox' \in [Client -> SUBSET Request]
                /\ waitsFor' \in [Client -> Request \cup {0}]
                /\ taken' \subseteq Request
<1>1. /\ Types /\ Known \subseteq Request /\ Open \subseteq Known
      /\ DOMAIN phase = Client /\ DOMAIN mine = Client
  BY KnownType, OpenType DEF ServiceInv, Types
\* The clients that are told something.
<1>t. ASSUME NEW heard, NEW status, heard \in SUBSET (Open \ silenced), Tell(heard, status)
      PROVE  inbox' \in [Client -> SUBSET Request]
  <2>1. inbox' = [c \in Client |-> inbox[c] \cup {r \in heard : req[r].fd = c /\ Keeps(c, r)}]
    BY <1>t DEF Tell
  <2> QED BY <1>1, <1>t, <2>1 DEF Types
<1>2. ASSUME NEW over, Finishes(over) PROVE T
  <2> DEFINE heard == over \ silenced
  <2>1. heard \in SUBSET (Open \ silenced) /\ Tell(heard, "done")
    BY <1>2, FinishTells
  <2> HIDE DEF heard
  <2>2. inbox' \in [Client -> SUBSET Request]
    BY <1>t, <2>1
  <2> QED BY <1>1, <1>2, <2>2 DEF Finishes, Types
<1>3. ASSUME NEW c \in Client, NEW ss \in SUBSET SessionId, Closes(c, ss)
      PROVE  T
  <2>1. inbox' \in [Client -> SUBSET Request]
    BY <1>3, <1>t, CloseTells
  <2>2. taken' = taken /\ waitsFor' = waitsFor
    BY <1>3, CloseTells
  <2>3. /\ mine' = [mine EXCEPT ![c] = 0]
        /\ phase' = phase \/ phase' = [phase EXCEPT ![c] = "left"]
    BY <1>3 DEF Closes
  <2> QED BY <1>1, <2>1, <2>2, <2>3 DEF Types
<1>4. ASSUME NEW c \in Client, OpenSession(c) PROVE T
  BY <1>1, <1>4 DEF OpenSession, Types
<1>5. ASSUME NEW c \in Client, Wait(c) \/ WaitEnds(c) \/ WaitTimesOut(c) PROVE T
  <2>1. \A r : Returns(c, r) => /\ r \in Request /\ inbox' \in [Client -> SUBSET Request]
                                /\ taken' \subseteq Request /\ UNCHANGED <<phase, mine>>
    BY <1>1 DEF Returns, Types
  <2>2. Submitted \subseteq Request
    <3>1. \A i \in 1..Len(arrived) : arrived[i] \in Request
      BY <1>1, ElementOfSeq DEF Types
    <3> QED BY <3>1 DEF Submitted, Elements
  <2>3. CASE Wait(c)
    <3>1. PICK r \in Submitted :
            \/ Returns(c, r) /\ waitsFor' = waitsFor
            \/ waitsFor' = [waitsFor EXCEPT ![c] = r] /\ UNCHANGED <<phase, mine, inbox, taken>>
      BY <2>3 DEF Wait
    <3>2. r \in Request
      BY <2>2
    <3>3. CASE Returns(c, r) /\ waitsFor' = waitsFor
      BY <1>1, <2>1, <3>3 DEF Types
    <3>4. CASE waitsFor' = [waitsFor EXCEPT ![c] = r] /\ UNCHANGED <<phase, mine, inbox, taken>>
      BY <1>1, <3>2, <3>4 DEF Types
    <3> QED BY <3>1, <3>3, <3>4
  <2>4. CASE WaitEnds(c)
    BY <1>1, <2>1, <2>4 DEF WaitEnds, Types
  <2>5. CASE WaitTimesOut(c)
    BY <1>1, <2>5 DEF WaitTimesOut, Types
  <2> QED BY <1>5, <2>3, <2>4, <2>5
<1>6. ASSUME NEW c \in Client, DestroyClient(c) \/ Unregister(c) PROVE T
  BY <1>1, <1>6 DEF DestroyClient, Unregister, Dropped, Types
<1>7. ASSUME UNCHANGED clients PROVE T
  BY <1>1, <1>7 DEF clients, Types
<1>8. ASSUME NEW c \in Client, PostConfig(c) \/ AllocMem(c) \/ FreeMem(c) PROVE T
  BY <1>7, <1>8 DEF PostConfig, AllocMem, FreeMem
<1>9. ASSUME NEW k \in Core, CoreFree(k) PROVE T
  BY <1>7, <1>9 DEF CoreFree
<1>10. CASE UNCHANGED vars
  BY <1>7, <1>10 DEF vars
<1> QED BY <1>2, <1>3, <1>4, <1>5, <1>6, <1>8, <1>9, <1>10, StepKinds

LEMMA RequestTypesKept ==
  ASSUME ServiceInv, [Next]_vars
  PROVE  /\ req' \in Seq(RequestRecords) /\ Len(req') <= MaxRequests
         /\ silenced' \subseteq running'
         /\ counted' \in [SessionId -> Nat] /\ errors' \in Nat
         /\ told' \in [Request -> Seq({"done", "CANCELLED"})]
<1> DEFINE T == /\ req' \in Seq(RequestRecords) /\ Len(req') <= MaxRequests
                /\ silenced' \subseteq running'
                /\ counted' \in [SessionId -> Nat] /\ errors' \in Nat
                /\ told' \in [Request -> Seq({"done", "CANCELLED"})]
<1>1. Types /\ Open \subseteq Known
  BY OpenType DEF ServiceInv
<1>t. ASSUME NEW heard, NEW status \in {"done", "CANCELLED"},
             heard \in SUBSET (Open \ silenced), Tell(heard, status)
      PROVE  told' \in [Request -> Seq({"done", "CANCELLED"})]
  <2>1. told' = [r \in Request |-> IF r \in heard THEN <<status>> ELSE told[r]]
    BY <1>t, Told
  <2>2. <<status>> \in Seq({"done", "CANCELLED"})
    OBVIOUS
  <2> QED BY <1>1, <2>1, <2>2 DEF Types
<1>2. ASSUME NEW over, Finishes(over) PROVE T
  <2> DEFINE heard == over \ silenced
  <2>1. heard \in SUBSET (Open \ silenced) /\ Tell(heard, "done")
    BY <1>2, FinishTells
  <2> HIDE DEF heard
  <2>2. told' \in [Request -> Seq({"done", "CANCELLED"})]
    BY <1>t, <2>1
  <2>3. over \in SUBSET Known /\ silenced' \subseteq running' /\ req' = req /\ Record(over)
    BY <1>1, <1>2 DEF Finishes
  <2>4. /\ counted' = [s \in SessionId |-> counted[s] + OfSession(over, s)]
        /\ errors' = errors + Cardinality({r \in over : ~BytesOk(r)})
    BY <2>3 DEF Record
  <2>5. /\ \A s \in SessionId : OfSession(over, s) \in Nat /\ counted[s] \in Nat
        /\ Cardinality({r \in over : ~BytesOk(r)}) \in Nat /\ errors \in Nat
    BY <1>1, <2>3, CountsAreNumbers DEF Types
  <2>6. counted' \in [SessionId -> Nat] /\ errors' \in Nat
    BY <2>4, <2>5
  <2> QED BY <1>1, <2>2, <2>3, <2>6 DEF Types
<1>3. ASSUME NEW c \in Client, NEW ss \in SUBSET SessionId, Closes(c, ss)
      PROVE  T
  <2>1. told' \in [Request -> Seq({"done", "CANCELLED"})]
    BY <1>3, <1>t, CloseTells
  <2>2. /\ silenced' = silenced \cup {r \in running : req[r].session \in ss}
        /\ UNCHANGED <<req, running, counted, errors>>
    BY <1>3, CloseTells
  <2>3. silenced' \subseteq running'
    BY <1>1, <2>2 DEF Types
  <2> QED BY <1>1, <2>1, <2>2, <2>3 DEF Types
<1>4. ASSUME NEW c \in Client, PostConfig(c) PROVE T
  <2>1. req' \in Seq(RequestRecords) /\ Len(req') = Len(req) + 1
    BY <1>4, PostMoves DEF ServiceInv
  <2>2. Len(req) < MaxRequests /\ UNCHANGED <<silenced, running, counted, errors, told>>
    BY <1>4 DEF PostConfig, stats, history
  <2>3. Len(req) \in Nat
    BY <1>1, KnownType
  <2> QED BY <1>1, <2>1, <2>2, <2>3, CvAssumption DEF Types
<1>5. ASSUME Quiet, UNCHANGED stats PROVE T
  BY <1>1, <1>5 DEF Quiet, stats, Types
<1>6. ASSUME NEW c \in Client, OpenSession(c) \/ AllocMem(c) \/ FreeMem(c) PROVE T
  BY <1>5, <1>6, QuietSteps DEF OpenSession, AllocMem, FreeMem
<1>7. ASSUME NEW c \in Client, Wait(c) \/ WaitEnds(c) \/ WaitTimesOut(c) PROVE T
  BY <1>5, <1>7, QuietSteps DEF Wait, WaitEnds, WaitTimesOut
<1>8. ASSUME NEW c \in Client, DestroyClient(c) \/ Unregister(c) PROVE T
  BY <1>5, <1>8, QuietSteps DEF DestroyClient, Unregister
<1>9. ASSUME NEW k \in Core, CoreFree(k) PROVE T
  BY <1>5, <1>9, QuietSteps DEF CoreFree
<1>10. CASE UNCHANGED vars
  BY <1>5, <1>10, QuietSteps DEF vars, stats
<1> QED BY <1>2, <1>3, <1>4, <1>6, <1>7, <1>8, <1>9, <1>10, StepKinds

LEMMA HistoryTypesKept ==
  ASSUME ServiceInv, [Next]_vars
  PROVE  /\ arrived' \in Seq(Request) /\ pushedBack' \in [Request -> Nat]
         /\ hasty' \subseteq Request /\ opens' \in 0..MaxOpens
<1> DEFINE T == /\ arrived' \in Seq(Request) /\ pushedBack' \in [Request -> Nat]
                /\ hasty' \subseteq Request /\ opens' \in 0..MaxOpens
<1>1. /\ Types /\ Known \subseteq Request /\ Open \subseteq Known /\ posted \subseteq Known
      /\ Len(arrived) \in Nat
  BY KnownType, OpenType, LenProperties DEF ServiceInv, Types, Placed
<1>p. ASSUME NEW q, NEW run, NEW cores, NEW accepted, NEW done, Cardinality(accepted) \in Nat,
             Pump(q, run, cores, accepted, done)
      PROVE  pushedBack' \in [Request -> Nat]
  <2> DEFINE failed(f) == UNION {{q[k][i] : i \in 1..f[k].failed} : k \in Core}
  <2>1. PICK fate \in [Core -> UNION {Fates(k, q[k]) : k \in Core}] :
          /\ \A k \in Core : fate[k] \in Fates(k, q[k])
          /\ queue' = [k \in Core |-> QueueAfter(q[k], fate[k])]
          /\ running' = run \cup Started(q, fate)
          /\ silenced' = silenced \cap run
          /\ worker' = [k \in Core |-> IF fate[k].then = "start"
                                        THEN Given(NextOf(q[k], fate[k])) ELSE cores[k]]
          /\ pushedBack' =
               [r \in Request |->
                  IF \E k \in Core : fate[k].then = "BUSY" /\ r = NextOf(q[k], fate[k])
                  THEN Len(arrived) + Cardinality(accepted) ELSE pushedBack[r]]
          /\ Tell((done \cup failed(fate)) \ silenced, "done")
          /\ Record(done \cup failed(fate))
          /\ Recount(accepted, done \cup failed(fate))
    BY <1>p, Zenon DEF Pump
  <2>2. Len(arrived) + Cardinality(accepted) \in Nat
    BY <1>1, <1>p
  <2> QED BY <1>1, <2>1, <2>2 DEF Types
<1>0. Cardinality({}) \in Nat /\ \A r : Cardinality({r}) \in Nat
  BY FS_EmptySet, FS_Singleton
<1>1a. ASSUME NEW c \in Client, Submit(c) PROVE T
  <2>1. PICK r \in posted : /\ arrived' = Append(arrived, r)
                            /\ \E q : Pump(q, running, worker, {r}, {})
    BY <1>1a DEF Submit
  <2>2. arrived' \in Seq(Request)
    BY <1>1, <2>1 DEF Types
  <2>3. pushedBack' \in [Request -> Nat]
    BY <1>0, <1>p, <2>1
  <2> QED BY <1>1, <1>1a, <2>2, <2>3 DEF Submit, Unhurried, Types
<1>2. ASSUME NEW k \in Core, JobDone(k) PROVE T
  <2>1. /\ \E run, cores, done : Pump(queue, run, cores, {}, done)
        /\ UNCHANGED <<arrived, hasty, opens>>
    BY <1>2 DEF JobDone, Unhurried
  <2> QED BY <1>0, <1>1, <1>p, <2>1 DEF Types
<1>3. ASSUME Maintain PROVE T
  <2>1. Pump(queue, running, worker, {}, {}) /\ UNCHANGED <<arrived, hasty, opens>>
    BY <1>3 DEF Maintain, Unhurried
  <2> QED BY <1>0, <1>1, <1>p, <2>1 DEF Types
<1>4. ASSUME NEW c \in Client, OpenSession(c) PROVE T
  BY <1>1, <1>4, CvAssumption DEF OpenSession, history, Types
\* What is freed under a request is freed under one that is open.
<1>5. \A ss : OpenRequests(ss) \subseteq Request
  BY <1>1 DEF OpenRequests, Open
<1>6. ASSUME NEW c \in Client, CloseSession(c) \/ ClientDisconnected(c) PROVE T
  <2>1. \E ss : CloseSessions(ss)
    BY <1>6 DEF CloseSession, ClientDisconnected
  <2> QED BY <1>1, <1>5, <2>1 DEF CloseSessions, Types
<1>7. ASSUME NEW c \in Client, FreeMem(c) PROVE T
  BY <1>1, <1>5, <1>7 DEF FreeMem, Types
<1>8. ASSUME UNCHANGED <<arrived, pushedBack, hasty, opens>> PROVE T
  BY <1>1, <1>8 DEF Types
<1>9. ASSUME NEW c \in Client, AllocMem(c) \/ PostConfig(c) \/ Wait(c) \/ WaitEnds(c)
                                 \/ WaitTimesOut(c) \/ DestroyClient(c) \/ Unregister(c)
      PROVE  T
  BY <1>8, <1>9 DEF AllocMem, PostConfig, Wait, WaitEnds, WaitTimesOut, DestroyClient,
                    Unregister, history
<1>10. ASSUME NEW k \in Core, CoreFree(k) PROVE T
  BY <1>8, <1>10 DEF CoreFree, history
<1>11. CASE UNCHANGED vars
  BY <1>8, <1>11 DEF vars, history
<1>12. ASSUME NEW c \in Client, ClientStep(c) PROVE T
  BY <1>1a, <1>4, <1>6, <1>7, <1>9, <1>12 DEF ClientStep
<1>13. ASSUME NEW k \in Core, WorkerStep(k) PROVE T
  BY <1>2, <1>10, <1>13 DEF WorkerStep
<1>14. CASE Next
  BY <1>3, <1>12, <1>13, <1>14 DEF Next, NextUnattended
<1> QED BY <1>11, <1>14

-----------------------------------------------------------------------------
(* The invariant, and what it says of the service.                          *)

LEMMA InitServiceInv == Init => ServiceInv
<1> SUFFICES ASSUME Init PROVE ServiceInv
  OBVIOUS
<1>1. PoolInv
  BY InitPoolInv
<1>2. /\ req = <<>> /\ posted = {} /\ running = {} /\ silenced = {} /\ ended = {}
      /\ queue = [k \in Core |-> <<>>] /\ worker = [k \in Core |-> Idle]
      /\ told = [r \in Request |-> <<>>] /\ taken = {}
      /\ session = [s \in SessionId |-> Closed] /\ Closed.fd = Nobody
      /\ Idle.at = "idle"
  BY DEF Init, Closed, Idle
<1>3. Known = {} /\ Open = {}
  <2>1. Len(req) = 0 /\ \A k \in Core : Elements(queue[k]) = {}
    BY <1>2 DEF Elements
  <2> QED BY <1>2, <2>1 DEF Known, Open, Queued
<1>4. Types
  <2>1. Closed \in SessionRecords
    BY DEF Closed, SessionRecords
  <2>2. /\ req \in Seq(RequestRecords) /\ Len(req) <= MaxRequests /\ arrived \in Seq(Request)
        /\ told \in [Request -> Seq({"done", "CANCELLED"})] /\ opens \in 0..MaxOpens
    BY CvAssumption DEF Init
  <2>3. /\ session \in [SessionId -> SessionRecords] /\ silenced \subseteq running
        /\ phase \in [Client -> {"up", "destroyed", "unregistered", "left"}]
        /\ mine \in [Client -> SessionId \cup {0}]
        /\ inbox \in [Client -> SUBSET Request] /\ waitsFor \in [Client -> Request \cup {0}]
        /\ counted \in [SessionId -> Nat] /\ errors \in Nat
        /\ taken \subseteq Request /\ pushedBack \in [Request -> Nat] /\ hasty \subseteq Request
    BY <2>1 DEF Init
  <2> QED BY <2>2, <2>3 DEF Types
<1>5. Placed(posted, queue, running, worker)
  <2>1. Idle \in Workers
    BY DEF Idle, Workers
  <2>2. \A k \in Core : /\ queue[k] \in Seq(Known) /\ NoDup(queue[k])
                        /\ Elements(queue[k]) = {} /\ worker[k] = Idle
    BY <1>2 DEF NoDup, Elements
  <2>3. queue \in [Core -> Seq(Known)] /\ worker \in [Core -> Workers]
    BY <1>2, <2>1, <2>2
  <2> QED BY <1>2, <2>2, <2>3 DEF Placed, Works
<1>6. Answered /\ SessionsHeld /\ Delivered /\ MemoryHeld
  <2>1. Answered
    <3>1. Len(<<>>) <= 1
      OBVIOUS
    <3> QED BY <1>2, <1>3, <3>1 DEF Answered
  <2>2. SessionsHeld
    BY <1>2, <1>3 DEF SessionsHeld, Active, Init
  <2>3. Delivered
    BY <1>2, <1>3 DEF Delivered, Init
  <2>4. MemoryHeld
    BY <1>3 DEF MemoryHeld
  <2> QED BY <2>1, <2>2, <2>3, <2>4
<1> QED BY <1>1, <1>4, <1>5, <1>6 DEF ServiceInv

LEMMA NextKeepsServiceInv == ServiceInv /\ [Next]_vars => ServiceInv'
<1> SUFFICES ASSUME ServiceInv, [Next]_vars PROVE ServiceInv'
  OBVIOUS
<1>1. PoolInv'
  BY NextKeepsPoolInv DEF ServiceInv
<1>2. Types'
  BY SessionTypesKept, ClientTypesKept, RequestTypesKept, HistoryTypesKept DEF Types
<1>3. Placed(posted, queue, running, worker)'
  BY StepKinds
<1> QED BY <1>1, <1>2, <1>3, AnsweredKept, SessionsHeldKept, DeliveredKept, MemoryHeldKept
         DEF ServiceInv

LEMMA AlwaysServiceInv == Spec => []ServiceInv
BY InitServiceInv, NextKeepsServiceInv, PTL DEF Spec

\* The service's tables, the workers, the clients and the history have their types.
THEOREM TypesAlwaysOK == Spec => []TypeOK
<1>1. ServiceInv => TypeOK
  <2> SUFFICES ASSUME ServiceInv PROVE TypeOK
    OBVIOUS
  <2>1. Types /\ Placed(posted, queue, running, worker) /\ PoolInv /\ ended \subseteq Known
        /\ Known \subseteq Request /\ nextHandle \in Nat
    BY KnownType DEF ServiceInv, Answered, PoolInv
  <2>2. ASSUME NEW k \in Core PROVE queue[k] \in Seq(Request)
    <3>1. queue[k] \in Seq(Known)
      BY <2>1 DEF Placed
    <3> QED BY <2>1, <3>1, SeqMonotonic
  <2>3. queue \in [Core -> Seq(Request)]
    BY <2>1, <2>2 DEF Placed
  <2>4. /\ posted \subseteq 1..Len(req) /\ running \subseteq 1..Len(req)
        /\ worker \in [Core -> [at : {"idle", "working", "reported"}, job : Nat]]
    BY <2>1 DEF Placed, Known, Workers
  <2>5. ended \subseteq Request /\ blocks \subseteq Blocks(SessionId)
    BY <2>1 DEF PoolInv
  <2> QED BY <2>1, <2>3, <2>4, <2>5 DEF TypeOK, Types, SessionRecords, RequestRecords
<1> QED BY <1>1, AlwaysServiceInv, PTL

\* No job at the hardware works on memory that is not its session's, or too small.
THEOREM HwMemoryAlways == Spec => []HwMemory
<1>1. ServiceInv => HwMemory
  <2> SUFFICES ASSUME ServiceInv, NEW k \in Core, worker[k].at = "working"
               PROVE  LET r == worker[k].job
                      IN \/ r \in hasty
                         \/ \E b \in Find(blocks, req[r].mem) :
                              b.owner = req[r].session /\ req[r].bytes <= b.bytes
    BY DEF HwMemory
  <2>1. PICK r : r = worker[k].job
    OBVIOUS
  <2>2. r \in Open
    BY <2>1 DEF ServiceInv, Placed, Workers, Works, Open
  <2>3. r \in hasty \/ BlockHeld(r)
    BY <2>2 DEF ServiceInv, MemoryHeld
  <2> QED BY <2>1, <2>3 DEF BlockHeld, Find
<1> QED BY <1>1, AlwaysServiceInv, PTL

\* A completion reaches its client exactly once: it waits in the inbox or a wait has
\* returned it, and nothing is handed out that was not answered.
THEOREM NothingLostEver == Spec => []NothingLost
<1>1. ServiceInv => NothingLost
  BY KnownType DEF ServiceInv, Delivered, NothingLost, Known
<1> QED BY <1>1, AlwaysServiceInv, PTL

\* A request is posted, queued once and on its own core, at the hardware once, or
\* answered - and never nowhere while its session is open.
THEOREM AlwaysOnePlace == Spec => []OnePlace
<1>1. ASSUME ServiceInv PROVE OnePlace
  <2> SUFFICES ASSUME NEW r \in Known
        PROVE LET places == {k \in Core : r \in Elements(queue[k])}
                  atHardware == {k \in Core : worker[k].at = "working"
                                              /\ worker[k].job = r}
              IN /\ places \subseteq {req[r].core}
                 /\ \A k \in places : Cardinality({i \in DOMAIN queue[k] : queue[k][i] = r}) = 1
                 /\ Cardinality(atHardware) = IF r \in running THEN 1 ELSE 0
                 /\ (IF r \in posted THEN 1 ELSE 0) + Cardinality(places)
                      + (IF r \in running THEN 1 ELSE 0) + Len(told[r]) \in
                        IF r \in ended THEN {0, 1} ELSE {1}
    BY DEF OnePlace, Known
  <2> DEFINE places == {k \in Core : r \in Elements(queue[k])}
             atHardware == {k \in Core : worker[k].at = "working" /\ worker[k].job = r}
  <2>1. /\ Placed(posted, queue, running, worker) /\ Types /\ Answered
        /\ r \in Nat /\ r \in Request /\ req[r].core \in Core
    BY <1>1, KnownType DEF ServiceInv, Known
  <2>2. places \subseteq {req[r].core}
    BY <2>1 DEF Placed
  <2>3. ASSUME NEW k \in places
        PROVE  Cardinality({i \in DOMAIN queue[k] : queue[k][i] = r}) = 1
    <3>1. queue[k] \in Seq(Known) /\ NoDup(queue[k]) /\ DOMAIN queue[k] = 1..Len(queue[k])
      BY <2>1 DEF Placed
    <3>2. PICK i \in 1..Len(queue[k]) : queue[k][i] = r
      BY DEF Elements
    <3>3. {j \in DOMAIN queue[k] : queue[k][j] = r} = {i}
      BY <3>1, <3>2 DEF NoDup
    <3> QED BY <3>3, FS_Singleton
  <2>4. Cardinality(atHardware) = IF r \in running THEN 1 ELSE 0
    <3>1. CASE r \in running
      <4>1. PICK k \in Core : Works(worker, k, r)
        BY <2>1, <3>1 DEF Placed
      <4>2. atHardware = {k}
        BY <2>1, <4>1 DEF Placed, Works
      <4> QED BY <3>1, <4>2, FS_Singleton
    <3>2. CASE r \notin running
      <4>1. atHardware = {}
        BY <2>1, <3>2 DEF Placed, Works
      <4> QED BY <3>2, <4>1, FS_EmptySet
    <3> QED BY <3>1, <3>2
  <2>5. r \in Queued => Cardinality(places) = 1
    <3>1. SUFFICES ASSUME r \in Queued PROVE Cardinality(places) = 1
      OBVIOUS
    <3>2. PICK k \in Core : r \in Elements(queue[k])
      BY <3>1 DEF Queued
    <3>3. places = {k}
      BY <2>2, <3>2
    <3> QED BY <3>3, FS_Singleton
  <2>6. r \notin Queued => Cardinality(places) = 0
    <3>1. SUFFICES ASSUME r \notin Queued PROVE Cardinality(places) = 0
      OBVIOUS
    <3>2. places = {}
      BY <3>1 DEF Queued
    <3> QED BY <3>2, FS_EmptySet
  <2>7. Queued \cap posted = {} /\ Queued \cap running = {} /\ posted \cap running = {}
    BY <2>1, OpenType
  <2>8. /\ r \in Open => Len(told[r]) = 0
        /\ r \notin Open => Len(told[r]) \in {0, 1}
        /\ r \notin Open /\ r \notin ended => Len(told[r]) = 1
    <3>1. told[r] \in Seq({"done", "CANCELLED"}) /\ Len(told[r]) <= 1
      BY <2>1 DEF Types, Answered
    <3> DEFINE answers == told[r]
    <3>2. answers \in Seq({"done", "CANCELLED"}) /\ Len(answers) <= 1
      BY <3>1
    <3> HIDE DEF answers
    <3>3. Len(answers) \in {0, 1} /\ (Len(answers) = 0 <=> answers = <<>>)
      BY <3>2
    <3>4. Len(told[r]) \in {0, 1} /\ (Len(told[r]) = 0 <=> told[r] = <<>>)
      BY <3>3 DEF answers
    <3> QED BY <2>1, <3>4 DEF Answered
  <2>9. r \in Open <=> r \in posted \/ r \in Queued \/ r \in running
    BY DEF Open
  <2> HIDE DEF places, atHardware
  <2> DEFINE p == Cardinality(places)
             t == Len(told[r])
  <2>10. /\ r \in Queued => p = 1
         /\ r \notin Queued => p = 0
         /\ r \in Open => t = 0
         /\ r \notin Open => t \in {0, 1}
         /\ r \notin Open /\ r \notin ended => t = 1
    BY <2>5, <2>6, <2>8
  <2> HIDE DEF p, t
  <2>11. (IF r \in posted THEN 1 ELSE 0) + p + (IF r \in running THEN 1 ELSE 0) + t \in
          IF r \in ended THEN {0, 1} ELSE {1}
    BY <2>7, <2>9, <2>10
  <2>12. (IF r \in posted THEN 1 ELSE 0) + Cardinality(places)
           + (IF r \in running THEN 1 ELSE 0) + Len(told[r]) \in
             IF r \in ended THEN {0, 1} ELSE {1}
    BY <2>11 DEF p, t
  <2> QED BY <2>2, <2>3, <2>4, <2>12 DEF places, atHardware
<1> QED BY <1>1, AlwaysServiceInv, PTL

\* A client whose objects are gone is woken only for a session it opened another one
\* over, which ~Client does not close, and only until its handler is taken away; and no
\* step answers a request whose session was closed before - although its job may still
\* run, and another client may have the session's number by then.
THEOREM NeverLateWake == Spec => NoLateWake
<1> DEFINE NoWake == /\ \A c \in Client : \A r \in inbox'[c] \ inbox[c] :
                          phase[c] = "up"
                            \/ (phase[c] = "destroyed" /\ LeftOpen(req[r].session, c))
                     /\ \A r \in ended : told'[r] = told[r]
<1>1. ServiceInv /\ [Next]_vars => [NoWake]_vars
  <2> SUFFICES ASSUME ServiceInv, [Next]_vars PROVE NoWake
    OBVIOUS
  <2>1. SessionsHeld /\ Types /\ Answered /\ ended \subseteq Request
    BY KnownType DEF ServiceInv, Answered
  <2>t. ASSUME NEW heard, NEW status, heard \in SUBSET (Open \ silenced), Tell(heard, status)
        PROVE  NoWake
    <3>1. /\ told' = [r \in Request |-> IF r \in heard THEN <<status>> ELSE told[r]]
          /\ \A c \in Client :
               inbox'[c] = inbox[c] \cup {r \in heard : req[r].fd = c /\ Registered(c)}
      BY <2>t, Told
    <3>2. \A r \in heard : /\ r \notin ended
                           /\ phase[req[r].fd] = "destroyed" =>
                                LeftOpen(req[r].session, req[r].fd)
      BY <2>t, HeardIsOpen
    <3>3. ASSUME NEW c \in Client, NEW r \in inbox'[c] \ inbox[c]
          PROVE  \/ phase[c] = "up"
                 \/ phase[c] = "destroyed" /\ LeftOpen(req[r].session, c)
      <4>1. r \in heard /\ req[r].fd = c /\ Registered(c)
        BY <3>1, <3>3
      <4> QED BY <3>2, <4>1 DEF Registered
    <3> QED BY <2>1, <3>1, <3>2, <3>3
  <2>2. ASSUME NEW over, Finishes(over) PROVE NoWake
    <3> DEFINE heard == over \ silenced
    <3>1. heard \in SUBSET (Open \ silenced) /\ Tell(heard, "done")
      BY <2>2, FinishTells
    <3> HIDE DEF heard
    <3> QED BY <2>t, <3>1
  <2>3. ASSUME NEW c \in Client, NEW ss \in SUBSET SessionId, Closes(c, ss)
        PROVE  NoWake
    <3> DEFINE heard == Cancelled(ss)
    <3>1. heard \in SUBSET (Open \ silenced) /\ Tell(heard, "CANCELLED")
      BY <2>3, CloseTells
    <3> HIDE DEF heard, NoWake
    <3> QED BY <2>t, <3>1
  <2>4. ASSUME UNCHANGED <<inbox, told>> PROVE NoWake
    BY <2>4
  <2>5. ASSUME NEW c \in Client, PostConfig(c) \/ OpenSession(c) \/ AllocMem(c) \/ FreeMem(c)
        PROVE  NoWake
    BY <2>4, <2>5 DEF PostConfig, OpenSession, AllocMem, FreeMem, clients, history
  \* A wait is a call of a client that is there.
  <2>6. ASSUME NEW c \in Client, Wait(c) \/ WaitEnds(c) \/ WaitTimesOut(c) PROVE NoWake
    <3>1. phase[c] = "up" /\ told' = told
      BY <2>1, <2>6 DEF Wait, WaitEnds, WaitTimesOut, Calls, SessionsHeld, history
    <3>2. \A d \in Client : inbox'[d] \subseteq inbox[d]
      BY <2>1, <2>6 DEF Wait, WaitEnds, WaitTimesOut, Returns, Types
    <3> QED BY <3>1, <3>2
  <2>7. ASSUME NEW c \in Client, DestroyClient(c) \/ Unregister(c) PROVE NoWake
    <3>1. inbox' = [inbox EXCEPT ![c] = {}] /\ told' = told
      BY <2>7 DEF DestroyClient, Unregister, Dropped, history
    <3>2. \A d \in Client : inbox'[d] \subseteq inbox[d]
      BY <2>1, <3>1 DEF Types
    <3> QED BY <3>1, <3>2
  <2>8. ASSUME NEW k \in Core, CoreFree(k) PROVE NoWake
    BY <2>4, <2>8 DEF CoreFree, clients, history
  <2>9. CASE UNCHANGED vars
    BY <2>4, <2>9 DEF vars, clients, history
  <2> HIDE DEF NoWake
  <2> QED BY <2>2, <2>3, <2>5, <2>6, <2>7, <2>8, <2>9, StepKinds
<1> QED BY <1>1, AlwaysServiceInv, PTL DEF Spec, NoLateWake

\* When a client's fd was closed the service has nothing of the client's any more,
\* neither of the session its library knew of nor of those it had forgotten, but jobs
\* at the hardware that will wake nobody.
THEOREM DisconnectedIsGone == Spec => []NothingLeftBehind
<1>1. ServiceInv => NothingLeftBehind
  <2> SUFFICES ASSUME ServiceInv, NEW c \in Client, phase[c] = "left"
               PROVE  /\ \A s \in SessionId : ~ Owns(s, c)
                      /\ \A r \in posted \cup Queued \cup (running \ silenced) : req[r].fd # c
    BY DEF NothingLeftBehind
  <2>1. \A s \in SessionId : session[s].fd # c
    BY DEF ServiceInv, SessionsHeld
  <2>2. ASSUME NEW r \in posted \cup Queued \cup (running \ silenced) PROVE req[r].fd # c
    <3>1. r \in Open \ silenced
      BY <2>2, OpenType DEF ServiceInv, Types, Open
    <3>2. req[r].session \in SessionId /\ session[req[r].session].fd = req[r].fd
      BY <3>1, HeardIsOpen
    <3> QED BY <2>1, <3>2
  <2> QED BY <2>1, <2>2 DEF Owns
<1> QED BY <1>1, AlwaysServiceInv, PTL

-----------------------------------------------------------------------------
(* Which requests have arrived, and the order of the queues.                *)

HasArrived ==
  /\ NoDup(arrived)
  /\ Submitted \subseteq Known /\ Submitted \cap posted = {}
  /\ Queued \cup running \subseteq Submitted

LEMMA HasArrivedKept ==
  ASSUME ServiceInv, HasArrived, [Next]_vars
  PROVE  HasArrived'
<1>1. /\ Open \subseteq Known /\ Known \subseteq Request /\ arrived \in Seq(Request)
      /\ posted \subseteq Known
  BY KnownType, OpenType DEF ServiceInv, Types, Open
<1>2. Queued' \cap posted' = {} /\ running' \cap posted' = {}
  <2>1. Placed(posted, queue, running, worker)'
    BY StepKinds
  <2> QED BY <2>1 DEF Placed, Queued, Elements
<1>3. ASSUME NEW over, Finishes(over) PROVE HasArrived'
  <2>1. PICK accepted \in SUBSET posted :
          posted' = posted \ accepted /\ Submitted' = Submitted \cup accepted
    BY <1>3 DEF Finishes
  <2>2. Open' \subseteq Open /\ Known' = Known
    BY <1>3 DEF Finishes, Known
  <2>3. NoDup(arrived')
    <3>1. CASE arrived' = arrived
      BY <3>1 DEF HasArrived
    <3>2. CASE arrived' # arrived
      <4>1. PICK r \in posted : arrived' = Append(arrived, r)
        BY <1>3, <3>2 DEF Finishes
      <4>2. r \notin Elements(arrived) /\ r \in Request
        BY <1>1 DEF HasArrived, Submitted
      <4>3. /\ Len(arrived) \in Nat /\ Len(arrived') = Len(arrived) + 1
            /\ arrived'[Len(arrived) + 1] = r
            /\ \A i \in 1..Len(arrived) : arrived'[i] = arrived[i]
        BY <1>1, <4>1, <4>2, AppendProperties, LenProperties
      <4>4. \A i \in 1..Len(arrived) : arrived[i] # r
        BY <4>2 DEF Elements
      <4>5. \A i \in 1..Len(arrived') : i \in 1..Len(arrived) \/ i = Len(arrived) + 1
        BY <4>3
      <4>6. NoDup(arrived)
        BY DEF HasArrived
      <4> QED BY <4>3, <4>4, <4>5, <4>6 DEF NoDup
    <3> QED BY <3>1, <3>2
  <2>4. Submitted' \subseteq Known' /\ Submitted' \cap posted' = {}
    BY <1>1, <2>1, <2>2 DEF HasArrived
  <2>5. ASSUME NEW r \in Queued' \cup running' PROVE r \in Submitted'
    <3>1. r \in Open' /\ r \notin posted'
      BY <1>2 DEF Open
    <3> QED BY <2>1, <2>2, <3>1 DEF Open, HasArrived
  <2>6. NoDup(arrived)'
    BY <2>3 DEF NoDup
  <2> QED BY <2>4, <2>5, <2>6 DEF HasArrived
<1>4. ASSUME NEW c \in Client, NEW ss \in SUBSET SessionId, Closes(c, ss)
      PROVE  HasArrived'
  <2>1. Open' \subseteq Open /\ UNCHANGED <<req, running, arrived>>
    BY <1>4, CloseTells
  <2>2. posted' \subseteq posted
    BY <1>4 DEF Closes, CloseSessions
  <2>3. Queued' \subseteq Queued
    <3>1. ASSUME NEW r \in Queued' PROVE r \in Queued
      <4>1. PICK k \in Core : r \in Elements(queue'[k])
        BY DEF Queued, Elements
      <4>2. PICK removed : queue'[k] = Without(queue[k], removed)
        BY <1>4 DEF Closes, CloseSessions
      <4>3. queue[k] \in Seq(Known)
        BY DEF ServiceInv, Placed
      <4>4. r \in Elements(queue[k])
        BY <4>1, <4>2, <4>3, WithoutPicks
      <4> QED BY <4>4 DEF Queued
    <3> QED BY <3>1
  <2>4. Known' = Known /\ Submitted' = Submitted /\ (NoDup(arrived) => NoDup(arrived)')
    BY <2>1 DEF Known, Submitted, NoDup
  <2> QED BY <2>1, <2>2, <2>3, <2>4 DEF HasArrived
<1>5. ASSUME NEW c \in Client, PostConfig(c) PROVE HasArrived'
  <2>1. Known' = Known \cup {Len(req) + 1} /\ Len(req) + 1 \notin Known
    BY <1>5, PostMoves DEF ServiceInv
  <2>2. posted' = posted \cup {Len(req) + 1} /\ UNCHANGED <<arrived, queue, running>>
    BY <1>5 DEF PostConfig, history
  <2>3. Submitted' = Submitted /\ Queued' = Queued /\ (NoDup(arrived) => NoDup(arrived)')
    BY <2>2 DEF Submitted, Queued, NoDup
  <2> QED BY <2>1, <2>2, <2>3 DEF HasArrived
<1>6. ASSUME Quiet, UNCHANGED arrived PROVE HasArrived'
  BY <1>6 DEF Quiet, HasArrived, Submitted, Queued, NoDup, Known
<1>7. ASSUME NEW c \in Client,
             OpenSession(c) \/ AllocMem(c) \/ FreeMem(c) \/ Wait(c) \/ WaitEnds(c)
               \/ WaitTimesOut(c) \/ DestroyClient(c) \/ Unregister(c)
      PROVE  HasArrived'
  BY <1>6, <1>7, QuietSteps DEF OpenSession, AllocMem, FreeMem, Wait, WaitEnds, WaitTimesOut,
                                DestroyClient, Unregister, history
<1>8. ASSUME NEW k \in Core, CoreFree(k) PROVE HasArrived'
  BY <1>6, <1>8, QuietSteps DEF CoreFree, history
<1>9. CASE UNCHANGED vars
  BY <1>6, <1>9, QuietSteps DEF vars, history
<1> QED BY <1>3, <1>4, <1>5, <1>7, <1>8, <1>9, StepKinds

LEMMA AlwaysArrived == Spec => []HasArrived
<1>1. Init => HasArrived
  <2>1. Elements(<<>>) = {} /\ NoDup(<<>>)
    BY DEF Elements, NoDup
  <2>2. Init => \A k \in Core : queue[k] = <<>>
    BY DEF Init
  <2> QED BY <2>1, <2>2 DEF Init, HasArrived, Submitted, Queued
<1> QED BY <1>1, HasArrivedKept, AlwaysServiceInv, PTL DEF Spec

QueuesOrdered == \A k \in Core : InOrder(queue[k], arrived, pushedBack)

\* The pump of a call that leaves `arrived` with `accepted` behind it.
LEMMA PumpKeepsOrder ==
  ASSUME Types, NEW q \in [Core -> Seq(Known)], NEW run, NEW cores, NEW accepted, NEW done,
         Pump(q, run, cores, accepted, done),
         NEW arr, Len(arr) \in Nat, Len(arr) = Len(arrived) + Cardinality(accepted),
         \A k \in Core : InOrder(q[k], arr, pushedBack)
  PROVE  \A k \in Core : InOrder(queue'[k], arr, pushedBack')
<1> DEFINE failed(f) == UNION {{q[k][i] : i \in 1..f[k].failed} : k \in Core}
<1>1. PICK fate \in [Core -> UNION {Fates(k, q[k]) : k \in Core}] :
        /\ \A k \in Core : fate[k] \in Fates(k, q[k])
        /\ queue' = [k \in Core |-> QueueAfter(q[k], fate[k])]
        /\ running' = run \cup Started(q, fate)
        /\ silenced' = silenced \cap run
        /\ worker' = [k \in Core |-> IF fate[k].then = "start"
                                      THEN Given(NextOf(q[k], fate[k])) ELSE cores[k]]
        /\ pushedBack' =
             [r \in Request |->
                IF \E k \in Core : fate[k].then = "BUSY" /\ r = NextOf(q[k], fate[k])
                THEN Len(arrived) + Cardinality(accepted) ELSE pushedBack[r]]
        /\ Tell((done \cup failed(fate)) \ silenced, "done")
        /\ Record(done \cup failed(fate))
        /\ Recount(accepted, done \cup failed(fate))
  BY Zenon DEF Pump
<1> SUFFICES ASSUME NEW k \in Core PROVE InOrder(queue'[k], arr, pushedBack')
  OBVIOUS
<1>2. /\ q[k] \in Seq(Known) /\ fate[k] \in Fates(k, q[k])
      /\ queue'[k] = QueueAfter(q[k], fate[k]) /\ InOrder(q[k], arr, pushedBack)
  BY <1>1
<1>3. \A x \in Known : req[x].priority \in Nat /\ x \in Request
  BY KnownType
<1>4. \A x \in Known : pushedBack'[x] = pushedBack[x] \/ pushedBack'[x] = Len(arr)
  BY <1>1, <1>3
<1>5. fate[k].then = "BUSY" => pushedBack'[NextOf(q[k], fate[k])] = Len(arr)
  <2>1. SUFFICES ASSUME fate[k].then = "BUSY"
                 PROVE  pushedBack'[NextOf(q[k], fate[k])] = Len(arr)
    OBVIOUS
  <2>2. NextOf(q[k], fate[k]) \in Known
    BY <1>2, <2>1, FateType
  <2> QED BY <1>1, <1>3, <2>1, <2>2
<1>6. InOrder(QueueAfter(q[k], fate[k]), arr, pushedBack')
  BY <1>2, <1>3, <1>4, <1>5, QueueAfterKeepsOrder
<1> QED BY <1>2, <1>6

\* `Before` reads the records of its two requests only.
LEMMA OrderAfter ==
  ASSUME req' = req, \A k \in Core : InOrder(queue'[k], arrived', pushedBack')
  PROVE  QueuesOrdered'
BY DEF QueuesOrdered, InOrder, Before

LEMMA SubmitKeepsOrder ==
  ASSUME ServiceInv, HasArrived, QueuesOrdered, NEW c \in Client, Submit(c)
  PROVE  QueuesOrdered'
<1>1. PICK r \in posted :
        /\ arrived' = Append(arrived, r)
        /\ Pump([queue EXCEPT ![req[r].core] = Enqueued(queue[req[r].core], r)],
                running, worker, {r}, {})
  BY DEF Submit
<1> DEFINE k0 == req[r].core
           q == [queue EXCEPT ![k0] = Enqueued(queue[k0], r)]
<1>2. /\ Types /\ queue \in [Core -> Seq(Known)] /\ r \in Known /\ k0 \in Core
      /\ \A x \in Known : req[x].priority \in Nat /\ x \in Request
      /\ r \notin Elements(arrived) /\ arrived \in Seq(Request) /\ req' = req
  BY KnownType DEF ServiceInv, Types, Placed, HasArrived, Submitted, Submit
<1>3. /\ Len(arrived) \in Nat /\ Len(arrived') = Len(arrived) + 1
      /\ arrived'[Len(arrived) + 1] = r
      /\ \A i \in 1..Len(arrived) : arrived'[i] = arrived[i] /\ arrived[i] # r
      /\ \A i \in 1..Len(arrived') : i \in 1..Len(arrived) \/ i = Len(arrived) + 1
  <2>1. r \in Request /\ \A i \in 1..Len(arrived) : arrived[i] # r
    BY <1>2 DEF Elements
  <2>2. /\ Len(arrived) \in Nat /\ Len(arrived') = Len(arrived) + 1
        /\ arrived'[Len(arrived) + 1] = r
        /\ \A i \in 1..Len(arrived) : arrived'[i] = arrived[i]
    BY <1>1, <1>2, <2>1, AppendProperties, LenProperties
  <2> QED BY <2>1, <2>2
<1> HIDE DEF k0
\* Nobody that is queued comes later than the new one.
<1>4. ASSUME NEW k \in Core
      PROVE  /\ \A i \in 1..Len(queue[k]) : queue[k][i] # r
             /\ InOrder(queue[k], arrived', pushedBack)
  <2>1. \A i \in 1..Len(queue[k]) : queue[k][i] # r
    <3>1. \A i \in 1..Len(queue[k]) : queue[k][i] \in Queued
      BY DEF Queued, Elements
    <3>2. r \notin Queued
      BY <1>2 DEF HasArrived, Submitted
    <3> QED BY <3>1, <3>2
  <2>2. ASSUME NEW a, NEW b, a # r, b # r, Before(arrived, pushedBack, a, b)
        PROVE  Before(arrived', pushedBack, a, b)
    BY <1>3, <2>2 DEF Before
  <2> QED BY <2>1, <2>2 DEF QueuesOrdered, InOrder
<1>5. ASSUME NEW x \in Elements(queue[k0]), req[x].priority = req[r].priority
      PROVE  Before(arrived', pushedBack, x, r)
  <2>1. x # r
    BY <1>2, <1>4 DEF Elements
  <2>2. ASSUME NEW m \in 1..Len(arrived'), NEW n \in 1..Len(arrived'),
               arrived'[m] = x, arrived'[n] = r
        PROVE  m < n
    <3>1. n = Len(arrived) + 1 /\ m \in 1..Len(arrived)
      BY <1>3, <2>1, <2>2
    <3> QED BY <1>3, <3>1
  <2> QED BY <1>5, <2>2 DEF Before
<1>6. InOrder(Enqueued(queue[k0], r), arrived', pushedBack)
  <2>1. queue[k0] \in Seq(Known)
    BY <1>2
  <2> QED BY <1>2, <1>4, <1>5, <2>1, EnqueueKeepsOrder
<1>7. q \in [Core -> Seq(Known)] /\ \A k \in Core : InOrder(q[k], arrived', pushedBack)
  <2>1. Enqueued(queue[k0], r) \in Seq(Known)
    BY <1>2, EnqueuedAt
  <2> QED BY <1>2, <1>4, <1>6, <2>1
<1>8. Len(arrived') \in Nat /\ Len(arrived') = Len(arrived) + Cardinality({r})
  <2>1. Cardinality({r}) = 1
    BY FS_Singleton
  <2> QED BY <1>3, <2>1
<1>9. \E done : Pump(q, running, worker, {r}, done)
  BY <1>1 DEF k0
<1> HIDE DEF q
<1>10. \A k \in Core : InOrder(queue'[k], arrived', pushedBack')
  BY <1>2, <1>7, <1>8, <1>9, PumpKeepsOrder
<1> QED BY <1>2, <1>10, OrderAfter

LEMMA OrderKept ==
  ASSUME ServiceInv, HasArrived, QueuesOrdered, [Next]_vars
  PROVE  QueuesOrdered'
<1>1. /\ Types /\ queue \in [Core -> Seq(Known)]
      /\ Len(arrived) \in Nat /\ Cardinality({}) = 0
  BY FS_EmptySet, LenProperties DEF ServiceInv, Types, Placed
\* Every other call pumps the queues as they are.
<1>2. ASSUME NEW run, NEW cores, NEW accepted, NEW done, accepted = {},
             Pump(queue, run, cores, accepted, done), UNCHANGED <<req, arrived>>
      PROVE  QueuesOrdered'
  <2>1. Len(arrived) = Len(arrived) + Cardinality(accepted)
    BY <1>1, <1>2
  <2>2. \A k \in Core : InOrder(queue'[k], arrived, pushedBack')
    BY <1>1, <1>2, <2>1, PumpKeepsOrder DEF QueuesOrdered
  <2> QED BY <1>2, <2>2, OrderAfter
<1>3. ASSUME NEW k \in Core, JobDone(k) PROVE QueuesOrdered'
  <2>1. UNCHANGED <<req, arrived>> /\ \E run, cores, done : Pump(queue, run, cores, {}, done)
    BY <1>3 DEF JobDone
  <2> QED BY <1>2, <2>1
<1>4. ASSUME Maintain PROVE QueuesOrdered'
  BY <1>2, <1>4 DEF Maintain
<1>5. ASSUME NEW c \in Client, Submit(c) PROVE QueuesOrdered'
  BY <1>5, SubmitKeepsOrder
<1>6. ASSUME NEW c \in Client, CloseSession(c) \/ ClientDisconnected(c) PROVE QueuesOrdered'
  <2>1. PICK ss : CloseSessions(ss)
    BY <1>6 DEF CloseSession, ClientDisconnected
  <2>2. UNCHANGED <<req, arrived, pushedBack>>
    BY <2>1 DEF CloseSessions
  <2>3. ASSUME NEW k \in Core PROVE InOrder(queue'[k], arrived, pushedBack)
    <3>1. PICK removed : queue'[k] = Without(queue[k], removed)
      BY <2>1 DEF CloseSessions
    <3>2. queue[k] \in Seq(Known)
      BY <1>1
    <3>3. PICK at : Picks(queue'[k], queue[k], at)
      BY <3>1, <3>2, WithoutPicks
    <3> QED BY <3>3, PicksKeepOrder DEF QueuesOrdered
  <2> QED BY <2>2, <2>3, OrderAfter
<1>7. ASSUME NEW c \in Client, PostConfig(c) PROVE QueuesOrdered'
  <2>1. \A r \in Known : req'[r] = req[r]
    BY <1>7, PostMoves DEF ServiceInv
  <2>2. UNCHANGED <<queue, arrived, pushedBack>>
    BY <1>7 DEF PostConfig, history
  <2>3. ASSUME NEW k \in Core, NEW i \in 1..Len(queue[k]) PROVE queue[k][i] \in Known
    BY <1>1, <2>3, ElementOfSeq
  <2>4. ASSUME NEW k \in Core, NEW i \in 1..Len(queue[k]), NEW j \in 1..Len(queue[k]), i < j
        PROVE  Before(arrived, pushedBack, queue[k][i], queue[k][j])'
    <3>1. Before(arrived, pushedBack, queue[k][i], queue[k][j])
      BY <2>4 DEF QueuesOrdered, InOrder
    <3> QED BY <2>1, <2>2, <2>3, <3>1 DEF Before
  <2> QED BY <2>2, <2>4 DEF QueuesOrdered, InOrder, Before
<1>8. ASSUME UNCHANGED <<req, queue, arrived, pushedBack>> PROVE QueuesOrdered'
  BY <1>8, OrderAfter DEF QueuesOrdered
<1>9. ASSUME NEW c \in Client,
             OpenSession(c) \/ AllocMem(c) \/ FreeMem(c) \/ Wait(c) \/ WaitEnds(c)
               \/ WaitTimesOut(c) \/ DestroyClient(c) \/ Unregister(c)
      PROVE  QueuesOrdered'
  BY <1>8, <1>9 DEF OpenSession, AllocMem, FreeMem, Wait, WaitEnds, WaitTimesOut,
                    DestroyClient, Unregister, service, history
<1>10. ASSUME NEW k \in Core, CoreFree(k) PROVE QueuesOrdered'
  BY <1>8, <1>10 DEF CoreFree, service, history
<1>11. CASE UNCHANGED vars
  BY <1>8, <1>11 DEF vars, service, history
<1>12. ASSUME NEW c \in Client, ClientStep(c) PROVE QueuesOrdered'
  BY <1>5, <1>6, <1>7, <1>9, <1>12 DEF ClientStep
<1>13. ASSUME NEW k \in Core, WorkerStep(k) PROVE QueuesOrdered'
  BY <1>3, <1>10, <1>13 DEF WorkerStep
<1> QED BY <1>4, <1>11, <1>12, <1>13 DEF Next, NextUnattended

\* A queue hands out the highest priority first and, inside a priority, what arrived
\* first - but for what the block pushed back, which goes behind those that had
\* arrived by then (request_queue.cpp:20-23, dispatcher.cpp:44-54).
THEOREM QueueAlwaysOrdered == Spec => []QueueOrder
<1>1. Init => QueuesOrdered
  BY DEF Init, QueuesOrdered, InOrder
<1>2. ServiceInv /\ HasArrived /\ QueuesOrdered /\ [Next]_vars => QueuesOrdered'
  BY OrderKept
<1>3. ServiceInv /\ HasArrived /\ QueuesOrdered => QueueOrder
  <2> SUFFICES ASSUME ServiceInv, HasArrived, QueuesOrdered,
                      NEW k \in Core, NEW i \in DOMAIN queue[k], NEW j \in DOMAIN queue[k], i < j
               PROVE  LET pos(r) == CHOOSE n \in DOMAIN arrived : arrived[n] = r
                          a == queue[k][i]
                          b == queue[k][j]
                      IN \/ req[a].priority > req[b].priority
                         \/ /\ req[a].priority = req[b].priority
                            /\ pos(a) < pos(b) \/ pos(a) <= pushedBack[b]
    BY DEF QueueOrder
  <2> DEFINE pos(r) == CHOOSE n \in DOMAIN arrived : arrived[n] = r
             a == queue[k][i]
             b == queue[k][j]
  <2>1. /\ queue[k] \in Seq(Known) /\ DOMAIN queue[k] = 1..Len(queue[k])
        /\ DOMAIN arrived = 1..Len(arrived)
    BY DEF ServiceInv, Types, Placed
  <2>2. Before(arrived, pushedBack, a, b)
    BY <2>1 DEF QueuesOrdered, InOrder
  <2>3. a \in Elements(arrived) /\ b \in Elements(arrived)
    <3>1. a \in Queued /\ b \in Queued
      BY <2>1 DEF Queued, Elements
    <3> QED BY <3>1 DEF HasArrived, Submitted
  <2> HIDE DEF a, b
  <2>4. /\ pos(a) \in 1..Len(arrived) /\ arrived[pos(a)] = a
        /\ pos(b) \in 1..Len(arrived) /\ arrived[pos(b)] = b
    BY <2>1, <2>3 DEF Elements
  <2> HIDE DEF pos
  <2>5. \/ req[a].priority > req[b].priority
        \/ /\ req[a].priority = req[b].priority
           /\ pos(a) < pos(b) \/ pos(a) <= pushedBack[b]
    BY <2>2, <2>4 DEF Before
  <2> QED BY <2>5 DEF a, b, pos
<1> QED BY <1>1, <1>2, <1>3, AlwaysServiceInv, AlwaysArrived, PTL DEF Spec

-----------------------------------------------------------------------------
(* What the performance monitor has counted.                                *)

Finished == {r \in Submitted : Gone(r) /\ told[r] # <<"CANCELLED">>}
Faulty == {r \in Finished : r \in hasty \/ req[r].bytes > MaxJobBytes}

MonitorInv ==
  /\ \A s \in SessionId : counted[s] = OfSession(Finished, s)
  /\ errors <= Cardinality(Faulty)

LEMMA CountOfUnion ==
  ASSUME Types, NEW S \in SUBSET Known, NEW T \in SUBSET Known, S \cap T = {}
  PROVE  /\ Cardinality(S \cup T) = Cardinality(S) + Cardinality(T)
         /\ Cardinality(S) \in Nat /\ Cardinality(T) \in Nat
         /\ \A s : OfSession(S \cup T, s) = OfSession(S, s) + OfSession(T, s)
<1>1. ASSUME NEW A \in SUBSET Known, NEW B \in SUBSET Known, A \cap B = {}
      PROVE  /\ Cardinality(A \cup B) = Cardinality(A) + Cardinality(B)
             /\ Cardinality(A) \in Nat /\ Cardinality(B) \in Nat
  <2>1. IsFiniteSet(A) /\ IsFiniteSet(B)
    BY KnownType, FS_Subset
  <2>2. Cardinality(A \cup B) = Cardinality(A) + Cardinality(B) - Cardinality(A \cap B)
    BY <2>1, FS_Union
  <2>3. Cardinality(A) \in Nat /\ Cardinality(B) \in Nat /\ Cardinality(A \cap B) = 0
    BY <1>1, <2>1, FS_CardinalityType, FS_EmptySet
  <2> DEFINE a == Cardinality(A)
             b == Cardinality(B)
  <2>4. Cardinality(A \cup B) = a + b - 0 /\ a \in Nat /\ b \in Nat
    BY <2>2, <2>3
  <2> HIDE DEF a, b
  <2>5. Cardinality(A \cup B) = a + b
    BY <2>4
  <2> QED BY <2>3, <2>5 DEF a, b
<1>2. ASSUME NEW s
      PROVE  OfSession(S \cup T, s) = OfSession(S, s) + OfSession(T, s)
  <2> DEFINE A == {r \in S : req[r].session = s}
             B == {r \in T : req[r].session = s}
  <2>1. /\ {r \in S \cup T : req[r].session = s} = A \cup B
        /\ A \in SUBSET Known /\ B \in SUBSET Known /\ A \cap B = {}
    OBVIOUS
  <2> HIDE DEF A, B
  <2>2. Cardinality(A \cup B) = Cardinality(A) + Cardinality(B)
    BY <1>1, <2>1
  <2> QED BY <2>1, <2>2 DEF OfSession, A, B
<1> QED BY <1>1, <1>2

LEMMA CountOfSubset ==
  ASSUME Types, NEW S \in SUBSET Known, NEW T \in SUBSET S
  PROVE  Cardinality(T) <= Cardinality(S)
BY KnownType, FS_Subset

\* What ends in a step joins what has ended at the hardware, unless it is cancelled.
LEMMA FinishedMoves ==
  ASSUME ServiceInv, HasArrived, [Next]_vars
  PROVE  /\ Finished \in SUBSET Known /\ Finished \cap Open = {}
         /\ \A over : Finishes(over) => Finished' = Finished \cup over
         /\ \A c \in Client, ss \in SUBSET SessionId : Closes(c, ss) => Finished' = Finished
         /\ \A c \in Client : PostConfig(c) => Finished' = Finished
         /\ Quiet /\ UNCHANGED arrived => Finished' = Finished
<1>1. /\ Open \subseteq Known /\ Known \subseteq Request /\ Submitted \subseteq Known
      /\ Submitted \cap posted = {} /\ Queued \cup running \subseteq Submitted
  BY KnownType, OpenType DEF ServiceInv, HasArrived
<1>2. Finished = {r \in Submitted : r \notin Open /\ told[r] # <<"CANCELLED">>}
  BY DEF Finished, Gone, Open
<1>3. Finished' = {r \in Submitted' : r \notin Open' /\ told'[r] # <<"CANCELLED">>}
  BY DEF Finished, Gone, Open, Queued
<1>4. <<"done">> # <<"CANCELLED">> /\ <<>> # <<"CANCELLED">>
  <2>1. <<"done">>[1] = "done" /\ <<"CANCELLED">>[1] = "CANCELLED"
    OBVIOUS
  <2>2. Len(<<>>) = 0 /\ Len(<<"CANCELLED">>) = 1
    OBVIOUS
  <2> QED BY <2>1, <2>2
<1>5. ASSUME NEW over, Finishes(over) PROVE Finished' = Finished \cup over
  <2> DEFINE heard == over \ silenced
  <2>1. heard \in SUBSET (Open \ silenced) /\ Tell(heard, "done")
    BY <1>5, FinishTells
  <2> HIDE DEF heard
  <2>2. told' = [r \in Request |-> IF r \in heard THEN <<"done">> ELSE told[r]]
    BY <2>1, Told
  <2>3. \A r \in over : r \in Request /\ told[r] = <<>>
    BY <1>1, <1>5 DEF Finishes, ServiceInv, Answered
  <2>4. \A r \in over : told'[r] # <<"CANCELLED">>
    BY <1>4, <2>2, <2>3
  <2>5. \A r \in Request \ over : told'[r] = told[r]
    BY <2>2 DEF heard
  <2>6. PICK accepted \in SUBSET posted :
          posted' = posted \ accepted /\ Submitted' = Submitted \cup accepted
    BY <1>5 DEF Finishes
  <2>7. over \subseteq Open /\ Open' = Open \ over /\ over \cap posted' = {}
    BY <1>5 DEF Finishes
  <2>8. ASSUME NEW r \in Finished' PROVE r \in Finished \cup over
    BY <1>1, <1>2, <1>3, <2>5, <2>6, <2>7 DEF Open
  <2>9. ASSUME NEW r \in over PROVE r \in Finished'
    <3>1. r \in Submitted'
      BY <1>1, <2>6, <2>7 DEF Open
    <3> QED BY <1>3, <2>4, <2>7, <3>1
  <2>10. ASSUME NEW r \in Finished PROVE r \in Finished'
    BY <1>1, <1>2, <1>3, <2>5, <2>6, <2>7
  <2> QED BY <2>8, <2>9, <2>10
<1>6. ASSUME NEW c \in Client, NEW ss \in SUBSET SessionId, Closes(c, ss)
      PROVE  Finished' = Finished
  <2> DEFINE heard == Cancelled(ss)
  <2>1. heard \in SUBSET (Open \ silenced) /\ Tell(heard, "CANCELLED")
    BY <1>6, CloseTells
  <2>2. heard = {r \in Queued : req[r].session \in ss}
    BY DEF Cancelled
  <2> HIDE DEF heard
  <2>3. told' = [r \in Request |-> IF r \in heard THEN <<"CANCELLED">> ELSE told[r]]
    BY <2>1, Told
  <2>4. /\ Open' = {r \in Open : r \in running \/ req[r].session \notin ss}
        /\ Submitted' = Submitted
    BY <1>6, CloseTells DEF Submitted
  <2>5. ASSUME NEW r \in Submitted
        PROVE  r \notin Open' /\ told'[r] # <<"CANCELLED">>
                 <=> r \notin Open /\ told[r] # <<"CANCELLED">>
    <3>1. CASE r \notin Open
      BY <1>1, <2>1, <2>3, <2>4, <3>1
    <3>2. CASE r \in Open
      <4>1. r \notin Open' => r \in heard
        BY <1>1, <2>2, <2>4, <3>2 DEF Open
      <4> QED BY <1>1, <2>3, <3>2, <4>1
    <3> QED BY <3>1, <3>2
  <2> QED BY <1>2, <1>3, <2>4, <2>5
<1>7. ASSUME NEW c \in Client, PostConfig(c) PROVE Finished' = Finished
  <2>1. Open' = Open \cup {Len(req) + 1} /\ Len(req) + 1 \notin Known
    BY <1>7, PostMoves DEF ServiceInv
  <2>2. Submitted' = Submitted /\ told' = told
    BY <1>7 DEF PostConfig, history, Submitted
  <2> QED BY <1>1, <1>2, <1>3, <2>1, <2>2
<1>8. ASSUME Quiet, UNCHANGED arrived PROVE Finished' = Finished
  BY <1>2, <1>3, <1>8, QuietSteps DEF Quiet, Submitted
<1> QED BY <1>1, <1>2, <1>5, <1>6, <1>7, <1>8

LEMMA MonitorKept ==
  ASSUME ServiceInv, HasArrived, MonitorInv, [Next]_vars
  PROVE  MonitorInv'
<1>1. /\ Types /\ Open \subseteq Known /\ Finished \in SUBSET Known /\ Finished \cap Open = {}
      /\ errors \in Nat /\ \A r \in Known : req[r].bytes \in Nat
  BY KnownType, OpenType, FinishedMoves DEF ServiceInv, Types
<1>2. MaxJobBytes \in Nat
  BY CvAssumption
<1>3. ASSUME NEW over, Finishes(over) PROVE MonitorInv'
  <2>1. /\ over \in SUBSET Known /\ Finished \cap over = {} /\ over \subseteq Open
        /\ UNCHANGED <<req, hasty>> /\ Record(over)
    BY <1>1, <1>3 DEF Finishes
  <2>2. Finished' = Finished \cup over
    BY <1>3, FinishedMoves
  <2>3. ASSUME NEW s \in SessionId PROVE counted'[s] = OfSession(Finished, s)'
    <3>1. counted'[s] = counted[s] + OfSession(over, s)
      BY <2>1 DEF Record
    <3>2. OfSession(Finished \cup over, s) = OfSession(Finished, s) + OfSession(over, s)
      BY <1>1, <2>1, CountOfUnion
    <3>3. OfSession(Finished, s)' = OfSession(Finished \cup over, s)
      BY <2>1, <2>2 DEF OfSession
    <3> QED BY <3>1, <3>2, <3>3 DEF MonitorInv
  <2> DEFINE bad == {r \in over : ~ BytesOk(r)}
             blamed == {r \in over : r \in hasty \/ req[r].bytes > MaxJobBytes}
  \* A request whose block was not freed under it fails the check for its size only.
  <2>4. ASSUME NEW r \in bad PROVE r \in blamed
    <3>1. r \in Open /\ req[r].bytes \in Nat
      BY <1>1, <2>1
    <3>2. r \in hasty \/ BlockHeld(r)
      BY <3>1 DEF ServiceInv, MemoryHeld
    <3> QED BY <1>2, <3>1, <3>2 DEF BytesOk, BlockHeld, Find
  <2>5. Faulty' = Faulty \cup blamed
    BY <2>1, <2>2 DEF Faulty
  <2>6. Faulty \in SUBSET Known /\ blamed \in SUBSET Known /\ Faulty \cap blamed = {}
    BY <1>1, <2>1 DEF Faulty
  <2>7. errors' = errors + Cardinality(bad)
    BY <2>1 DEF Record
  <2> HIDE DEF bad, blamed
  <2>8. /\ Cardinality(Faulty \cup blamed) = Cardinality(Faulty) + Cardinality(blamed)
        /\ Cardinality(Faulty) \in Nat /\ Cardinality(blamed) \in Nat
    BY <1>1, <2>6, CountOfUnion
  <2>9. bad \in SUBSET blamed /\ Cardinality(bad) <= Cardinality(blamed)
    BY <1>1, <2>4, <2>6, CountOfSubset
  <2>10. Cardinality(bad) \in Nat
    BY <1>1, <2>6, <2>9, KnownType, FS_Subset, FS_CardinalityType
  <2>11. errors' <= Cardinality(Faulty')
    <3> DEFINE f == Cardinality(Faulty)
               b == Cardinality(bad)
               l == Cardinality(blamed)
    <3>1. /\ errors <= f /\ b <= l /\ f \in Nat /\ b \in Nat /\ l \in Nat
          /\ errors' = errors + b /\ Cardinality(Faulty') = f + l
      BY <2>5, <2>7, <2>8, <2>9, <2>10 DEF MonitorInv
    <3> HIDE DEF f, b, l
    <3>2. errors + b <= f + l
      BY <1>1, <3>1
    <3> QED BY <3>1, <3>2
  <2> QED BY <2>3, <2>11 DEF MonitorInv
\* Other steps end nothing at the hardware; requests may become hasty.
<1>4. ASSUME Finished' = Finished, UNCHANGED <<counted, errors>>, hasty \subseteq hasty',
             \A r \in Known : req'[r] = req[r]
      PROVE  MonitorInv'
  <2>1. ASSUME NEW s \in SessionId PROVE counted'[s] = OfSession(Finished, s)'
    <3>1. {r \in Finished : req'[r].session = s} = {r \in Finished : req[r].session = s}
      BY <1>1, <1>4
    <3>2. OfSession(Finished, s)' = OfSession(Finished, s)
      BY <1>4, <3>1 DEF OfSession
    <3> QED BY <1>4, <3>2 DEF MonitorInv
  <2>2. /\ Faulty' = {r \in Finished : r \in hasty' \/ req[r].bytes > MaxJobBytes}
        /\ Faulty' \in SUBSET Known /\ Faulty \in SUBSET Faulty'
    BY <1>1, <1>4 DEF Faulty
  <2>3. Cardinality(Faulty) <= Cardinality(Faulty')
    BY <1>1, <2>2, CountOfSubset
  <2>4. Cardinality(Faulty) \in Nat /\ Cardinality(Faulty') \in Nat
    BY <1>1, <2>2, KnownType, FS_Subset, FS_CardinalityType
  <2>5. errors' <= Cardinality(Faulty')
    BY <1>1, <1>4, <2>3, <2>4 DEF MonitorInv
  <2> QED BY <2>1, <2>5 DEF MonitorInv
<1>5. ASSUME NEW c \in Client, NEW ss \in SUBSET SessionId, Closes(c, ss)
      PROVE  MonitorInv'
  BY <1>4, <1>5, CloseTells, FinishedMoves
<1>6. ASSUME NEW c \in Client, PostConfig(c) PROVE MonitorInv'
  <2>1. \A r \in Known : req'[r] = req[r]
    BY <1>6, PostMoves DEF ServiceInv
  <2> QED BY <1>4, <1>6, <2>1, FinishedMoves DEF PostConfig, stats, history
<1>7. ASSUME Quiet, UNCHANGED <<arrived, counted, errors>>, hasty \subseteq hasty'
      PROVE  MonitorInv'
  BY <1>4, <1>7, FinishedMoves DEF Quiet
<1>8. ASSUME NEW c \in Client, OpenSession(c) \/ AllocMem(c) \/ FreeMem(c) PROVE MonitorInv'
  BY <1>7, <1>8, QuietSteps DEF OpenSession, AllocMem, FreeMem, stats, history
<1>9. ASSUME NEW c \in Client,
             Wait(c) \/ WaitEnds(c) \/ WaitTimesOut(c) \/ DestroyClient(c) \/ Unregister(c)
      PROVE  MonitorInv'
  BY <1>7, <1>9, QuietSteps DEF Wait, WaitEnds, WaitTimesOut, DestroyClient, Unregister,
                                stats, history
<1>10. ASSUME NEW k \in Core, CoreFree(k) PROVE MonitorInv'
  BY <1>7, <1>10, QuietSteps DEF CoreFree, stats, history
<1>11. CASE UNCHANGED vars
  BY <1>7, <1>11, QuietSteps DEF vars, stats, history
<1> QED BY <1>3, <1>5, <1>6, <1>8, <1>9, <1>10, <1>11, StepKinds

\* Every request that ended at the hardware is counted once, for the session number it
\* was posted under, and the integrity check blames only requests whose memory was
\* freed under them or that are too large.
THEOREM StatsAlwaysMatch == Spec => []StatsMatch
<1>1. Init => MonitorInv
  <2> SUFFICES ASSUME Init PROVE MonitorInv
    OBVIOUS
  <2>1. Elements(<<>>) = {}
    BY DEF Elements
  <2>2. Finished = {} /\ Faulty = {}
    BY <2>1 DEF Init, Finished, Submitted, Faulty
  <2>3. \A s : OfSession(Finished, s) = 0
    BY <2>2, FS_EmptySet DEF OfSession
  <2>4. Cardinality(Faulty) = 0 /\ errors = 0 /\ \A s \in SessionId : counted[s] = 0
    BY <2>2, FS_EmptySet DEF Init
  <2> QED BY <2>3, <2>4 DEF MonitorInv
<1>2. ServiceInv /\ HasArrived /\ MonitorInv /\ [Next]_vars => MonitorInv'
  BY MonitorKept
<1>3. MonitorInv => StatsMatch
  BY DEF MonitorInv, StatsMatch, Finished, Faulty
<1> QED BY <1>1, <1>2, <1>3, AlwaysServiceInv, AlwaysArrived, PTL DEF Spec

-----------------------------------------------------------------------------
(* What a set of blocks weighs.  The sum of the library is a recursion over *)
(* the set; counting the bytes as pairs <<block, number>> gives the same    *)
(* number in closed form, which can be reasoned about.                      *)

Cells(T) == {c \in T \X Nat : c[2] \in 1..c[1].bytes}
Weight(T) == Cardinality(Cells(T))

LEMMA CellsOfBlock ==
  ASSUME NEW b, b.bytes \in Nat
  PROVE  IsFiniteSet(Cells({b})) /\ Weight({b}) = b.bytes
<1> DEFINE f == [i \in 1..b.bytes |-> <<b, i>>]
<1>1. IsFiniteSet(1..b.bytes) /\ Cardinality(1..b.bytes) = b.bytes
  <2>1. 1 \in Int /\ b.bytes \in Int /\ b.bytes - 1 + 1 = b.bytes
    OBVIOUS
  <2>2. Cardinality(1..b.bytes) = IF 1 > b.bytes THEN 0 ELSE b.bytes - 1 + 1
    BY <2>1, FS_Interval
  <2> QED BY <2>1, <2>2, FS_Interval
<1>2. \A c : c \in Cells({b}) <=> \E i \in 1..b.bytes : c = <<b, i>>
  BY DEF Cells
<1>3. f \in Bijection(1..b.bytes, Cells({b}))
  <2>1. f \in [1..b.bytes -> Cells({b})]
    BY <1>2
  <2>2. \A i, j \in 1..b.bytes : f[i] = f[j] => i = j
    OBVIOUS
  <2>3. \A c \in Cells({b}) : \E i \in 1..b.bytes : f[i] = c
    BY <1>2
  <2> HIDE DEF f
  <2> QED BY <2>1, <2>2, <2>3 DEF Bijection, Injection, Surjection, IsInjective
<1> QED BY <1>1, <1>3, FS_Bijection DEF ExistsBijection, Weight

LEMMA WeightOfSubset ==
  ASSUME NEW S, IsFiniteSet(Cells(S)), NEW T \in SUBSET S
  PROVE  IsFiniteSet(Cells(T)) /\ Weight(T) \in Nat
<1>1. Cells(T) \in SUBSET Cells(S)
  BY DEF Cells
<1> QED BY <1>1, FS_Subset, FS_CardinalityType DEF Weight

\* A block more weighs its bytes more.
LEMMA WeightAdds ==
  ASSUME NEW T, IsFiniteSet(Cells(T)), NEW b, b \notin T, b.bytes \in Nat
  PROVE  IsFiniteSet(Cells(T \cup {b})) /\ Weight(T \cup {b}) = b.bytes + Weight(T)
<1>1. Cells(T \cup {b}) = Cells(T) \cup Cells({b}) /\ Cells(T) \cap Cells({b}) = {}
  BY DEF Cells
<1>2. IsFiniteSet(Cells({b})) /\ Weight({b}) = b.bytes
  BY CellsOfBlock
<1>3. /\ IsFiniteSet(Cells(T) \cup Cells({b}))
      /\ Cardinality(Cells(T) \cup Cells({b}))
           = Cardinality(Cells(T)) + Cardinality(Cells({b})) - Cardinality(Cells(T) \cap Cells({b}))
  BY <1>2, FS_Union
<1>4. Cardinality(Cells(T) \cap Cells({b})) = 0 /\ Weight(T) \in Nat
  BY <1>1, FS_EmptySet, FS_CardinalityType DEF Weight
<1> DEFINE w == Weight(T)
           v == Weight({b})
<1>5. Weight(T \cup {b}) = w + v - 0 /\ w \in Nat /\ v = b.bytes
  BY <1>1, <1>2, <1>3, <1>4 DEF Weight
<1> HIDE DEF w, v
<1>6. Weight(T \cup {b}) = b.bytes + w
  BY <1>5
<1> QED BY <1>1, <1>3, <1>6 DEF w

\* The library's sum of the bytes is the weight: a smallest set where it were not would
\* have a smaller one, without the element the sum takes first.
LEMMA SumIsWeight ==
  ASSUME NEW S, \A b \in S : b.bytes \in Nat \ {0}, IsFiniteSet(Cells(S))
  PROVE  MapThenSumSet(LAMBDA b : b.bytes, S) = Weight(S)
<1> DEFINE Step(f) == [s \in SUBSET S |-> IF s = {} THEN 0
                                           ELSE LET x == CHOOSE y \in s : TRUE
                                                IN  x.bytes + f[s \ {x}]]
           g == [T \in SUBSET S |-> Weight(T)]
<1>1. Weight({}) = 0
  BY FS_EmptySet DEF Weight, Cells
<1>2. ASSUME NEW T \in SUBSET S, NEW x \in T
      PROVE  /\ Weight(T) = x.bytes + Weight(T \ {x})
             /\ Weight(T) \in Nat /\ Weight(T \ {x}) \in Nat /\ T \ {x} \in SUBSET S
             /\ Weight(T \ {x}) < Weight(T)
  <2>1. IsFiniteSet(Cells(T \ {x})) /\ Weight(T \ {x}) \in Nat /\ Weight(T) \in Nat
    BY WeightOfSubset
  <2>2. (T \ {x}) \cup {x} = T /\ x \notin T \ {x} /\ x.bytes \in Nat \ {0}
    OBVIOUS
  <2>3. Weight(T) = x.bytes + Weight(T \ {x})
    BY <2>1, <2>2, WeightAdds
  <2> QED BY <2>1, <2>2, <2>3
<1>3. g = Step(g)
  <2>1. ASSUME NEW T \in SUBSET S
        PROVE  Weight(T) = IF T = {} THEN 0 ELSE LET x == CHOOSE y \in T : TRUE
                                                 IN  x.bytes + g[T \ {x}]
    <3>1. CASE T = {}
      BY <1>1, <3>1
    <3>2. CASE T # {}
      <4> DEFINE x == CHOOSE y \in T : TRUE
      <4>1. x \in T
        BY <3>2
      <4> HIDE DEF x
      <4>2. Weight(T) = x.bytes + Weight(T \ {x}) /\ T \ {x} \in SUBSET S
        BY <1>2, <4>1
      <4> QED BY <3>2, <4>2 DEF x
    <3> QED BY <3>1, <3>2
  <2> QED BY <2>1
<1>4. PICK f : f = Step(f) /\ MapThenSumSet(LAMBDA b : b.bytes, S) = f[S]
  BY <1>3 DEF MapThenSumSet, MapThenFoldSet
<1>5. ASSUME NEW T \in SUBSET S PROVE f[T] = Weight(T)
  <2> DEFINE Wrong == {Weight(s) : s \in {t \in SUBSET S : f[t] # Weight(t)}}
  <2>1. SUFFICES ASSUME f[T] # Weight(T) PROVE FALSE
    OBVIOUS
  <2>2. Wrong \in SUBSET Nat /\ Wrong # {}
    BY <2>1, WeightOfSubset
  <2>3. PICK m \in Wrong : \A n \in Wrong : m <= n
    BY <2>2, LeastNat
  <2>4. PICK s \in SUBSET S : f[s] # Weight(s) /\ m = Weight(s)
    BY <2>3
  <2>5. f[s] = IF s = {} THEN 0 ELSE LET x == CHOOSE y \in s : TRUE
                                     IN  x.bytes + f[s \ {x}]
    <3> DEFINE h == Step(f)
    <3>1. h[s] = IF s = {} THEN 0 ELSE LET x == CHOOSE y \in s : TRUE
                                       IN  x.bytes + f[s \ {x}]
      OBVIOUS
    <3>2. f = h
      BY <1>4
    <3> HIDE DEF h
    <3>3. f[s] = h[s]
      BY <3>2
    <3> QED BY <3>1, <3>3
  <2>s. s # {}
    BY <1>1, <2>4, <2>5
  <2> DEFINE x == CHOOSE y \in s : TRUE
  <2>6. x \in s
    BY <2>s
  <2>7. f[s] = x.bytes + f[s \ {x}]
    BY <2>5, <2>s
  <2> HIDE DEF x
  <2>8. /\ Weight(s) = x.bytes + Weight(s \ {x}) /\ Weight(s \ {x}) < Weight(s)
        /\ Weight(s) \in Nat /\ Weight(s \ {x}) \in Nat /\ s \ {x} \in SUBSET S
    BY <1>2, <2>6
  <2>9. ASSUME f[s \ {x}] # Weight(s \ {x}) PROVE FALSE
    <3> DEFINE w == Weight(s \ {x})
    <3>1. w \in Wrong
      BY <2>8, <2>9
    <3> HIDE DEF Wrong
    <3>2. m <= w
      BY <2>3, <3>1
    <3>3. w < m /\ w \in Nat /\ m \in Nat
      BY <2>4, <2>8
    <3> HIDE DEF w
    <3> QED BY <3>2, <3>3
  <2>10. f[s \ {x}] = Weight(s \ {x})
    BY <2>9
  <2> QED BY <2>4, <2>7, <2>8, <2>10
<1> QED BY <1>4, <1>5

-----------------------------------------------------------------------------
(* What a session is charged for: its requests and its blocks.              *)

\* The requests a session's count is about, and what is true of it.
Live == (Queued \cup running) \ ended

Counted(s) ==
  /\ session[s].openRequests <= OfSession(Live, s)
  /\ (\A r \in ended : req[r].session # s) => session[s].openRequests = OfSession(Live, s)

CountsInv == \A s \in SessionId : Counted(s)

\* A session nobody has open has no live request.
LEMMA LiveIsHeld ==
  ASSUME ServiceInv
  PROVE  /\ Live \in SUBSET Known /\ posted \in SUBSET Known
         /\ Live \cap posted = {} /\ posted \cap ended = {}
         /\ \A r \in Live \cup posted : Active(req[r].session)
<1>1. /\ Open \subseteq Known /\ silenced \subseteq running /\ running \cap posted = {}
      /\ Queued \cap posted = {} /\ ended \cap Open = silenced
  BY OpenType DEF ServiceInv, Types, Answered
<1>2. Live \subseteq Known /\ posted \subseteq Known /\ Live \cap posted = {}
      /\ posted \cap ended = {}
  BY <1>1 DEF Live, Open
<1>3. ASSUME NEW r \in Live \cup posted PROVE Active(req[r].session)
  <2>1. r \in Known /\ r \notin ended
    BY <1>2 DEF Live
  <2>2. session[req[r].session].fd = req[r].fd /\ req[r].fd \in Client
    BY <2>1, KnownType DEF ServiceInv, SessionsHeld
  <2> QED BY <2>2, CvAssumption DEF Active
<1> QED BY <1>2, <1>3

LEMMA NobodysLive ==
  ASSUME ServiceInv, NEW s \in SessionId, ~ Active(s), NEW T \in SUBSET (Live \cup posted)
  PROVE  OfSession(T, s) = 0
<1>1. {r \in T : req[r].session = s} = {}
  BY LiveIsHeld
<1> QED BY <1>1, FS_EmptySet DEF OfSession

\* Subtracting what ended, and not below 0, never leaves more than there are.
LEMMA LessStays ==
  ASSUME NEW n \in Nat, NEW a \in Nat, NEW l \in Nat, NEW left \in Nat, NEW ends \in Nat,
         NEW others \in Nat, n <= l, l + a = left + ends
  PROVE  /\ (IF n + a > ends + others THEN (n + a) - (ends + others) ELSE 0) <= left
         /\ n = l /\ others = 0 =>
              (IF n + a > ends + others THEN (n + a) - (ends + others) ELSE 0) = left
OBVIOUS

\* A call that accepts a request, and in which others end, counts both.
LEMMA FinishCounts ==
  ASSUME ServiceInv, CountsInv, [Next]_vars, NEW over, Finishes(over), NEW s \in SessionId
  PROVE  Counted(s)'
<1>1. PICK accepted \in SUBSET posted :
        posted' = posted \ accepted /\ Recount(accepted, over)
  BY DEF Finishes
<1>2. /\ over \subseteq Open /\ Open' = Open \ over /\ over \cap posted' = {}
      /\ UNCHANGED <<req, ended>>
  BY DEF Finishes
<1>3. /\ Live \in SUBSET Known /\ posted \in SUBSET Known /\ accepted \in SUBSET Known
      /\ Live \cap accepted = {} /\ accepted \cap ended = {}
      /\ Open \subseteq Known /\ Types
  BY LiveIsHeld, OpenType DEF ServiceInv
<1>4. Live' = (Live \cup accepted) \ over
  <2>1. Queued' \cap posted' = {} /\ running' \cap posted' = {}
    <3>1. Placed(posted, queue, running, worker)'
      BY StepKinds
    <3>2. \A k \in Core : \A r \in Elements(queue'[k]) : r \notin posted'
      BY <3>1 DEF Placed
    <3> QED BY <3>1, <3>2 DEF Placed, Queued
  <2>2. Open' = posted' \cup Queued' \cup running'
    BY DEF Open
  <2>3. Queued \cap posted = {} /\ running \cap posted = {}
    BY OpenType DEF ServiceInv
  <2> QED BY <1>1, <1>2, <1>3, <2>1, <2>2, <2>3 DEF Live, Open
<1> DEFINE U == Live \cup accepted
           dead == over \ U
<1>5. dead \subseteq ended /\ dead \in SUBSET Known /\ U \in SUBSET Known
  BY <1>1, <1>2, <1>3 DEF Live, Open
<1>6. /\ U = (U \ over) \cup (U \cap over) /\ (U \ over) \cap (U \cap over) = {}
      /\ over = (U \cap over) \cup dead /\ (U \cap over) \cap dead = {}
      /\ U \ over \in SUBSET Known /\ U \cap over \in SUBSET Known
  BY <1>5
<1> DEFINE n == session[s].openRequests
           l == OfSession(Live, s)
           a == OfSession(accepted, s)
           left == OfSession(U \ over, s)
           ends == OfSession(U \cap over, s)
           others == OfSession(dead, s)
<1>7. OfSession(U, s) = l + a /\ l \in Nat /\ a \in Nat
  BY <1>3, CountOfUnion, CountsAreNumbers
<1>8. OfSession(U, s) = left + ends /\ left \in Nat /\ ends \in Nat
  <2> HIDE DEF U
  <2>1. OfSession((U \ over) \cup (U \cap over), s) = left + ends
    BY <1>3, <1>6, CountOfUnion
  <2> QED BY <1>3, <1>6, <2>1, CountsAreNumbers
<1>9. OfSession(over, s) = ends + others /\ others \in Nat
  <2> HIDE DEF U, dead
  <2>1. OfSession((U \cap over) \cup dead, s) = ends + others
    BY <1>3, <1>5, <1>6, CountOfUnion
  <2> QED BY <1>3, <1>5, <1>6, <2>1, CountsAreNumbers
<1>10. n \in Nat /\ n <= l /\ ((\A r \in ended : req[r].session # s) => n = l)
  BY <1>3 DEF CountsInv, Counted, Types, SessionRecords
<1>11. (\A r \in ended : req[r].session # s) => others = 0
  <2>1. ASSUME \A r \in ended : req[r].session # s
        PROVE  {r \in dead : req[r].session = s} = {}
    BY <1>5, <2>1
  <2> QED BY <2>1, FS_EmptySet DEF OfSession
<1>12. OfSession(Live, s)' = left
  BY <1>2, <1>4 DEF OfSession
<1>13. CASE Active(s)
  <2>1. session'[s].openRequests = Less(n + a, over, s)
    <3>1. session'[s] = Charged(session[s], Less(n + a, over, s), session[s].bytesAllocated)
      BY <1>1, <1>13 DEF Recount
    <3> HIDE DEF n, a
    <3> QED BY <3>1 DEF Charged
  <2>2. Less(n + a, over, s) = IF n + a > ends + others THEN (n + a) - (ends + others) ELSE 0
    <3> DEFINE m == n + a
    <3> HIDE DEF m
    <3>1. Less(m, over, s) = IF m > OfSession(over, s) THEN m - OfSession(over, s) ELSE 0
      BY Zenon DEF Less
    <3> HIDE DEF ends, others
    <3>2. Less(m, over, s) = IF m > ends + others THEN m - (ends + others) ELSE 0
      BY <1>9, <3>1, Zenon
    <3> QED BY <3>2 DEF m
  <2> HIDE DEF n, l, a, left, ends, others
  <2>3. l + a = left + ends
    BY <1>7, <1>8
  <2>4. /\ Less(n + a, over, s) <= left
        /\ n = l /\ others = 0 => Less(n + a, over, s) = left
    BY <1>7, <1>8, <1>9, <1>10, <2>2, <2>3, LessStays
  <2> QED BY <1>2, <1>10, <1>11, <1>12, <2>1, <2>4 DEF Counted
<1>14. CASE ~ Active(s)
  <2>1. session'[s].openRequests = n
    BY <1>1, <1>14 DEF Recount
  <2>2. l = 0 /\ left = 0
    <3>1. Live \in SUBSET (Live \cup posted) /\ U \ over \in SUBSET (Live \cup posted)
      OBVIOUS
    <3> QED BY <1>14, <3>1, NobodysLive
  <2> HIDE DEF n, l, a, left, ends, others
  <2>3. n = 0
    BY <1>10, <2>2
  <2> QED BY <1>12, <2>1, <2>2, <2>3 DEF Counted
<1> QED BY <1>13, <1>14

\* Closing takes the live requests of the session and no other's.
LEMMA CloseCounts ==
  ASSUME ServiceInv, CountsInv, [Next]_vars, NEW c \in Client, NEW ss \in SUBSET SessionId,
         Closes(c, ss), NEW s \in SessionId
  PROVE  Counted(s)'
<1> DEFINE Hit(r) == req[r].session \in ss
<1>1. /\ Live \in SUBSET Known /\ posted \in SUBSET Known /\ Live \cap posted = {}
      /\ Open \subseteq Known /\ ended \subseteq Known /\ Types
  BY LiveIsHeld, OpenType DEF ServiceInv, Answered
<1>2. /\ Open' = {r \in Open : r \in running \/ ~ Hit(r)}
      /\ ended' = ended \cup {r \in Known : Hit(r)}
      /\ session' = [t \in SessionId |-> IF t \in ss THEN Closed ELSE session[t]]
      /\ posted' = {r \in posted : ~ Hit(r)}
      /\ UNCHANGED <<req, running>>
  BY CloseTells
<1> HIDE DEF Hit
<1>4. Live' = {r \in Live : ~ Hit(r)}
  <2>1. Queued' \cap posted' = {} /\ running' \cap posted' = {}
    <3>1. Placed(posted, queue, running, worker)'
      BY StepKinds
    <3>2. \A k \in Core : \A r \in Elements(queue'[k]) : r \notin posted'
      BY <3>1 DEF Placed
    <3> QED BY <3>1, <3>2 DEF Placed, Queued
  <2>2. Open' = posted' \cup Queued' \cup running'
    BY DEF Open
  <2>3. Queued \cap posted = {} /\ running \cap posted = {}
    BY OpenType DEF ServiceInv
  <2> QED BY <1>1, <1>2, <2>1, <2>2, <2>3 DEF Live, Open
<1>5. OfSession(Live, s)' = Cardinality({r \in Live' : req[r].session = s})
  BY <1>2 DEF OfSession
<1>6. CASE s \in ss
  <2>1. {r \in Live' : req[r].session = s} = {}
    BY <1>4, <1>6 DEF Hit
  <2>2. OfSession(Live, s)' = 0
    BY <1>5, <2>1, FS_EmptySet
  <2>3. session'[s].openRequests = 0
    BY <1>2, <1>6 DEF Closed
  <2> QED BY <2>2, <2>3 DEF Counted
<1>7. CASE s \notin ss
  <2>1. {r \in Live' : req[r].session = s} = {r \in Live : req[r].session = s}
    BY <1>4, <1>7 DEF Hit
  <2>2. OfSession(Live, s)' = OfSession(Live, s)
    BY <1>5, <2>1 DEF OfSession
  <2>3. session'[s] = session[s]
    BY <1>2, <1>7
  <2>4. (\A r \in ended' : req'[r].session # s) => \A r \in ended : req[r].session # s
    BY <1>2
  <2> QED BY <2>2, <2>3, <2>4 DEF CountsInv, Counted
<1> QED BY <1>6, <1>7

LEMMA CountsKept ==
  ASSUME ServiceInv, CountsInv, [Next]_vars
  PROVE  CountsInv'
<1>1. /\ Live \in SUBSET Known /\ ended \subseteq Known /\ Open \subseteq Known /\ Types
  BY LiveIsHeld, OpenType DEF ServiceInv, Answered
<1>2. ASSUME NEW over, Finishes(over) PROVE CountsInv'
  BY <1>2, FinishCounts DEF CountsInv
<1>3. ASSUME NEW c \in Client, NEW ss \in SUBSET SessionId, Closes(c, ss)
      PROVE  CountsInv'
  BY <1>3, CloseCounts DEF CountsInv
\* Other steps leave the live requests and the counts as they were.
<1>4. ASSUME Live' = Live, UNCHANGED ended, \A r \in Known : req'[r] = req[r],
             \A s \in SessionId : \/ session'[s].openRequests = session[s].openRequests
                                  \/ ~ Active(s) /\ session'[s].openRequests = 0
      PROVE  CountsInv'
  <2> SUFFICES ASSUME NEW s \in SessionId PROVE Counted(s)'
    BY DEF CountsInv
  <2>1. {r \in Live : req'[r].session = s} = {r \in Live : req[r].session = s}
    BY <1>1, <1>4
  <2>2. OfSession(Live, s)' = OfSession(Live, s)
    BY <1>4, <2>1 DEF OfSession
  <2>3. (\A r \in ended' : req'[r].session # s) => \A r \in ended : req[r].session # s
    BY <1>1, <1>4
  <2>4. session'[s].openRequests = session[s].openRequests
    <3>1. CASE ~ Active(s) /\ session'[s].openRequests = 0
      <4>1. OfSession(Live, s) = 0
        BY <3>1, NobodysLive
      <4>2. session[s].openRequests \in Nat /\ session[s].openRequests <= 0
        BY <1>1, <4>1 DEF CountsInv, Counted, Types, SessionRecords
      <4> QED BY <3>1, <4>2
    <3> QED BY <1>4, <3>1
  <2> QED BY <2>2, <2>3, <2>4 DEF CountsInv, Counted
<1>5. ASSUME NEW c \in Client, PostConfig(c) PROVE CountsInv'
  <2>1. UNCHANGED <<queue, running, ended, session>>
    BY <1>5 DEF PostConfig, history
  <2>2. \A r \in Known : req'[r] = req[r]
    BY <1>5, PostMoves DEF ServiceInv
  <2>3. Live' = Live
    BY <2>1 DEF Live, Queued
  <2> QED BY <1>4, <2>1, <2>2, <2>3
<1>6. ASSUME Quiet,
             \A s \in SessionId : \/ session'[s].openRequests = session[s].openRequests
                                  \/ ~ Active(s) /\ session'[s].openRequests = 0
      PROVE  CountsInv'
  <2>1. Live' = Live /\ UNCHANGED <<ended, req>>
    BY <1>6 DEF Quiet, Live, Queued
  <2> QED BY <1>4, <1>6, <2>1
<1>7. ASSUME NEW c \in Client, OpenSession(c) PROVE CountsInv'
  <2>1. PICK t \in SessionId :
          /\ ~ Active(t)
          /\ session' = [session EXCEPT ![t] = [fd |-> c, priority |-> PriorityOf[c],
                                                openRequests |-> 0, bytesAllocated |-> 0]]
    BY <1>7 DEF OpenSession
  <2>2. \A s \in SessionId : \/ session'[s].openRequests = session[s].openRequests
                             \/ ~ Active(s) /\ session'[s].openRequests = 0
    BY <1>1, <2>1 DEF Types
  <2> QED BY <1>6, <1>7, <2>2, QuietSteps
<1>8. ASSUME NEW c \in Client, AllocMem(c) \/ FreeMem(c) PROVE CountsInv'
  <2> DEFINE m == mine[c]
  <2>1. \E bytes : session' = [session EXCEPT ![m] =
                                 Charged(session[m], session[m].openRequests, bytes)]
    BY <1>8 DEF AllocMem, FreeMem
  <2>2. m \in SessionId
    BY <1>8 DEF AllocMem, FreeMem, InSession, Owns
  <2> HIDE DEF m
  <2>3. \A s \in SessionId : session'[s].openRequests = session[s].openRequests
    BY <1>1, <2>1, <2>2 DEF Types, Charged
  <2> QED BY <1>6, <1>8, <2>3, QuietSteps
<1>9. ASSUME NEW c \in Client,
             Wait(c) \/ WaitEnds(c) \/ WaitTimesOut(c) \/ DestroyClient(c) \/ Unregister(c)
      PROVE  CountsInv'
  BY <1>6, <1>9, QuietSteps DEF Wait, WaitEnds, WaitTimesOut, DestroyClient, Unregister, service
<1>10. ASSUME NEW k \in Core, CoreFree(k) PROVE CountsInv'
  BY <1>6, <1>10, QuietSteps DEF CoreFree, service
<1>11. CASE UNCHANGED vars
  BY <1>6, <1>11, QuietSteps DEF vars, service
<1> QED BY <1>2, <1>3, <1>5, <1>7, <1>8, <1>9, <1>10, <1>11, StepKinds

\* The blocks of a session; there are finitely many bytes in all.
Held(s) == {b \in blocks : b.owner = s}

BytesInv ==
  /\ IsFiniteSet(Cells(blocks))
  /\ \A s \in SessionId : session[s].bytesAllocated = Weight(Held(s))

LEMMA HeldType ==
  ASSUME ServiceInv, BytesInv, NEW s \in SessionId
  PROVE  /\ IsFiniteSet(Cells(Held(s))) /\ Weight(Held(s)) \in Nat
         /\ \A b \in Held(s) : b.bytes \in Nat \ {0}
         /\ ~ Active(s) => Held(s) = {}
<1>1. Held(s) \in SUBSET blocks
  BY DEF Held
<1>2. \A b \in blocks : b.bytes \in Nat \ {0}
  BY BlockType DEF ServiceInv, PoolInv
<1>3. ~ Active(s) => Held(s) = {}
  BY DEF Held, ServiceInv, PoolInv, PoolSound
<1> QED BY <1>1, <1>2, <1>3, WeightOfSubset DEF BytesInv

LEMMA EmptyWeight == Weight({}) = 0 /\ IsFiniteSet(Cells({}))
<1>1. Cells({}) = {}
  BY DEF Cells
<1> QED BY <1>1, FS_EmptySet DEF Weight

\* First fit finds one place, so exactly one block is added, with a handle of its own.
LEMMA AllocBytes ==
  ASSUME ServiceInv, BytesInv, NEW c \in Client, AllocMem(c)
  PROVE  BytesInv'
<1> DEFINE m == mine[c]
<1>1. PICK n \in AllocSizes :
        /\ Allocates(blocks, n)
        /\ blocks' = Allocated(blocks, m, n, nextHandle)
        /\ session' = [session EXCEPT ![m] =
                         Charged(session[m], session[m].openRequests,
                                 session[m].bytesAllocated + n)]
  BY DEF AllocMem
<1>2. m \in SessionId /\ n \in Nat /\ session \in [SessionId -> SessionRecords]
      /\ blocks \in SUBSET Blocks(SessionId) /\ WellFormed(blocks)
  BY <1>1, CvAssumption DEF AllocMem, InSession, Owns, ServiceInv, Types, PoolInv, PoolSound
<1>3. PICK at \in FirstFit(blocks, AlignUp(n)) : TRUE
  BY <1>1 DEF Allocates
<1>4. \A other \in FirstFit(blocks, AlignUp(n)) : other = at
  <2>1. \A x \in Cursors(blocks) : x \in Nat
    BY <1>2, CursorAligned
  <2>2. ASSUME NEW other \in FirstFit(blocks, AlignUp(n)) PROVE other = at
    <3>1. other <= at /\ at <= other /\ other \in Nat /\ at \in Nat
      BY <2>1 DEF FirstFit
    <3> QED BY <3>1
  <2> QED BY <2>2
<1> DEFINE new == NewBlock(m, n, nextHandle, at)
<1>5. blocks' = blocks \cup {new}
  BY <1>1, <1>3, <1>4 DEF Allocated
<1>6. new.owner = m /\ new.bytes = n /\ new.handle = nextHandle
  BY DEF NewBlock
<1>7. new \notin blocks
  <2>1. ASSUME NEW b \in blocks PROVE b.handle # nextHandle
    BY <1>2, BlockType DEF ServiceInv, PoolInv, PoolSound
  <2> QED BY <1>6, <2>1
<1> HIDE DEF new, m
<1>8. IsFiniteSet(Cells(blocks'))
  BY <1>2, <1>5, <1>6, <1>7, WeightAdds DEF BytesInv
<1>9. ASSUME NEW s \in SessionId PROVE session'[s].bytesAllocated = Weight(Held(s)')
  <2>1. CASE s = m
    <3>1. Held(s)' = Held(s) \cup {new} /\ new \notin Held(s)
      BY <1>5, <1>6, <1>7, <2>1 DEF Held
    <3>2. Weight(Held(s)') = n + Weight(Held(s)) /\ Weight(Held(s)) \in Nat
      BY <1>2, <1>6, <3>1, HeldType, WeightAdds
    <3>3. session'[s].bytesAllocated = session[s].bytesAllocated + n
      BY <1>1, <1>2, <2>1 DEF Charged
    <3>4. session[s].bytesAllocated = Weight(Held(s))
      BY DEF BytesInv
    <3> DEFINE w == Weight(Held(s))
    <3>5. Weight(Held(s)') = n + w /\ session'[s].bytesAllocated = w + n /\ w \in Nat
      BY <3>2, <3>3, <3>4
    <3> HIDE DEF w
    <3> QED BY <1>2, <3>5
  <2>2. CASE s # m
    <3>1. Held(s)' = Held(s)
      BY <1>5, <1>6, <2>2 DEF Held
    <3>2. session'[s] = session[s]
      BY <1>1, <1>2, <2>2
    <3> QED BY <3>1, <3>2 DEF BytesInv
  <2> QED BY <2>1, <2>2
<1>10. ASSUME NEW s \in SessionId PROVE session'[s].bytesAllocated = Weight(Held(s))'
  BY <1>9 DEF Weight, Cells
<1>11. IsFiniteSet(Cells(blocks))'
  BY <1>8 DEF Cells
<1> QED BY <1>10, <1>11 DEF BytesInv

\* What is subtracted was charged: the test for less never holds back anything.
LEMMA FreeBytes ==
  ASSUME ServiceInv, BytesInv, NEW c \in Client, FreeMem(c)
  PROVE  BytesInv'
<1> DEFINE m == mine[c]
<1>1. PICK b \in blocks :
        /\ MayFree(m, b.handle)
        /\ blocks' = Released(blocks, b.handle)
        /\ session' = [session EXCEPT ![m] =
                         Charged(session[m], session[m].openRequests,
                                 IF b.bytes <= session[m].bytesAllocated
                                 THEN session[m].bytesAllocated - b.bytes ELSE 0)]
  BY DEF FreeMem
<1>2. m \in SessionId /\ session \in [SessionId -> SessionRecords]
      /\ blocks \in SUBSET Blocks(SessionId) /\ WellFormed(blocks)
  BY DEF FreeMem, InSession, Owns, ServiceInv, Types, PoolInv, PoolSound
\* The handle names one block, and that is the caller's.
<1>3. \A x \in blocks : x.handle = b.handle => x = b
  BY <1>2 DEF WellFormed
<1>4. blocks' = blocks \ {b} /\ b.owner = m /\ b.bytes \in Nat \ {0}
  <2>1. blocks' = blocks \ {b}
    BY <1>1, <1>3 DEF Released
  <2>2. b.owner = m
    BY <1>1, <1>3 DEF MayFree, Releases
  <2> QED BY <1>2, <2>1, <2>2, BlockType
<1> HIDE DEF m
<1>5. IsFiniteSet(Cells(blocks'))
  <2>1. blocks' \in SUBSET blocks
    BY <1>4
  <2> QED BY <2>1, WeightOfSubset DEF BytesInv
<1>6. ASSUME NEW s \in SessionId PROVE session'[s].bytesAllocated = Weight(Held(s)')
  <2>1. CASE s = m
    <3> DEFINE rest == Held(s)'
               w == Weight(rest)
    <3>1. /\ Held(s) = rest \cup {b} /\ b \notin rest /\ rest \in SUBSET Held(s)
      BY <1>4, <2>1 DEF Held
    <3> HIDE DEF rest
    <3>2. IsFiniteSet(Cells(rest)) /\ Weight(rest) \in Nat
      BY <3>1, HeldType, WeightOfSubset
    <3>3. Weight(Held(s)) = b.bytes + Weight(rest)
      BY <1>4, <3>1, <3>2, WeightAdds
    <3>4. session'[s].bytesAllocated = IF b.bytes <= session[s].bytesAllocated
                                       THEN session[s].bytesAllocated - b.bytes ELSE 0
      BY <1>1, <1>2, <2>1 DEF Charged
    <3>5. session[s].bytesAllocated = b.bytes + w /\ w \in Nat
      BY <3>2, <3>3 DEF BytesInv
    <3> HIDE DEF w
    <3>6. session'[s].bytesAllocated = w
      BY <1>4, <3>4, <3>5
    <3> QED BY <3>6 DEF w, rest
  <2>2. CASE s # m
    <3>1. Held(s)' = Held(s)
      BY <1>4, <2>2 DEF Held
    <3>2. session'[s] = session[s]
      BY <1>1, <1>2, <2>2
    <3> QED BY <3>1, <3>2 DEF BytesInv
  <2> QED BY <2>1, <2>2
<1>7. ASSUME NEW s \in SessionId PROVE session'[s].bytesAllocated = Weight(Held(s))'
  BY <1>6 DEF Weight, Cells
<1>8. IsFiniteSet(Cells(blocks))'
  BY <1>5 DEF Cells
<1> QED BY <1>7, <1>8 DEF BytesInv

LEMMA BytesKept ==
  ASSUME ServiceInv, BytesInv, [Next]_vars
  PROVE  BytesInv'
<1>1. Types /\ PoolInv
  BY DEF ServiceInv
\* A step that leaves the blocks alone, and the counts but for a session that is opened.
<1>2. ASSUME blocks' = blocks,
             \A s \in SessionId :
               \/ session'[s].bytesAllocated = session[s].bytesAllocated
               \/ ~ Active(s) /\ session'[s].bytesAllocated = 0
      PROVE  BytesInv'
  <2>1. ASSUME NEW s \in SessionId PROVE session'[s].bytesAllocated = Weight(Held(s))
    <3>1. ~ Active(s) => Weight(Held(s)) = 0
      BY HeldType, EmptyWeight
    <3> QED BY <1>2, <3>1 DEF BytesInv
  <2>2. ASSUME NEW s \in SessionId PROVE session'[s].bytesAllocated = Weight(Held(s))'
    BY <1>2, <2>1 DEF Weight, Cells, Held
  <2>3. IsFiniteSet(Cells(blocks))'
    BY <1>2 DEF Cells, BytesInv
  <2> QED BY <2>2, <2>3 DEF BytesInv
<1>3. ASSUME NEW over, Finishes(over) PROVE BytesInv'
  <2>1. PICK accepted : Recount(accepted, over)
    BY <1>3 DEF Finishes
  <2>2. ASSUME NEW s \in SessionId
        PROVE  session'[s].bytesAllocated = session[s].bytesAllocated
    <3>1. \/ session'[s] = session[s]
          \/ \E n : session'[s] = Charged(session[s], n, session[s].bytesAllocated)
      BY <2>1 DEF Recount
    <3>2. \A x, n, bytes : Charged(x, n, bytes).bytesAllocated = bytes
      BY DEF Charged
    <3>3. ASSUME NEW n, session'[s] = Charged(session[s], n, session[s].bytesAllocated)
          PROVE  session'[s].bytesAllocated = session[s].bytesAllocated
      BY <3>2, <3>3
    <3> QED BY <3>1, <3>3
  <2> QED BY <1>2, <1>3, <2>2 DEF Finishes
<1>4. ASSUME NEW c \in Client, NEW ss \in SUBSET SessionId, Closes(c, ss)
      PROVE  BytesInv'
  <2>1. /\ blocks' = {b \in blocks : b.owner \notin ss}
        /\ session' = [s \in SessionId |-> IF s \in ss THEN Closed ELSE session[s]]
    BY <1>4, CloseTells
  <2>2. ASSUME NEW s \in SessionId PROVE session'[s].bytesAllocated = Weight(Held(s)')
    <3>1. CASE s \in ss
      <4>1. Held(s)' = {} /\ session'[s].bytesAllocated = 0
        BY <2>1, <3>1 DEF Held, Closed
      <4> QED BY <4>1, EmptyWeight
    <3>2. CASE s \notin ss
      <4>1. Held(s)' = Held(s) /\ session'[s] = session[s]
        BY <2>1, <3>2 DEF Held
      <4> QED BY <4>1 DEF BytesInv
    <3> QED BY <3>1, <3>2
  <2>3. ASSUME NEW s \in SessionId PROVE session'[s].bytesAllocated = Weight(Held(s))'
    BY <2>2 DEF Weight, Cells
  <2>4. IsFiniteSet(Cells(blocks'))
    <3>1. blocks' \in SUBSET blocks
      BY <2>1
    <3> QED BY <3>1, WeightOfSubset DEF BytesInv
  <2>5. IsFiniteSet(Cells(blocks))'
    BY <2>4 DEF Cells
  <2> QED BY <2>3, <2>5 DEF BytesInv
<1>5. ASSUME NEW c \in Client, OpenSession(c) PROVE BytesInv'
  <2>1. PICK t \in SessionId :
          /\ ~ Active(t)
          /\ session' = [session EXCEPT ![t] = [fd |-> c, priority |-> PriorityOf[c],
                                                openRequests |-> 0, bytesAllocated |-> 0]]
    BY <1>5 DEF OpenSession
  <2>2. \A s \in SessionId : \/ session'[s].bytesAllocated = session[s].bytesAllocated
                             \/ ~ Active(s) /\ session'[s].bytesAllocated = 0
    BY <1>1, <2>1 DEF Types
  <2> QED BY <1>2, <1>5, <2>2 DEF OpenSession
<1>6. ASSUME NEW c \in Client, AllocMem(c) \/ FreeMem(c) PROVE BytesInv'
  BY <1>6, AllocBytes, FreeBytes
<1>7. ASSUME NEW c \in Client, PostConfig(c) PROVE BytesInv'
  BY <1>2, <1>7 DEF PostConfig
<1>8. ASSUME NEW c \in Client,
             Wait(c) \/ WaitEnds(c) \/ WaitTimesOut(c) \/ DestroyClient(c) \/ Unregister(c)
      PROVE  BytesInv'
  BY <1>2, <1>8 DEF Wait, WaitEnds, WaitTimesOut, DestroyClient, Unregister, service
<1>9. ASSUME NEW k \in Core, CoreFree(k) PROVE BytesInv'
  BY <1>2, <1>9 DEF CoreFree, service
<1>10. CASE UNCHANGED vars
  BY <1>2, <1>10 DEF vars, service
<1> QED BY <1>3, <1>4, <1>5, <1>6, <1>7, <1>8, <1>9, <1>10, StepKinds

\* The pool and the requests are charged for: a session's bytesAllocated is the sum of
\* the blocks it holds now, and its openRequests counts its requests that are queued or
\* running - or fewer, once the number was used before, but never more.
THEOREM AccountsAlwaysRight == Spec => []Accounts
<1>1. Init => CountsInv /\ BytesInv
  <2> SUFFICES ASSUME Init PROVE CountsInv /\ BytesInv
    OBVIOUS
  <2>1. Live = {} /\ \A s : Held(s) = {}
    BY DEF Init, Live, Queued, Elements, Held
  <2>2. \A s : OfSession(Live, s) = 0
    BY <2>1, FS_EmptySet DEF OfSession
  <2>3. \A s \in SessionId : session[s].openRequests = 0 /\ session[s].bytesAllocated = 0
    BY DEF Init, Closed
  <2>4. CountsInv
    BY <2>2, <2>3 DEF CountsInv, Counted
  <2>5. BytesInv
    BY <2>1, <2>3, EmptyWeight DEF BytesInv, Init
  <2> QED BY <2>4, <2>5
<1>2. ServiceInv /\ CountsInv /\ BytesInv /\ [Next]_vars => CountsInv' /\ BytesInv'
  BY CountsKept, BytesKept
<1>3. ServiceInv /\ CountsInv /\ BytesInv => Accounts
  <2> SUFFICES ASSUME ServiceInv, CountsInv, BytesInv, NEW s \in SessionId
               PROVE  LET live == {r \in (Queued \cup running) \ ended : req[r].session = s}
                          reused == \E r \in ended : req[r].session = s
                          held == {b \in blocks : b.owner = s}
                      IN /\ session[s].bytesAllocated = MapThenSumSet(LAMBDA b : b.bytes, held)
                         /\ session[s].openRequests <= Cardinality(live)
                         /\ ~reused => session[s].openRequests = Cardinality(live)
    BY DEF Accounts
  <2>1. MapThenSumSet(LAMBDA b : b.bytes, Held(s)) = Weight(Held(s))
    BY HeldType, SumIsWeight
  <2>2. session[s].bytesAllocated = MapThenSumSet(LAMBDA b : b.bytes, Held(s))
    BY <2>1 DEF BytesInv
  <2>3. OfSession(Live, s) = Cardinality({r \in Live : req[r].session = s})
    BY DEF OfSession
  <2>4. Counted(s)
    BY DEF CountsInv
  <2> QED BY <2>2, <2>3, <2>4 DEF Held, Live, Counted
<1> QED BY <1>1, <1>2, <1>3, AlwaysServiceInv, PTL DEF Spec
=============================================================================

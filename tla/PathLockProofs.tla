--------------------------- MODULE PathLockProofs ---------------------------
(***************************************************************************)
(* Proofs about PathLock: for any number of processes, owners and paths,   *)
(* and any clock, the script keeps the promises of LockTable as long as no *)
(* invocation dies or stalls inside the mutex.                             *)
(***************************************************************************)
EXTENDS PathLock, TLAPS

-----------------------------------------------------------------------------
(* Types                                                                   *)

\* The argument lists: their fields, and the one of an idle process.
LEMMA CallFields ==
  /\ NoCall \in CallType
  /\ \A a \in CallType : /\ a.cmd \in Commands /\ a.paths \in SUBSET Path
                         /\ a.until \in Int /\ a.busy \in Int
                         /\ a.target \in Owner \cup {NoOwner}
<1>1. NoCall \in CallType
  BY DEF NoCall, CallType, ArgLists, Commands, NoBusy
<1>2. \A a \in CallType : /\ a.cmd \in Commands /\ a.paths \in SUBSET Path
                          /\ a.until \in Int /\ a.busy \in Int
                          /\ a.target \in Owner \cup {NoOwner}
  BY DEF CallType, ArgLists
<1> QED
  BY <1>1, <1>2

\* The heartbeats.
LEMMA BeatFields ==
  /\ NoBeat \in BeatType
  /\ \A t, b \in Int : [t |-> t, busy |-> b] \in BeatType
  /\ \A h \in BeatType : h.t \in Int /\ h.busy \in Int
BY DEF NoBeat, BeatType

\* The mutex directory.
LEMMA MutexFields ==
  /\ [up |-> FALSE, born |-> Empty] \in MutexStates
  /\ \A b \in Int : [up |-> TRUE, born |-> b] \in MutexStates
  /\ \A m \in MutexStates : m.up \in BOOLEAN /\ m.born \in Int
  /\ \A m \in MutexStates, b \in Int : m.up => [m EXCEPT !.born = b] \in MutexStates
<1>1. [up |-> FALSE, born |-> Empty] \in MutexStates
  BY DEF MutexStates
<1>2. \A b \in Int : [up |-> TRUE, born |-> b] \in MutexStates
  BY DEF MutexStates
<1>3. \A m \in MutexStates : m.up \in BOOLEAN /\ m.born \in Int
  <2>1. \A m \in [up : {TRUE}, born : Int] : m.up = TRUE /\ m.born \in Int
    OBVIOUS
  <2>2. \A m \in [up : {FALSE}, born : {Empty}] : m.up = FALSE /\ m.born = Empty
    OBVIOUS
  <2>3. Empty \in Int
    BY DEF Empty
  <2> QED
    BY <2>1, <2>2, <2>3, Zenon DEF MutexStates
<1>4. ASSUME NEW m \in MutexStates, NEW b \in Int, m.up
      PROVE  [m EXCEPT !.born = b] \in MutexStates
  BY <1>4 DEF MutexStates
<1> QED
  BY <1>1, <1>2, <1>3, <1>4

\* A typed command line has an argument list of the right type.
LEMMA CallsTyped == TypeOK => Calls \subseteq CallType
<1> SUFFICES ASSUME TypeOK PROVE Calls \subseteq CallType
  OBVIOUS
<1>1. /\ PathSets \subseteq SUBSET Path
      /\ {now + s : s \in WaitSecs} \subseteq Int
      /\ BusySecs \subseteq Int
      /\ {0} \subseteq Int /\ {NoBusy} \subseteq Int
  BY ConstantsAssumption DEF ConstantsAssumption, TypeOK, NoBusy
<1>2. ASSUME NEW cmds \in SUBSET Commands, NEW pathLists \in SUBSET SUBSET Path,
             NEW untils \in SUBSET Int, NEW busy \in SUBSET Int,
             NEW targets \in SUBSET (Owner \cup {NoOwner})
      PROVE  ArgLists(cmds, pathLists, untils, busy, targets) \subseteq CallType
  BY DEF ArgLists, CallType
<1>3. /\ ArgLists({"acquire", "release", "break"}, PathSets, {0}, {NoBusy}, {NoOwner})
           \subseteq CallType
      /\ ArgLists({"wait"}, PathSets, {now + s : s \in WaitSecs}, {NoBusy}, {NoOwner})
           \subseteq CallType
      /\ ArgLists({"release-all"}, {{}}, {0}, {0}, {NoOwner}) \subseteq CallType
      /\ ArgLists({"alive"}, {{}}, {0}, BusySecs, {NoOwner}) \subseteq CallType
      /\ ArgLists({"reap", "reap --force"}, {{}}, {0}, {NoBusy}, Owner) \subseteq CallType
  BY <1>1, <1>2 DEF Commands
<1> QED
  BY <1>3 DEF Calls

\* TypeOK is inductive.
LEMMA TypeStep == TypeOK /\ [Next]_vars => TypeOK'
<1> SUFFICES ASSUME TypeOK, [Next]_vars PROVE TypeOK'
  OBVIOUS
<1>0. /\ Empty \in Int /\ Never \in Int
      /\ NoCall \in CallType /\ NoBeat \in BeatType
  BY ConstantsAssumption, CallFields, BeatFields DEF ConstantsAssumption, Empty, Never
<1> USE ConstantsAssumption, <1>0
    DEF ConstantsAssumption, TypeOK, Goto, Exit, Finish, Points, InMutex,
        disk, files, owners, locals
<1>1. CASE UNCHANGED vars
  BY <1>1 DEF vars
<1>2. CASE Tick
  BY <1>2 DEF Tick
<1>3. ASSUME NEW p \in Proc, Start(p) PROVE TypeOK'
  <2>1. PICK a \in Calls :
          /\ call' = [call EXCEPT ![p] = a]
          /\ Goto(p, CASE a.cmd \in {"reap", "reap --force"} -> "reapcheck"
                       [] a.cmd = "break" -> "mkdir"
                       [] OTHER -> "hbread")
          /\ granted' = [granted EXCEPT ![OwnerOf[p]] =
                           CASE a.cmd = "release" -> @ \ a.paths
                             [] a.cmd = "release-all" -> {}
                             [] OTHER -> @]
    BY <1>3 DEF Start
  <2>2. a \in CallType
    BY CallsTyped
  <2>3. call' \in [Proc -> CallType]
    BY <2>1, <2>2
  <2>4. pc' \in [Proc -> Points]
    BY <2>1
  <2>5. granted' \in [Owner -> SUBSET Path]
    BY <2>1, <2>2
  <2> QED
    BY <1>3, <2>3, <2>4, <2>5 DEF Start
<1>4. ASSUME NEW p \in Proc, HeartbeatRead(p) PROVE TypeOK'
  BY <1>4, CallFields, BeatFields DEF HeartbeatRead
<1>5. ASSUME NEW p \in Proc, HeartbeatWrite(p) PROVE TypeOK'
  <2>1. hb[p] \in BeatType
    OBVIOUS
  <2>2. lastSeen' \in [Owner -> Int] /\ busyUntil' \in [Owner -> Int]
    BY <1>5, <2>1, BeatFields DEF HeartbeatWrite
  <2>3. CASE call[p].cmd = "alive"
    BY <1>5, <2>2, <2>3 DEF HeartbeatWrite
  <2>4. CASE call[p].cmd # "alive"
    BY <1>5, <2>2, <2>4 DEF HeartbeatWrite
  <2> QED
    BY <2>3, <2>4
<1>6. ASSUME NEW p \in Proc, ReapCheck(p) PROVE TypeOK'
  BY <1>6 DEF ReapCheck
<1>7. ASSUME NEW p \in Proc, Mkdir(p) PROVE TypeOK'
  BY <1>7, MutexFields DEF Mkdir
<1>8. ASSUME NEW p \in Proc, Peek(p) PROVE TypeOK'
  BY <1>8, MutexFields DEF Peek
<1>9. ASSUME NEW p \in Proc, BreakMutex(p) PROVE TypeOK'
  BY <1>9, MutexFields DEF BreakMutex
<1>10. ASSUME NEW p \in Proc, Retry(p) PROVE TypeOK'
  BY <1>10 DEF Retry
<1>11. ASSUME NEW p \in Proc, Stamp(p) PROVE TypeOK'
  BY <1>11, MutexFields DEF Stamp
<1>12. ASSUME NEW p \in Proc, Unlock(p) PROVE TypeOK'
  BY <1>12, MutexFields DEF Unlock
<1>13. ASSUME NEW p \in Proc, Scan(p) PROVE TypeOK'
  <2>1. pc[p] = "scan" /\ call[p].paths \in SUBSET Path
    BY <1>13, CallFields DEF Scan
  <2>2. /\ pc' \in [Proc -> Points] /\ todo' \in [Proc -> SUBSET Path]
        /\ rc' \in [Proc -> 0..3]
    <3>1. CASE ConflictsFor(call[p].paths, OwnerOf[p]) = {}
      BY <1>13, <2>1, <3>1 DEF Scan
    <3>2. CASE ConflictsFor(call[p].paths, OwnerOf[p]) # {}
      BY <1>13, <2>1, <3>2 DEF Scan
    <3> QED
      BY <3>1, <3>2
  <2> QED
    BY <1>13, <2>2 DEF Scan
<1>14. ASSUME NEW p \in Proc, Write(p) PROVE TypeOK'
  BY <1>14, CallFields DEF Write
<1>15. ASSUME NEW p \in Proc, Glob(p) PROVE TypeOK'
  BY <1>15, CallFields DEF Glob
<1>16. ASSUME NEW p \in Proc, Remove(p) PROVE TypeOK'
  BY <1>16 DEF Remove
<1>17. ASSUME NEW p \in Proc, RemoveEnd(p) PROVE TypeOK'
  BY <1>17 DEF RemoveEnd
<1>18. ASSUME NEW p \in Proc, Kill(p) PROVE TypeOK'
  BY <1>18 DEF Kill
<1> QED
  BY <1>1, <1>2, <1>3, <1>4, <1>5, <1>6, <1>7, <1>8, <1>9, <1>10, <1>11, <1>12,
     <1>13, <1>14, <1>15, <1>16, <1>17, <1>18 DEF Next, Step

\* The variables always have their types.
THEOREM Typing == Spec => []TypeOK
<1>1. Init => TypeOK
  BY ConstantsAssumption, CallFields, BeatFields, MutexFields
     DEF ConstantsAssumption, Init, TypeOK, Points, InMutex, Empty, Never
<1> QED
  BY <1>1, TypeStep, PTL DEF Spec

-----------------------------------------------------------------------------
(* The mutex                                                               *)

\* MutexInv is inductive when nobody dies or stalls inside the mutex.
LEMMA MutexStep ==
  ASSUME Reliable, TypeOK, TypeOK', MutexInv, [Next]_vars
  PROVE  MutexInv'
<1> USE DEF MutexInv, MutexExclusion, TypeOK, Goto, Exit, Finish, InMutex,
            disk, files, owners, locals
\* A step of p outside the mutex.
<1>0. ASSUME NEW p \in Proc, NEW l \in Points \ InMutex,
             pc[p] \notin InMutex, pc' = [pc EXCEPT ![p] = l],
             l = "judge" => peeked'[p] = mutex.born /\ mutex.up,
             \A q \in Proc \ {p} : peeked'[q] = peeked[q],
             UNCHANGED <<mutex, now>>
      PROVE  MutexInv'
  BY <1>0
\* A step of p that stays inside.
<1>i. ASSUME NEW p \in Proc, NEW l \in InMutex,
             pc[p] \in InMutex, pc' = [pc EXCEPT ![p] = l],
             UNCHANGED <<mutex, now, peeked>>
      PROVE  MutexInv'
  BY <1>i
<1>1. CASE UNCHANGED vars
  BY <1>1 DEF vars
<1>2. CASE Tick
  <2>1. Prompt /\ now' = now + 1 /\ UNCHANGED <<mutex, pc, peeked>>
    BY <1>2, Zenon DEF Tick, Reliable
  <2> QED
    BY <2>1, MutexFields, ConstantsAssumption DEF Prompt, ConstantsAssumption
<1>3. ASSUME NEW p \in Proc, Start(p) PROVE MutexInv'
  <2>1. PICK l \in {"reapcheck", "mkdir", "hbread"} : pc' = [pc EXCEPT ![p] = l]
    BY <1>3 DEF Start
  <2> QED
    BY <1>3, <2>1, <1>0 DEF Start, Points
<1>4. ASSUME NEW p \in Proc, HeartbeatRead(p) PROVE MutexInv'
  BY <1>4, <1>0 DEF HeartbeatRead, Points
<1>5. ASSUME NEW p \in Proc, HeartbeatWrite(p) PROVE MutexInv'
  BY <1>5, <1>0 DEF HeartbeatWrite, Points
<1>6. ASSUME NEW p \in Proc, ReapCheck(p) PROVE MutexInv'
  BY <1>6, <1>0 DEF ReapCheck, Points
<1>7. ASSUME NEW p \in Proc, Mkdir(p) PROVE MutexInv'
  BY <1>7 DEF Mkdir
<1>8. ASSUME NEW p \in Proc, Peek(p) PROVE MutexInv'
  BY <1>8, <1>0 DEF Peek, Points
<1>9. ASSUME NEW p \in Proc, BreakMutex(p) PROVE FALSE
  BY <1>9, ConstantsAssumption DEF BreakMutex, MutexStale, ConstantsAssumption
<1>10. ASSUME NEW p \in Proc, Retry(p) PROVE MutexInv'
  BY <1>10, <1>0 DEF Retry, Points
<1>11. ASSUME NEW p \in Proc, Stamp(p) PROVE MutexInv'
  BY <1>11, ConstantsAssumption DEF Stamp, ConstantsAssumption
<1>12. ASSUME NEW p \in Proc, Unlock(p) PROVE MutexInv'
  BY <1>12 DEF Unlock
<1>13. ASSUME NEW p \in Proc, Scan(p) PROVE MutexInv'
  BY <1>13, <1>i DEF Scan
<1>14. ASSUME NEW p \in Proc, Write(p) PROVE MutexInv'
  BY <1>14, <1>i DEF Write
<1>15. ASSUME NEW p \in Proc, Glob(p) PROVE MutexInv'
  BY <1>15, <1>i DEF Glob
<1>16. ASSUME NEW p \in Proc, Remove(p) PROVE MutexInv'
  BY <1>16 DEF Remove
<1>17. ASSUME NEW p \in Proc, RemoveEnd(p) PROVE MutexInv'
  BY <1>17, <1>i DEF RemoveEnd
<1>18. ASSUME NEW p \in Proc, Kill(p) PROVE MutexInv'
  BY <1>18, <1>0 DEF Kill, Reliable, Points
<1> QED
  BY <1>1, <1>2, <1>3, <1>4, <1>5, <1>6, <1>7, <1>8, <1>9, <1>10, <1>11, <1>12,
     <1>13, <1>14, <1>15, <1>16, <1>17, <1>18 DEF Next, Step

-----------------------------------------------------------------------------
(* The lock files                                                          *)

\* What the files say, and what the writer relies on.
FileFacts ==
  /\ FilesInv
  /\ ScanStillValid
  /\ SuccessMeansHeld
  /\ RemovalsInv

\* Overlap does not depend on the order, and a path overlaps itself.
LEMMA ConflictSym ==
  /\ \A a, b : Conflict(a, b) <=> Conflict(b, a)
  /\ \A a : Conflict(a, a)
BY DEF Conflict, Table!Conflict, Table!Covers

\* Inv: a step that leaves held/ alone, and takes p nowhere inside the mutex.
LEMMA QuietStep ==
  ASSUME TypeOK, FileFacts, NEW p \in Proc, UNCHANGED holder,
         \A o \in Owner : granted'[o] \subseteq granted[o],
         pc'[p] \notin {"write", "unlock", "remove"},
         \A q \in Proc \ {p} : /\ pc'[q] = pc[q] /\ call'[q] = call[q]
                               /\ todo'[q] = todo[q] /\ rc'[q] = rc[q]
  PROVE  FileFacts'
<1>1. FilesInv'
  BY DEF FileFacts, FilesInv
<1>2. ScanStillValid'
  BY DEF FileFacts, ScanStillValid, ConflictsFor, Acquires
<1>3. SuccessMeansHeld'
  BY DEF FileFacts, SuccessMeansHeld
<1>4. RemovalsInv'
  BY DEF RemovalsInv, ByName, FileFacts, Acquires
<1> QED
  BY <1>1, <1>2, <1>3, <1>4 DEF FileFacts

\* Inv: a step of the invocation inside the mutex, seen from the others.
LEMMA AloneInside ==
  ASSUME MutexInv, NEW p \in Proc, pc[p] \in InMutex, NEW q \in Proc \ {p}
  PROVE  pc[q] \notin InMutex
BY DEF MutexInv, MutexExclusion

\* FileFacts is inductive where the mutex excludes.
LEMMA FilesStep ==
  ASSUME TypeOK, TypeOK', MutexInv, FileFacts, [Next]_vars
  PROVE  FileFacts'
<1> USE DEF Goto, disk, files, owners, locals
<1>1. CASE UNCHANGED vars
  BY <1>1 DEF vars, FileFacts, FilesInv, RemovalsInv, ByName, ScanStillValid,
              SuccessMeansHeld, ConflictsFor, Acquires
<1>2. CASE Tick
  BY <1>2 DEF Tick, FileFacts, FilesInv, RemovalsInv, ByName, ScanStillValid,
              SuccessMeansHeld, ConflictsFor, Acquires
<1>3. ASSUME NEW p \in Proc, Start(p) PROVE FileFacts'
  <2>1. pc'[p] \notin {"write", "unlock", "remove"}
    BY <1>3 DEF Start, TypeOK
  <2>2. \A o \in Owner : granted'[o] \subseteq granted[o]
    <3>1. PICK a \in Calls :
            granted' = [granted EXCEPT ![OwnerOf[p]] =
                          CASE a.cmd = "release" -> @ \ a.paths
                            [] a.cmd = "release-all" -> {}
                            [] OTHER -> @]
      BY <1>3 DEF Start
    <3> QED
      BY <3>1 DEF TypeOK
  <2> QED
    BY <1>3, <2>1, <2>2, QuietStep DEF Start, TypeOK
<1>4. ASSUME NEW p \in Proc, HeartbeatRead(p) PROVE FileFacts'
  BY <1>4, QuietStep DEF HeartbeatRead, TypeOK
<1>5. ASSUME NEW p \in Proc, HeartbeatWrite(p) PROVE FileFacts'
  BY <1>5, QuietStep DEF HeartbeatWrite, Exit, TypeOK
<1>6. ASSUME NEW p \in Proc, ReapCheck(p) PROVE FileFacts'
  BY <1>6, QuietStep DEF ReapCheck, Exit, TypeOK
<1>7. ASSUME NEW p \in Proc, Mkdir(p) PROVE FileFacts'
  BY <1>7, QuietStep DEF Mkdir, TypeOK
<1>8. ASSUME NEW p \in Proc, Peek(p) PROVE FileFacts'
  BY <1>8, QuietStep DEF Peek, TypeOK
<1>9. ASSUME NEW p \in Proc, BreakMutex(p) PROVE FileFacts'
  BY <1>9, QuietStep DEF BreakMutex, TypeOK
<1>10. ASSUME NEW p \in Proc, Retry(p) PROVE FileFacts'
  BY <1>10, QuietStep DEF Retry, Finish, Exit, TypeOK
<1>11. ASSUME NEW p \in Proc, Stamp(p) PROVE FileFacts'
  BY <1>11, QuietStep DEF Stamp, TypeOK
<1>12. ASSUME NEW p \in Proc, Unlock(p) PROVE FileFacts'
  BY <1>12, QuietStep DEF Unlock, Finish, Exit, TypeOK
<1>13. ASSUME NEW p \in Proc, Scan(p) PROVE FileFacts'
  <2>1. CASE ConflictsFor(call[p].paths, OwnerOf[p]) = {}
    <3>1. /\ pc' = [pc EXCEPT ![p] = "write"]
          /\ todo' = [todo EXCEPT ![p] = call[p].paths]
          /\ UNCHANGED <<holder, granted, call>>
          /\ \A q \in Proc \ {p} : rc'[q] = rc[q]
      BY <1>13, <2>1 DEF Scan, TypeOK
    <3>2. Acquires(p)
      BY <1>13 DEF Scan, Acquires
    <3>3. FilesInv'
      BY <3>1 DEF FileFacts, FilesInv
    <3>4. ScanStillValid'
      BY <2>1, <3>1, <3>2 DEF FileFacts, ScanStillValid, ConflictsFor, Acquires, TypeOK
    <3>5. SuccessMeansHeld'
      BY <3>1 DEF FileFacts, SuccessMeansHeld, TypeOK
    <3>6. RemovalsInv'
      BY <3>1 DEF RemovalsInv, ByName, FileFacts, Acquires, TypeOK
    <3> QED
      BY <3>3, <3>4, <3>5, <3>6 DEF FileFacts
  <2>2. CASE ConflictsFor(call[p].paths, OwnerOf[p]) # {}
    <3>1. /\ pc' = [pc EXCEPT ![p] = "unlock"]
          /\ rc'[p] # 0
          /\ UNCHANGED <<holder, granted, call, todo>>
          /\ \A q \in Proc \ {p} : rc'[q] = rc[q]
      BY <1>13, <2>2 DEF Scan, TypeOK
    <3>2. FilesInv'
      BY <3>1 DEF FileFacts, FilesInv
    <3>3. ScanStillValid'
      BY <3>1 DEF FileFacts, ScanStillValid, ConflictsFor, Acquires, TypeOK
    <3>4. SuccessMeansHeld'
      BY <3>1 DEF FileFacts, SuccessMeansHeld, TypeOK
    <3>5. RemovalsInv'
      BY <3>1 DEF RemovalsInv, ByName, FileFacts, Acquires, TypeOK
    <3> QED
      BY <3>2, <3>3, <3>4, <3>5 DEF FileFacts
  <2> QED
    BY <2>1, <2>2
<1>14. ASSUME NEW p \in Proc, Write(p) PROVE FileFacts'
  <2>0. /\ pc[p] = "write" /\ Acquires(p)
        /\ ConflictsFor(call[p].paths, OwnerOf[p]) = {}
        /\ todo[p] \subseteq call[p].paths
        /\ \A c \in call[p].paths \ todo[p] : holder[c] = OwnerOf[p]
    BY <1>14 DEF Write, FileFacts, ScanStillValid
  <2>1. PICK c \in todo[p] :
          /\ holder' = [holder EXCEPT ![c] = OwnerOf[p]]
          /\ todo' = [todo EXCEPT ![p] = @ \ {c}]
          /\ IF todo[p] = {c}
             THEN /\ granted' = [granted EXCEPT ![OwnerOf[p]] = @ \cup call[p].paths]
                  /\ pc' = [pc EXCEPT ![p] = "unlock"]
             ELSE UNCHANGED <<granted, pc>>
    BY <1>14 DEF Write
  <2>2. UNCHANGED <<call, rc>>
    BY <1>14 DEF Write
  <2>3. /\ OwnerOf[p] \in Owner /\ OwnerOf[p] # NoOwner
        /\ call[p].paths \subseteq Path /\ c \in Path
    BY <2>0, CallFields, ConstantsAssumption DEF TypeOK, ConstantsAssumption
  <2>4. \A q \in Proc \ {p} : pc[q] \notin InMutex
    BY <2>0, AloneInside DEF InMutex
  \* A path of the call is free, or the caller's own.
  <2>5. \A d \in Path : Conflict(c, d) => holder[d] \in {NoOwner, OwnerOf[p]}
    BY <2>0, <2>3, ConflictSym DEF ConflictsFor
  <2>6. FilesInv'
    <3>1. (\A a, b \in Path :
             Conflict(a, b) /\ holder[a] # NoOwner /\ holder[b] # NoOwner
             => holder[a] = holder[b])'
      BY <2>1, <2>3, <2>5, ConflictSym DEF FileFacts, FilesInv, TypeOK
    <3>2. ASSUME NEW o \in Owner, NEW d \in granted'[o] PROVE holder'[d] = o
      <4>1. CASE d \in granted[o]
        <5>1. holder[d] = o /\ d \in Path
          BY <4>1 DEF FileFacts, FilesInv, TypeOK
        <5>2. d = c => o = OwnerOf[p]
          BY <5>1, <2>5, ConflictSym, ConstantsAssumption DEF ConstantsAssumption
        <5> QED
          BY <5>1, <5>2, <2>1, <2>3 DEF TypeOK
      <4>2. CASE d \notin granted[o]
        <5>1. todo[p] = {c} /\ o = OwnerOf[p] /\ d \in call[p].paths
          BY <4>2, <3>2, <2>1, <2>3 DEF TypeOK
        <5> QED
          BY <5>1, <2>0, <2>1, <2>3 DEF TypeOK
      <4> QED
        BY <4>1, <4>2
    <3> QED
      BY <3>1, <3>2 DEF FilesInv
  <2>7. ScanStillValid'
    <3>1. SUFFICES ASSUME NEW q \in Proc, pc'[q] = "write"
                   PROVE  /\ Acquires(q)'
                          /\ ConflictsFor(call[q].paths, OwnerOf[q])' = {}
                          /\ todo'[q] \subseteq call'[q].paths
                          /\ \A d \in call'[q].paths \ todo'[q] : holder'[d] = OwnerOf[q]
      BY DEF ScanStillValid
    <3>2. q = p
      BY <3>1, <2>1, <2>4 DEF TypeOK, InMutex
    <3>3. ConflictsFor(call[p].paths, OwnerOf[p])' = {}
      BY <2>0, <2>1, <2>2, <2>3 DEF ConflictsFor, TypeOK
    <3> QED
      BY <3>2, <3>3, <2>0, <2>1, <2>2, <2>3 DEF Acquires, TypeOK
  <2>8. SuccessMeansHeld'
    <3>1. SUFFICES ASSUME NEW q \in Proc, pc'[q] = "unlock", NEW d \in call'[q].paths
                   PROVE  holder'[d] = OwnerOf[q]
      BY DEF SuccessMeansHeld
    <3>2. q = p /\ todo[p] = {c}
      BY <3>1, <2>0, <2>1, <2>4 DEF TypeOK, InMutex
    <3> QED
      BY <3>1, <3>2, <2>0, <2>1, <2>2, <2>3 DEF TypeOK
  <2>9. RemovalsInv'
    BY <2>1, <2>2 DEF RemovalsInv, ByName, FileFacts, Acquires, TypeOK
  <2> QED
    BY <2>6, <2>7, <2>8, <2>9 DEF FileFacts
<1>15. ASSUME NEW p \in Proc, Glob(p) PROVE FileFacts'
  <2>1. /\ pc' = [pc EXCEPT ![p] = "remove"]
        /\ ~Acquires(p)
        /\ ByName(p) => todo'[p] = call[p].paths
        /\ UNCHANGED <<holder, granted, call, rc>>
        /\ \A q \in Proc \ {p} : todo'[q] = todo[q]
    BY <1>15 DEF Glob, Acquires, TypeOK
  <2>2. FilesInv'
    BY <2>1 DEF FileFacts, FilesInv
  <2>3. ScanStillValid'
    BY <2>1 DEF FileFacts, ScanStillValid, ConflictsFor, Acquires, TypeOK
  <2>4. SuccessMeansHeld'
    BY <2>1 DEF FileFacts, SuccessMeansHeld, TypeOK
  <2>5. RemovalsInv'
    BY <2>1 DEF RemovalsInv, ByName, FileFacts, Acquires, TypeOK
  <2> QED
    BY <2>2, <2>3, <2>4, <2>5 DEF FileFacts
<1>16. ASSUME NEW p \in Proc, Remove(p) PROVE FileFacts'
  <2>1. PICK c \in todo[p] :
          IF holder[c] # NoOwner /\ MayRemove(p, holder[c])
          THEN /\ holder' = [holder EXCEPT ![c] = NoOwner]
               /\ granted' = [granted EXCEPT ![holder[c]] = @ \ {c}]
          ELSE UNCHANGED <<holder, granted>>
    BY <1>16 DEF Remove
  <2>2. /\ pc[p] = "remove" /\ UNCHANGED <<pc, call, rc>>
        /\ \A q \in Proc : todo'[q] \subseteq todo[q]
    BY <1>16 DEF Remove, TypeOK
  <2>3. \A q \in Proc \ {p} : pc[q] \notin InMutex
    BY <2>2, AloneInside DEF InMutex
  <2>4. FilesInv'
    <3>1. CASE UNCHANGED <<holder, granted>>
      BY <3>1 DEF FileFacts, FilesInv
    <3>2. CASE /\ holder[c] # NoOwner
               /\ holder' = [holder EXCEPT ![c] = NoOwner]
               /\ granted' = [granted EXCEPT ![holder[c]] = @ \ {c}]
      <4>1. c \in Path /\ holder[c] \in Owner
        BY <3>2 DEF TypeOK
      <4>2. ASSUME NEW o \in Owner, NEW d \in granted'[o] PROVE holder'[d] = o
        <5>1. d \in granted[o] /\ holder[d] = o /\ d \in Path
          BY <3>2, <4>1 DEF FileFacts, FilesInv, TypeOK
        <5>2. d # c
          BY <3>2, <4>1, <5>1 DEF TypeOK
        <5> QED
          BY <3>2, <4>1, <5>1, <5>2 DEF TypeOK
      <4>3. \A a \in Path : holder'[a] \in {holder[a], NoOwner}
        BY <3>2, <4>1 DEF TypeOK
      <4> QED
        BY <4>2, <4>3 DEF FileFacts, FilesInv
    <3> QED
      BY <2>1, <3>1, <3>2
  <2>5. ScanStillValid' /\ SuccessMeansHeld'
    BY <2>2, <2>3 DEF ScanStillValid, SuccessMeansHeld, InMutex
  <2>6. RemovalsInv'
    BY <2>2 DEF RemovalsInv, ByName, FileFacts, Acquires
  <2> QED
    BY <2>4, <2>5, <2>6 DEF FileFacts
<1>17. ASSUME NEW p \in Proc, RemoveEnd(p) PROVE FileFacts'
  <2>1. /\ pc' = [pc EXCEPT ![p] = "unlock"]
        /\ ~Acquires(p)
        /\ UNCHANGED <<holder, granted, call, todo>>
        /\ \A q \in Proc \ {p} : rc'[q] = rc[q]
    BY <1>17 DEF RemoveEnd, FileFacts, RemovalsInv, Acquires, TypeOK
  <2>2. FilesInv'
    BY <2>1 DEF FileFacts, FilesInv
  <2>3. ScanStillValid'
    BY <2>1 DEF FileFacts, ScanStillValid, ConflictsFor, Acquires, TypeOK
  <2>4. SuccessMeansHeld'
    BY <2>1 DEF FileFacts, SuccessMeansHeld, Acquires, TypeOK
  <2>5. RemovalsInv'
    BY <2>1 DEF RemovalsInv, ByName, FileFacts, Acquires, TypeOK
  <2> QED
    BY <2>2, <2>3, <2>4, <2>5 DEF FileFacts
<1>18. ASSUME NEW p \in Proc, Kill(p) PROVE FileFacts'
  BY <1>18, QuietStep DEF Kill, Exit, TypeOK
<1> QED
  BY <1>1, <1>2, <1>3, <1>4, <1>5, <1>6, <1>7, <1>8, <1>9, <1>10, <1>11, <1>12,
     <1>13, <1>14, <1>15, <1>16, <1>17, <1>18 DEF Next, Step

-----------------------------------------------------------------------------
(* The theorems                                                            *)

\* The initial state satisfies the invariant.
LEMMA InitIInv == Init => IInv
<1> SUFFICES ASSUME Init PROVE IInv
  OBVIOUS
<1>1. TypeOK
  BY ConstantsAssumption, CallFields, BeatFields, MutexFields
     DEF ConstantsAssumption, Init, TypeOK, Points, InMutex, Empty, Never
<1>2. MutexInv
  BY DEF Init, MutexInv, MutexExclusion, InMutex
<1>3. FilesInv
  BY DEF Init, FilesInv
<1> QED
  BY <1>1, <1>2, <1>3 DEF Init, IInv, ScanStillValid, SuccessMeansHeld, RemovalsInv

\* The invariant is inductive as long as no invocation dies or stalls in the mutex.
LEMMA StepIInv == ASSUME Reliable PROVE IInv /\ [Next]_vars => IInv'
<1> SUFFICES ASSUME IInv, [Next]_vars PROVE IInv'
  OBVIOUS
<1>1. TypeOK'
  BY TypeStep DEF IInv
<1>2. MutexInv'
  BY <1>1, MutexStep DEF IInv
<1>3. FileFacts'
  BY <1>1, FilesStep DEF IInv, FileFacts
<1> QED
  BY <1>1, <1>2, <1>3 DEF IInv, FileFacts

\* A reliable run satisfies IInv: among others, the conflict check of do_acquire is
\* still valid when the lock files are written.
THEOREM Invariant == ASSUME Reliable PROVE Spec => []IInv
BY InitIInv, StepIInv, PTL DEF Spec

\* One invocation at a time is inside the mutex.
THEOREM MutualExclusion == ASSUME Reliable PROVE Spec => []MutexExclusion
<1>1. IInv => MutexExclusion
  BY DEF IInv, MutexInv
<1> QED
  BY <1>1, Invariant, PTL

\* Two owners are never given overlapping paths.
THEOREM ExclusiveLocks == ASSUME Reliable PROVE Spec => []Exclusive
<1>1. IInv => Exclusive
  <2> SUFFICES ASSUME IInv, NEW o \in Owner, NEW x \in Owner, o # x,
                      NEW c \in granted[o], NEW d \in granted[x], Conflict(c, d)
               PROVE  FALSE
    BY DEF Exclusive, Table!Exclusive, Conflict
  <2>1. holder[c] = o /\ holder[d] = x /\ c \in Path /\ d \in Path
    BY DEF IInv, FilesInv, TypeOK
  <2> QED
    BY <2>1, ConstantsAssumption DEF IInv, FilesInv, ConstantsAssumption
<1> QED
  BY <1>1, Invariant, PTL

\* A call that reports success has a lock file on each of its paths.
THEOREM SuccessIsHeld == ASSUME Reliable PROVE Spec => []SuccessMeansHeld
<1>1. IInv => SuccessMeansHeld
  BY DEF IInv
<1> QED
  BY <1>1, Invariant, PTL

\* Every step of the script is a Take or a Drop of the table, or leaves it alone.
LEMMA TableStep == IInv /\ [Next]_vars => [Table!Next]_granted
<1> SUFFICES ASSUME IInv, [Next]_vars PROVE [Table!Next]_granted
  OBVIOUS
<1> USE DEF Goto, disk, files, owners, locals
<1>1. CASE UNCHANGED vars
  BY <1>1 DEF vars
<1>2. CASE Tick
  BY <1>2 DEF Tick
<1>3. ASSUME NEW p \in Proc, Start(p) PROVE [Table!Next]_granted
  <2>1. PICK a \in Calls :
          granted' = [granted EXCEPT ![OwnerOf[p]] =
                        CASE a.cmd = "release" -> @ \ a.paths
                          [] a.cmd = "release-all" -> {}
                          [] OTHER -> @]
    BY <1>3 DEF Start
  <2>2. OwnerOf[p] \in Owner /\ granted[OwnerOf[p]] \in SUBSET Path /\ a.paths \in SUBSET Path
    BY CallsTyped, CallFields, ConstantsAssumption DEF IInv, TypeOK, ConstantsAssumption
  <2>3. CASE a.cmd = "release"
    BY <2>1, <2>2, <2>3 DEF Table!Next, Table!Drop
  <2>4. CASE a.cmd = "release-all"
    <3>1. granted' = [granted EXCEPT ![OwnerOf[p]] = @ \ granted[OwnerOf[p]]]
      BY <2>1, <2>4
    <3> QED
      BY <3>1, <2>2 DEF Table!Next, Table!Drop
  <2>5. CASE a.cmd \notin {"release", "release-all"}
    BY <2>1, <2>5 DEF IInv, TypeOK
  <2> QED
    BY <2>3, <2>4, <2>5
<1>4. ASSUME NEW p \in Proc, Write(p) PROVE [Table!Next]_granted
  <2>0. /\ ConflictsFor(call[p].paths, OwnerOf[p]) = {}
        /\ OwnerOf[p] \in Owner
        /\ call[p].paths \in SUBSET Path
    BY <1>4, CallFields, ConstantsAssumption
       DEF Write, IInv, ScanStillValid, TypeOK, ConstantsAssumption
  <2>1. \/ UNCHANGED granted
        \/ granted' = [granted EXCEPT ![OwnerOf[p]] = @ \cup call[p].paths]
    BY <1>4 DEF Write
  <2>2. ASSUME NEW x \in Owner \ {OwnerOf[p]}, NEW q \in granted[x],
               NEW c \in call[p].paths
        PROVE  ~Table!Conflict(q, c)
    <3>1. q \in Path /\ holder[q] = x /\ x # NoOwner
      BY ConstantsAssumption DEF IInv, FilesInv, TypeOK, ConstantsAssumption
    <3> QED
      BY <2>0, <3>1 DEF ConflictsFor, Conflict
  <2>3. CASE granted' = [granted EXCEPT ![OwnerOf[p]] = @ \cup call[p].paths]
    <3>1. Table!Take(OwnerOf[p], call[p].paths)
      BY <2>2, <2>3 DEF Table!Take
    <3> QED
      BY <3>1, <2>0 DEF Table!Next
  <2> QED
    BY <2>1, <2>3
<1>5. ASSUME NEW p \in Proc, Remove(p) PROVE [Table!Next]_granted
  <2>1. PICK c \in todo[p] :
          IF holder[c] # NoOwner /\ MayRemove(p, holder[c])
          THEN granted' = [granted EXCEPT ![holder[c]] = @ \ {c}]
          ELSE UNCHANGED granted
    BY <1>5 DEF Remove
  <2>2. c \in Path /\ holder[c] \in Owner \cup {NoOwner}
    BY DEF IInv, TypeOK
  <2>3. CASE holder[c] # NoOwner /\ MayRemove(p, holder[c])
    <3>1. Table!Drop(holder[c], {c})
      BY <2>1, <2>3 DEF Table!Drop
    <3> QED
      BY <3>1, <2>2, <2>3 DEF Table!Next
  <2> QED
    BY <2>1, <2>3
<1>6. ASSUME NEW p \in Proc, ~Write(p), ~Remove(p), Step(p) \/ Kill(p)
      PROVE  UNCHANGED granted
  BY <1>6 DEF Step, Kill, HeartbeatRead, HeartbeatWrite, ReapCheck, Mkdir, Peek,
              BreakMutex, Retry, Stamp, Unlock, Scan, Glob, RemoveEnd
<1> QED
  BY <1>1, <1>2, <1>3, <1>4, <1>5, <1>6 DEF Next

\* The script implements the lock table: what a call is given is taken in one step,
\* whole, and only when no other owner holds an overlapping path.
THEOREM Implementation == ASSUME Reliable PROVE Spec => ImplementsTable
<1>1. Init => Table!Init
  BY DEF Init, Table!Init
<1> QED
  BY <1>1, Invariant, TableStep, PTL DEF Spec, Table!Spec, ImplementsTable

\* Nobody's lock file is overwritten or removed but by its owner's release, or by a
\* reap of that owner or a break of that path.
THEOREM OnlyOnPurpose == ASSUME Reliable PROVE Spec => RemovedOnPurpose
<1>1. ASSUME IInv, [Next]_vars, NEW c \in Path, holder[c] # NoOwner, holder'[c] # holder[c]
      PROVE  \E p \in Proc :
               /\ pc[p] = "remove"
               /\ \/ call[p].cmd \in {"release", "release-all"} /\ holder[c] = OwnerOf[p]
                  \/ call[p].cmd \in {"reap", "reap --force"} /\ holder[c] = call[p].target
                  \/ call[p].cmd = "break" /\ c \in call[p].paths
  <2>1. ASSUME NEW p \in Proc, Write(p) PROVE FALSE
    <3>1. /\ ConflictsFor(call[p].paths, OwnerOf[p]) = {}
          /\ todo[p] \subseteq call[p].paths
      <4>1. ScanStillValid
        BY <1>1 DEF IInv
      <4> QED
        BY <2>1, <4>1 DEF Write, ScanStillValid
    <3>2. c \in todo[p] /\ holder'[c] = OwnerOf[p]
      BY <2>1, <1>1 DEF Write, IInv, TypeOK
    <3> QED
      BY <3>1, <3>2, <1>1, ConflictSym DEF ConflictsFor
  <2>2. ASSUME NEW p \in Proc, Remove(p), UNCHANGED call
        PROVE  /\ pc[p] = "remove"
               /\ \/ call[p].cmd \in {"release", "release-all"} /\ holder[c] = OwnerOf[p]
                  \/ call[p].cmd \in {"reap", "reap --force"} /\ holder[c] = call[p].target
                  \/ call[p].cmd = "break" /\ c \in call[p].paths
    <3>1. pc[p] = "remove" /\ c \in todo[p] /\ MayRemove(p, holder[c])
      BY <2>2, <1>1 DEF Remove, IInv, TypeOK, files
    <3>2. RemovalsInv
      BY <1>1 DEF IInv
    <3>3. call[p].cmd = "break" => c \in call[p].paths
      BY <3>1, <3>2 DEF RemovalsInv, ByName
    <3> QED
      BY <3>1, <3>3 DEF MayRemove
  <2>3. \/ \E p \in Proc : Write(p)
        \/ \E p \in Proc : Remove(p) /\ UNCHANGED call
    BY <1>1 DEF Next, Step, vars, disk, files, owners, Tick, Start, Kill, HeartbeatRead,
                HeartbeatWrite,
                ReapCheck, Mkdir, Peek, BreakMutex, Retry, Stamp, Unlock, Scan, Glob,
                Remove, RemoveEnd
  <2> QED
    BY <2>1, <2>2, <2>3
<1>2. IInv /\ [Next]_vars =>
        [\A c \in Path :
           holder[c] # NoOwner /\ holder'[c] # holder[c] =>
             \E p \in Proc :
               /\ pc[p] = "remove"
               /\ \/ call[p].cmd \in {"release", "release-all"} /\ holder[c] = OwnerOf[p]
                  \/ call[p].cmd \in {"reap", "reap --force"} /\ holder[c] = call[p].target
                  \/ call[p].cmd = "break" /\ c \in call[p].paths]_vars
  BY <1>1
<1> QED
  BY <1>2, Invariant, PTL DEF Spec, RemovedOnPurpose

-----------------------------------------------------------------------------
(* Busy windows                                                            *)

\* A heartbeat that declares nothing writes back the busy window that is there.
BeatInv ==
  \A p \in Proc :
    pc[p] = "hbwrite" /\ call[p].busy = NoBusy => hb[p].busy = busyUntil[OwnerOf[p]]

\* BeatInv is inductive when no owner has two calls running at the same time.
LEMMA BeatStep ==
  ASSUME OneCallPerOwner, TypeOK, TypeOK', BeatInv, [Next]_vars
  PROVE  BeatInv'
<1> USE DEF Goto, disk, owners, locals
<1>1. ASSUME NEW p \in Proc, HeartbeatWrite(p) PROVE BeatInv'
  <2>1. /\ pc'[p] # "hbwrite"
        /\ \A q \in Proc \ {p} : pc'[q] = pc[q] /\ call'[q] = call[q] /\ hb'[q] = hb[q]
    BY <1>1 DEF HeartbeatWrite, Exit, TypeOK
  <2>2. \A q \in Proc \ {p} : busyUntil'[OwnerOf[q]] = busyUntil[OwnerOf[q]]
    BY <1>1, ConstantsAssumption
       DEF HeartbeatWrite, OneCallPerOwner, TypeOK, ConstantsAssumption
  <2> QED
    BY <2>1, <2>2 DEF BeatInv
<1>2. ASSUME NEW p \in Proc, HeartbeatRead(p) PROVE BeatInv'
  BY <1>2 DEF HeartbeatRead, BeatInv, TypeOK
<1>3. ASSUME UNCHANGED <<busyUntil, hb>>, NEW p \in Proc, pc'[p] # "hbwrite",
             \A q \in Proc \ {p} : pc'[q] = pc[q] /\ call'[q] = call[q]
      PROVE  BeatInv'
  BY <1>3 DEF BeatInv
<1>4. ASSUME NEW p \in Proc, Start(p) PROVE BeatInv'
  BY <1>4, <1>3 DEF Start, TypeOK
<1>5. ASSUME NEW p \in Proc, Step(p), ~HeartbeatRead(p), ~HeartbeatWrite(p)
      PROVE  BeatInv'
  <2>1. UNCHANGED <<busyUntil, hb>>
    BY <1>5 DEF Step, ReapCheck, Mkdir, Peek, BreakMutex, Retry, Stamp, Unlock, Scan,
                Write, Glob, Remove, RemoveEnd
  <2>2. pc'[p] # "hbwrite" /\ \A q \in Proc \ {p} : pc'[q] = pc[q] /\ call'[q] = call[q]
    BY <1>5 DEF Step, ReapCheck, Mkdir, Peek, BreakMutex, Retry, Stamp, Unlock, Scan,
                Write, Glob, Remove, RemoveEnd, Finish, Exit, TypeOK
  <2> QED
    BY <2>1, <2>2, <1>3
<1>6. ASSUME NEW p \in Proc, Kill(p) PROVE BeatInv'
  BY <1>6 DEF Kill, Exit, BeatInv, TypeOK
<1>7. CASE Tick \/ UNCHANGED vars
  BY <1>7 DEF Tick, vars, BeatInv
<1> QED
  BY <1>1, <1>2, <1>4, <1>5, <1>6, <1>7 DEF Next

\* A declared busy window is never taken back by a heartbeat that declares nothing,
\* when no owner has two calls running at the same time.
THEOREM WindowKept == ASSUME OneCallPerOwner PROVE Spec => BusyWindowKept
<1>1. Init => BeatInv
  BY DEF Init, BeatInv
<1>2. TypeOK /\ TypeOK' /\ BeatInv /\ [Next]_vars => BeatInv'
  BY BeatStep
<1>3. ASSUME TypeOK, BeatInv, [Next]_vars, NEW o \in Owner, busyUntil'[o] < busyUntil[o]
      PROVE  \E p \in Proc : OwnerOf[p] = o /\ pc[p] = "hbwrite" /\ call[p].busy # NoBusy
  <2>1. busyUntil' # busyUntil
    BY <1>3 DEF TypeOK
  <2>2. PICK p \in Proc : HeartbeatWrite(p)
    BY <2>1, <1>3 DEF Next, Step, vars, disk, files, owners, Tick, Start, Kill,
         HeartbeatRead, ReapCheck, Mkdir, Peek, BreakMutex, Retry, Stamp, Unlock, Scan,
         Write, Glob, Remove, RemoveEnd
  <2>3. /\ pc[p] = "hbwrite"
        /\ busyUntil' = [busyUntil EXCEPT ![OwnerOf[p]] = hb[p].busy]
    BY <2>2 DEF HeartbeatWrite
  <2>4. OwnerOf[p] = o /\ hb[p].busy < busyUntil[o]
    BY <2>3, <1>3 DEF TypeOK
  <2> QED
    BY <2>3, <2>4, <1>3 DEF BeatInv, TypeOK
<1>4. TypeOK /\ BeatInv /\ [Next]_vars =>
        [\A o \in Owner :
           busyUntil'[o] < busyUntil[o] =>
             \E p \in Proc :
               OwnerOf[p] = o /\ pc[p] = "hbwrite" /\ call[p].busy # NoBusy]_vars
  BY <1>3
<1> QED
  BY <1>1, <1>2, <1>4, Typing, PTL DEF Spec, BusyWindowKept

-----------------------------------------------------------------------------
(* All or nothing                                                          *)

\* The argument lists of any two calls are the same or disjoint, and nobody breaks a
\* lock: then only a call that is still running leaves a part of a list locked.
WholeLists ==
  /\ "break" \notin Cmds
  /\ \A P, Q \in PathSets : P # Q => P \cap Q = {}

Whole(P, o) == (\E c \in P : holder[c] = o) => \A c \in P : holder[c] = o

\* An invocation that is writing, or removing, the locks of `o` on the list.
Taking(p, P, o) == pc[p] = "write" /\ OwnerOf[p] = o /\ call[p].paths = P
Giving(p, P, o) == pc[p] = "remove" /\ MayRemove(p, o) /\ (ByName(p) => call[p].paths = P)

\* What the command lines name.
NamesInv ==
  \A p \in Proc : /\ call[p].cmd # "break"
                  /\ call[p].cmd \in {"acquire", "wait", "release"} => call[p].paths \in PathSets

\* What the removing loop has passed holds no lock it may remove any more.
LoopInv ==
  \A p \in Proc : pc[p] = "remove" =>
    \A c \in Path, o \in Owner :
      holder[c] = o /\ MayRemove(p, o) /\ (ByName(p) => c \in call[p].paths) => c \in todo[p]

PartsInv ==
  \A P \in PathSets, o \in Owner :
    Whole(P, o) \/ \E p \in Proc : Taking(p, P, o) \/ Giving(p, P, o)

Wholeness == NamesInv /\ LoopInv /\ PartsInv

\* Whom and what an invocation may remove depends on its command line alone.
LEMMA SameRights ==
  ASSUME NEW q, NEW o, call'[q] = call[q]
  PROVE  (MayRemove(q, o)' <=> MayRemove(q, o)) /\ (ByName(q)' <=> ByName(q))
<1> DEFINE May(a) == \/ a.cmd \in {"release", "release-all"} /\ o = OwnerOf[q]
                     \/ a.cmd \in {"reap", "reap --force"} /\ o = a.target
                     \/ a.cmd = "break"
           Named(a) == a.cmd \in {"release", "break"}
<1>1. (MayRemove(q, o) <=> May(call[q])) /\ (ByName(q) <=> Named(call[q]))
  BY DEF MayRemove, ByName
<1>2. (MayRemove(q, o)' <=> May(call'[q])) /\ (ByName(q)' <=> Named(call'[q]))
  BY DEF MayRemove, ByName
<1> HIDE DEF May, Named
<1> QED BY <1>1, <1>2

\* An invocation whose point and command line do not change goes on as before.
LEMMA SameLoop ==
  ASSUME NEW q, NEW P, NEW o,
         pc'[q] = pc[q], call'[q] = call[q]
  PROVE  (Taking(q, P, o)' <=> Taking(q, P, o)) /\ (Giving(q, P, o)' <=> Giving(q, P, o))
<1>1. Taking(q, P, o)' <=> Taking(q, P, o)
  BY DEF Taking
<1>2. Giving(q, P, o)' <=> Giving(q, P, o)
  BY SameRights DEF Giving
<1> QED BY <1>1, <1>2

\* Only Start writes a command line, and it writes one of Calls.
LEMMA NamesStep ==
  ASSUME WholeLists, TypeOK, NamesInv, [Next]_vars
  PROVE  NamesInv'
<1> USE DEF Goto, disk, files, owners, locals
<1>1. NoCall.cmd = "alive"
  BY DEF NoCall
<1>2. ASSUME NEW p \in Proc, \A q \in Proc \ {p} : call'[q] = call[q],
             call'[p] = call[p] \/ call'[p] = NoCall
      PROVE  NamesInv'
  BY <1>1, <1>2 DEF NamesInv
<1>3. ASSUME NEW a \in Calls
      PROVE  /\ a.cmd # "break"
             /\ a.cmd \in {"acquire", "wait", "release"} => a.paths \in PathSets
  <2>1. ASSUME NEW cmds, NEW lists, NEW untils, NEW busy, NEW targets,
               a \in ArgLists(cmds, lists, untils, busy, targets)
        PROVE  a.cmd \in cmds /\ a.paths \in lists
    BY <2>1 DEF ArgLists
  <2>2. a.cmd \in Cmds /\ a \in
          ArgLists({"acquire", "release", "break"}, PathSets, {0}, {NoBusy}, {NoOwner})
            \cup ArgLists({"wait"}, PathSets, {now + s : s \in WaitSecs}, {NoBusy}, {NoOwner})
            \cup ArgLists({"release-all"}, {{}}, {0}, {0}, {NoOwner})
            \cup ArgLists({"alive"}, {{}}, {0}, BusySecs, {NoOwner})
            \cup ArgLists({"reap", "reap --force"}, {{}}, {0}, {NoBusy}, Owner)
    BY Zenon DEF Calls
  <2>3. a.paths \in PathSets \/ a.cmd \in {"release-all"} \/ a.cmd \in {"alive"}
          \/ a.cmd \in {"reap", "reap --force"}
    BY <2>1, <2>2, Zenon
  <2>4. a.cmd # "break"
    BY <2>2, Zenon DEF WholeLists
  <2>5. CASE a.cmd = "release-all" \/ a.cmd = "alive"
    BY <2>4, <2>5
  <2>6. CASE a.cmd = "reap" \/ a.cmd = "reap --force"
    BY <2>4, <2>6, Zenon
  <2>7. a.paths \in PathSets \/ a.cmd = "release-all" \/ a.cmd = "alive"
          \/ a.cmd = "reap" \/ a.cmd = "reap --force"
    BY <2>3, Zenon
  <2>8. CASE a.paths \in PathSets
    BY <2>4, <2>8, Zenon
  <2> QED BY <2>5, <2>6, <2>7, <2>8, Zenon
<1>4. ASSUME NEW p \in Proc, Start(p) PROVE NamesInv'
  <2>1. PICK a \in Calls : call' = [call EXCEPT ![p] = a]
    BY <1>4, Zenon DEF Start
  <2>2. call'[p] = a /\ \A q \in Proc \ {p} : call'[q] = call[q]
    BY <2>1 DEF TypeOK
  <2> QED BY <1>3, <2>2 DEF NamesInv
<1>5. ASSUME NEW p \in Proc, Step(p) \/ Kill(p) PROVE NamesInv'
  <2>1. call' = call \/ call' = [call EXCEPT ![p] = NoCall]
    BY <1>5 DEF Step, Kill, HeartbeatRead, HeartbeatWrite, ReapCheck, Mkdir, Peek, BreakMutex,
                Retry, Stamp, Unlock, Scan, Write, Glob, Remove, RemoveEnd, Finish, Exit
  <2> QED BY <1>2, <2>1 DEF TypeOK
<1>6. CASE Tick \/ UNCHANGED vars
  BY <1>6 DEF Tick, vars, NamesInv
<1> QED BY <1>4, <1>5, <1>6 DEF Next

\* A step that leaves held/ alone, of an invocation that neither writes nor removes
\* before it, and does not remove after it.
LEMMA PartsUntouched ==
  ASSUME LoopInv, PartsInv, NEW p \in Proc, UNCHANGED holder,
         pc[p] \notin {"write", "remove"}, pc'[p] # "remove",
         \A q \in Proc \ {p} : pc'[q] = pc[q] /\ call'[q] = call[q] /\ todo'[q] = todo[q]
  PROVE  LoopInv' /\ PartsInv'
<1>1. LoopInv'
  <2> SUFFICES ASSUME NEW q \in Proc, pc'[q] = "remove", NEW c \in Path, NEW o \in Owner,
                      holder'[c] = o, MayRemove(q, o)', ByName(q)' => c \in call'[q].paths
               PROVE  c \in todo'[q]
    BY DEF LoopInv
  <2>1. q # p /\ pc[q] = "remove" /\ call'[q] = call[q] /\ todo'[q] = todo[q]
    OBVIOUS
  <2>2. MayRemove(q, o) /\ (ByName(q) => c \in call[q].paths)
    BY <2>1, SameRights
  <2> QED BY <2>1, <2>2 DEF LoopInv
<1>2. ASSUME NEW P \in PathSets, NEW o \in Owner
      PROVE  Whole(P, o)' \/ \E q \in Proc : Taking(q, P, o)' \/ Giving(q, P, o)'
  <2>1. Whole(P, o)' <=> Whole(P, o)
    BY DEF Whole
  <2>2. ASSUME NEW q \in Proc, Taking(q, P, o) \/ Giving(q, P, o)
        PROVE  Taking(q, P, o)' \/ Giving(q, P, o)'
    <3>1. pc'[q] = pc[q] /\ call'[q] = call[q]
      BY <2>2 DEF Taking, Giving
    <3> QED BY <2>2, <3>1, SameLoop
  <2> QED BY <2>1, <2>2 DEF PartsInv
<1> QED BY <1>1, <1>2 DEF PartsInv

\* One lock file is written: of the list in hand, or the last of it.
LEMMA WriteKeepsParts ==
  ASSUME WholeLists, IInv, Wholeness, NEW p \in Proc, Write(p)
  PROVE  LoopInv' /\ PartsInv'
<1> DEFINE me == OwnerOf[p]
           L == call[p].paths
<1>1. PICK c \in todo[p] :
        /\ holder' = [holder EXCEPT ![c] = me]
        /\ todo' = [todo EXCEPT ![p] = todo[p] \ {c}]
        /\ pc' = IF todo[p] = {c} THEN [pc EXCEPT ![p] = "unlock"] ELSE pc
  BY DEF Write, Goto
<1>2. /\ pc[p] = "write" /\ call' = call /\ Acquires(p)
      /\ ConflictsFor(L, me) = {} /\ todo[p] \subseteq L
      /\ \A d \in L \ todo[p] : holder[d] = me
  BY DEF Write, IInv, ScanStillValid
<1>3. /\ L \in PathSets /\ L \subseteq Path /\ c \in L /\ c \in Path /\ me \in Owner
      /\ me # NoOwner /\ holder \in [Path -> Owner \cup {NoOwner}] /\ pc \in [Proc -> Points]
  BY <1>2, ConstantsAssumption
     DEF Acquires, Wholeness, NamesInv, IInv, TypeOK, ConstantsAssumption
<1>4. \A q \in Proc \ {p} : pc[q] \notin InMutex
  BY <1>2, AloneInside DEF InMutex, IInv
<1>5. \A d \in L : holder[d] \in {NoOwner, me}
  BY <1>2, <1>3, ConflictSym DEF ConflictsFor
<1> HIDE DEF me, L
<1>6. \A q \in Proc : pc'[q] # "remove"
  BY <1>1, <1>2, <1>3, <1>4 DEF InMutex
<1>7. LoopInv'
  BY <1>6 DEF LoopInv
<1>8. ASSUME NEW P \in PathSets, NEW o \in Owner
      PROVE  Whole(P, o)' \/ \E q \in Proc : Taking(q, P, o)' \/ Giving(q, P, o)'
  <2>1. CASE P # L
    <3>1. c \notin P
      BY <1>3, <2>1 DEF WholeLists
    <3>2. ASSUME NEW q \in Proc PROVE ~ Taking(q, P, o) /\ ~ Giving(q, P, o)
      BY <1>2, <1>4, <2>1 DEF Taking, Giving, InMutex, L
    <3>3. Whole(P, o)
      BY <3>2 DEF Wholeness, PartsInv
    <3>4. \A d \in P : holder'[d] = holder[d]
      BY <1>1, <1>3, <3>1, ConstantsAssumption DEF ConstantsAssumption
    <3> QED BY <3>3, <3>4 DEF Whole
  <2>2. CASE P = L /\ o = me
    <3>1. CASE todo[p] = {c}
      <4>1. \A d \in P : holder'[d] = o
        <5>1. \A d \in L \ {c} : holder[d] = me
          BY <1>2, <3>1 DEF L, me
        <5> QED BY <1>1, <1>3, <2>2, <5>1
      <4> QED BY <4>1 DEF Whole
    <3>2. CASE todo[p] # {c}
      <4>1. pc'[p] = "write"
        BY <1>1, <1>2, <3>2
      <4>2. Taking(p, P, o)'
        BY <1>2, <2>2, <4>1 DEF Taking, L, me
      <4> QED BY <4>2
    <3> QED BY <3>1, <3>2
  <2>3. CASE P = L /\ o # me
    <3>1. \A d \in P : holder'[d] # o
      BY <1>1, <1>3, <1>5, <2>3, ConstantsAssumption DEF ConstantsAssumption
    <3> QED BY <3>1 DEF Whole
  <2> QED BY <2>1, <2>2, <2>3
<1> QED BY <1>7, <1>8 DEF PartsInv

\* The loop goes over the lock files there are, or over the named paths.
LEMMA GlobKeepsParts ==
  ASSUME IInv, Wholeness, NEW p \in Proc, Glob(p)
  PROVE  LoopInv' /\ PartsInv'
<1>1. /\ pc[p] = "scan" /\ pc' = [pc EXCEPT ![p] = "remove"]
      /\ todo' = [todo EXCEPT ![p] = IF ByName(p) THEN call[p].paths
                                     ELSE {c \in Path : holder[c] # NoOwner}]
      /\ UNCHANGED <<holder, call>>
  BY DEF Glob, Goto, disk, files
<1>2. /\ pc \in [Proc -> Points] /\ todo \in [Proc -> SUBSET Path]
      /\ \A q \in Proc \ {p} : pc[q] \notin InMutex
  BY <1>1, AloneInside DEF IInv, TypeOK, InMutex
<1>3. LoopInv'
  <2> SUFFICES ASSUME NEW q \in Proc, pc'[q] = "remove", NEW c \in Path, NEW o \in Owner,
                      holder'[c] = o, MayRemove(q, o)', ByName(q)' => c \in call'[q].paths
               PROVE  c \in todo'[q]
    BY DEF LoopInv
  <2>1. q = p /\ holder[c] # NoOwner
    BY <1>1, <1>2, ConstantsAssumption DEF InMutex, ConstantsAssumption
  <2>2. ByName(p) => c \in call[p].paths
    BY <1>1, <2>1, SameRights
  <2> QED BY <1>1, <1>2, <2>1, <2>2
<1>4. ASSUME NEW P \in PathSets, NEW o \in Owner
      PROVE  Whole(P, o)'
  <2>1. ASSUME NEW q \in Proc PROVE ~ Taking(q, P, o) /\ ~ Giving(q, P, o)
    BY <1>1, <1>2 DEF Taking, Giving, InMutex
  <2>2. Whole(P, o)
    BY <2>1 DEF Wholeness, PartsInv
  <2> QED BY <1>1, <2>2 DEF Whole
<1> QED BY <1>3, <1>4 DEF PartsInv

\* One lock file is looked at, and removed if the command may remove it.
LEMMA RemoveKeepsParts ==
  ASSUME WholeLists, IInv, Wholeness, NEW p \in Proc, Remove(p)
  PROVE  LoopInv' /\ PartsInv'
<1>1. PICK c \in todo[p] :
        /\ todo' = [todo EXCEPT ![p] = todo[p] \ {c}]
        /\ IF holder[c] # NoOwner /\ MayRemove(p, holder[c])
           THEN holder' = [holder EXCEPT ![c] = NoOwner] ELSE holder' = holder
  BY DEF Remove, files
<1>2. pc[p] = "remove" /\ UNCHANGED <<pc, call>>
  BY DEF Remove
<1>3. /\ pc \in [Proc -> Points] /\ todo \in [Proc -> SUBSET Path] /\ c \in Path
      /\ holder \in [Path -> Owner \cup {NoOwner}]
      /\ \A q \in Proc \ {p} : pc[q] \notin InMutex
      /\ ByName(p) => call[p].cmd = "release" /\ call[p].paths \in PathSets /\ c \in call[p].paths
  BY <1>1, <1>2, AloneInside
     DEF IInv, TypeOK, InMutex, Wholeness, NamesInv, RemovalsInv, ByName
<1>4. ASSUME NEW q \in Proc, NEW o
      PROVE  (MayRemove(q, o)' <=> MayRemove(q, o)) /\ (ByName(q)' <=> ByName(q))
  BY <1>2, SameRights
<1>5. LoopInv'
  <2> SUFFICES ASSUME NEW q \in Proc, pc'[q] = "remove", NEW d \in Path, NEW o \in Owner,
                      holder'[d] = o, MayRemove(q, o)', ByName(q)' => d \in call'[q].paths
               PROVE  d \in todo'[q]
    BY DEF LoopInv
  <2>0. MayRemove(q, o) /\ (ByName(q) => d \in call[q].paths) /\ o # NoOwner
    BY <1>2, <1>4, ConstantsAssumption DEF ConstantsAssumption
  <2>1. q = p
    BY <1>2, <1>3 DEF InMutex
  <2>2. holder'[d] = holder[d] /\ d # c
    <3>1. CASE holder[c] # NoOwner /\ MayRemove(p, holder[c])
      BY <1>1, <1>3, <2>0, <3>1
    <3>2. CASE ~ (holder[c] # NoOwner /\ MayRemove(p, holder[c]))
      BY <1>1, <1>3, <2>0, <2>1, <3>2
    <3> QED BY <3>1, <3>2
  <2>3. d \in todo[p]
    BY <1>2, <2>0, <2>1, <2>2 DEF Wholeness, LoopInv
  <2> QED BY <1>1, <1>3, <2>1, <2>2, <2>3
<1>6. ASSUME NEW P \in PathSets, NEW o \in Owner
      PROVE  Whole(P, o)' \/ \E q \in Proc : Taking(q, P, o)' \/ Giving(q, P, o)'
  <2>1. CASE Giving(p, P, o)
    <3>1. Giving(p, P, o)'
      BY <1>2, <1>4, <2>1 DEF Giving
    <3> QED BY <3>1
  <2>2. CASE ~ Giving(p, P, o)
    <3>1. ASSUME NEW q \in Proc PROVE ~ Taking(q, P, o) /\ ~ Giving(q, P, o)
      BY <1>2, <1>3, <2>2 DEF Taking, Giving, InMutex
    <3>2. Whole(P, o)
      BY <3>1 DEF Wholeness, PartsInv
    <3>3. \A d \in P : holder'[d] = o <=> holder[d] = o
      <4>1. P \subseteq Path /\ o # NoOwner
        BY ConstantsAssumption DEF ConstantsAssumption
      <4>2. CASE ~ MayRemove(p, o)
        BY <1>1, <1>3, <4>1, <4>2
      <4>3. CASE MayRemove(p, o)
        <5>1. ByName(p) /\ call[p].paths # P
          BY <1>2, <2>2, <4>3 DEF Giving
        <5>2. c \notin P
          BY <1>3, <5>1 DEF WholeLists
        <5> QED BY <1>1, <1>3, <4>1, <5>2
      <4> QED BY <4>2, <4>3
    <3> QED BY <3>2, <3>3 DEF Whole
  <2> QED BY <2>1, <2>2
<1> QED BY <1>5, <1>6 DEF PartsInv

\* The loop is over: nothing it may remove is left.
LEMMA RemoveEndKeepsParts ==
  ASSUME IInv, Wholeness, NEW p \in Proc, RemoveEnd(p)
  PROVE  LoopInv' /\ PartsInv'
<1>1. /\ pc[p] = "remove" /\ todo[p] = {} /\ pc' = [pc EXCEPT ![p] = "unlock"]
      /\ UNCHANGED <<holder, call, todo>>
  BY DEF RemoveEnd, Goto, disk, files
<1>2. /\ pc \in [Proc -> Points]
      /\ \A q \in Proc \ {p} : pc[q] \notin InMutex
  BY <1>1, AloneInside DEF IInv, TypeOK, InMutex
<1>3. LoopInv'
  BY <1>1, <1>2 DEF LoopInv, InMutex
<1>4. ASSUME NEW P \in PathSets, NEW o \in Owner PROVE Whole(P, o)'
  <2>1. CASE Giving(p, P, o)
    <3>1. P \subseteq Path /\ o # NoOwner
      BY ConstantsAssumption DEF ConstantsAssumption
    <3>2. \A d \in P : holder[d] # o
      BY <1>1, <2>1, <3>1 DEF Wholeness, LoopInv, Giving
    <3> QED BY <1>1, <3>2 DEF Whole
  <2>2. CASE ~ Giving(p, P, o)
    <3>1. ASSUME NEW q \in Proc PROVE ~ Taking(q, P, o) /\ ~ Giving(q, P, o)
      BY <1>1, <1>2, <2>2 DEF Taking, Giving, InMutex
    <3>2. Whole(P, o)
      BY <3>1 DEF Wholeness, PartsInv
    <3> QED BY <1>1, <3>2 DEF Whole
  <2> QED BY <2>1, <2>2
<1> QED BY <1>3, <1>4 DEF PartsInv

\* Wholeness is inductive together with IInv.
LEMMA WholenessStep ==
  ASSUME Reliable, WholeLists, IInv, Wholeness, [Next]_vars
  PROVE  Wholeness'
<1> USE DEF Goto, disk, files, owners, locals
<1>1. NamesInv' /\ TypeOK
  BY NamesStep DEF IInv, Wholeness
<1>2. ASSUME NEW p \in Proc, UNCHANGED holder,
             pc[p] \notin {"write", "remove"}, pc'[p] # "remove",
             \A q \in Proc \ {p} : pc'[q] = pc[q] /\ call'[q] = call[q] /\ todo'[q] = todo[q]
      PROVE  Wholeness'
  BY <1>1, <1>2, PartsUntouched DEF Wholeness
<1>3. ASSUME NEW p \in Proc, Start(p) PROVE Wholeness'
  <2>1. PICK a \in Calls :
          pc' = [pc EXCEPT ![p] = CASE a.cmd \in {"reap", "reap --force"} -> "reapcheck"
                                    [] a.cmd = "break" -> "mkdir"
                                    [] OTHER -> "hbread"]
    BY <1>3, Zenon DEF Start
  <2>5. pc'[p] # "remove" /\ \A q \in Proc \ {p} : pc'[q] = pc[q]
    <3> DEFINE reaps == a.cmd \in {"reap", "reap --force"}
               breaks == a.cmd = "break"
               l == CASE reaps -> "reapcheck" [] breaks -> "mkdir" [] OTHER -> "hbread"
    <3>1. pc' = [pc EXCEPT ![p] = l]
      BY <2>1, Zenon
    <3> HIDE DEF reaps, breaks
    <3>2. l # "remove"
      OBVIOUS
    <3> HIDE DEF l
    <3> QED BY <1>1, <3>1, <3>2 DEF TypeOK
  <2>2. PICK b : call' = [call EXCEPT ![p] = b]
    BY <1>3, Zenon DEF Start
  <2>3. pc[p] = "idle" /\ UNCHANGED <<holder, todo>>
    BY <1>3, Zenon DEF Start
  <2>4. pc \in [Proc -> Points] /\ call \in [Proc -> CallType]
    BY <1>1 DEF TypeOK
  <2>6. \A q \in Proc \ {p} : call'[q] = call[q] /\ todo'[q] = todo[q]
    BY <2>2, <2>3, <2>4
  <2> QED BY <1>2, <2>3, <2>5, <2>6
<1>4. ASSUME NEW p \in Proc, HeartbeatRead(p) \/ HeartbeatWrite(p) \/ ReapCheck(p)
      PROVE  Wholeness'
  BY <1>1, <1>2, <1>4 DEF HeartbeatRead, HeartbeatWrite, ReapCheck, Exit, TypeOK
<1>5. ASSUME NEW p \in Proc, Mkdir(p) \/ Peek(p) \/ BreakMutex(p) \/ Retry(p)
      PROVE  Wholeness'
  BY <1>1, <1>2, <1>5 DEF Mkdir, Peek, BreakMutex, Retry, Finish, Exit, TypeOK
<1>6. ASSUME NEW p \in Proc, Stamp(p) \/ Unlock(p) \/ Scan(p) PROVE Wholeness'
  BY <1>1, <1>2, <1>6 DEF Stamp, Unlock, Scan, Finish, Exit, TypeOK
<1>7. ASSUME NEW p \in Proc, Kill(p) PROVE Wholeness'
  <2>1. pc[p] \notin {"write", "remove"}
    BY <1>7 DEF Kill, Reliable, InMutex
  <2> QED BY <1>1, <1>2, <1>7, <2>1 DEF Kill, Exit, TypeOK
<1>8. ASSUME NEW p \in Proc, Write(p) \/ Glob(p) \/ Remove(p) \/ RemoveEnd(p)
      PROVE  Wholeness'
  BY <1>1, <1>8, WriteKeepsParts, GlobKeepsParts, RemoveKeepsParts, RemoveEndKeepsParts
     DEF Wholeness
<1>9. CASE Tick \/ UNCHANGED vars
  <2>1. UNCHANGED <<holder, pc, call, todo>>
    BY <1>9 DEF Tick, vars
  <2>2. LoopInv'
    <3> SUFFICES ASSUME NEW q \in Proc, pc'[q] = "remove", NEW c \in Path, NEW o \in Owner,
                        holder'[c] = o, MayRemove(q, o)', ByName(q)' => c \in call'[q].paths
                 PROVE  c \in todo'[q]
      BY DEF LoopInv
    <3>1. MayRemove(q, o) /\ (ByName(q) => c \in call[q].paths)
      BY <2>1, SameRights
    <3> QED BY <2>1, <3>1 DEF Wholeness, LoopInv
  <2>3. PartsInv'
    <3>1. ASSUME NEW P \in PathSets, NEW o \in Owner, NEW q \in Proc
          PROVE  /\ Taking(q, P, o)' <=> Taking(q, P, o)
                 /\ Giving(q, P, o)' <=> Giving(q, P, o)
      BY <2>1, SameLoop
    <3>2. ASSUME NEW P \in PathSets, NEW o \in Owner
          PROVE  Whole(P, o)' \/ \E q \in Proc : Taking(q, P, o)' \/ Giving(q, P, o)'
      <4>1. Whole(P, o)' <=> Whole(P, o)
        BY <2>1 DEF Whole
      <4> QED BY <3>1, <4>1 DEF Wholeness, PartsInv
    <3> QED BY <3>2 DEF PartsInv
  <2> QED BY <1>1, <2>2, <2>3 DEF Wholeness
<1> QED BY <1>3, <1>4, <1>5, <1>6, <1>7, <1>8, <1>9 DEF Next, Step

\* Between critical sections the locks of an owner make up whole calls, when no
\* invocation dies or stalls in the mutex, the argument lists do not overlap in part and
\* nobody uses break.
THEOREM AllOrNothingHolds ==
  ASSUME Reliable, WholeLists PROVE Spec => []AllOrNothing
<1>1. Init => Wholeness
  <2> SUFFICES ASSUME Init PROVE Wholeness
    OBVIOUS
  <2>1. NamesInv /\ LoopInv
    BY DEF Init, NamesInv, LoopInv, NoCall
  <2>2. ASSUME NEW P \in PathSets, NEW o \in Owner PROVE Whole(P, o)
    <3>1. P \subseteq Path /\ o # NoOwner
      BY ConstantsAssumption DEF ConstantsAssumption
    <3> QED BY <3>1 DEF Init, Whole
  <2> QED BY <2>1, <2>2 DEF Wholeness, PartsInv
<1>2. IInv /\ Wholeness /\ [Next]_vars => Wholeness'
  BY WholenessStep
<1>3. IInv /\ Wholeness => AllOrNothing
  <2> SUFFICES ASSUME IInv, Wholeness, ~mutex.up, NEW P \in PathSets, NEW o \in Owner
               PROVE  Whole(P, o)
    BY DEF AllOrNothing, Whole
  <2>1. ASSUME NEW p \in Proc, pc[p] \in InMutex PROVE FALSE
    <3>1. MutexInv
      BY DEF IInv
    <3> QED BY <2>1, <3>1, Zenon DEF MutexInv
  <2> QED BY <2>1 DEF Wholeness, PartsInv, Taking, Giving, InMutex
<1> QED
  BY <1>1, <1>2, <1>3, Invariant, PTL DEF Spec
=============================================================================

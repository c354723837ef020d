------------------------ MODULE VhpcLaunchCrashProofs ------------------------
(***************************************************************************)
(* What a daemon that dies anywhere, any number of times, still keeps.     *)
(***************************************************************************)
EXTENDS VhpcLaunchCrash, VhpcLaunchProofs

-----------------------------------------------------------------------------
(* A step is one of the system without crashes, or a crash *)

LEMMA CrashStepSplit ==
    ASSUME [CrashNext]_crashVars
    PROVE  \/ Crash
           \/ [Next]_vars /\ UNCHANGED <<doubled, deserted, crashes>>
BY DEF CrashNext, crashVars, pastVars

\* After a crash the daemon has no line in hand and no loop under way.
LEMMA CrashHands ==
    ASSUME Crash, NEW j \in Jobs
    PROVE  /\ \A points : ~InHand(j, points)'
           /\ \A loop : ~Unread(j, loop)'
<1>1. Line(j) # NoLine /\ EmptyFile[Line(j)] = 0
  BY LineFacts, EmptyFileFacts
<1>. QED BY <1>1 DEF Crash, InHand, Unread, HasLine

LEMMA CrashTypeStep == TypeInv /\ Crash => TypeInv'
<1> SUFFICES ASSUME TypeInv, Crash PROVE TypeInv'
  OBVIOUS
<1>1. TypeOK'
  <2>1. EmptyFile \in Files
    BY EmptyFileFacts
  <2>2. script' \in [Jobs -> [Runs -> Stages]]
    BY DEF Crash, Stages
  <2>3. {vmlock', pendinglock'} \subseteq {"free", "plugin", "daemon"}
    BY DEF Crash, FreedBy, TypeInv, TypeOK
  <2>. QED BY <2>1, <2>2, <2>3, BoundAssumption
     DEF Crash, TypeInv, TypeOK, DaemonPoints, fileVars, cloudVars, slurmVars
<1>2. AtWork'
  BY DEF Crash, TypeInv, AtWork, Handling, slurmVars
<1>3. WholeLines'
  BY DEF Crash, TypeInv, WholeLines, WholeHands, SpawningHands, SpawnedLoop,
     PendingLoop, HasLine, fileVars
<1>. QED BY <1>1, <1>2, <1>3 DEF TypeInv

LEMMA CrashLockStep == TypeInv /\ LockInv /\ Crash => LockInv'
BY DEF TypeInv, TypeOK, LockInv, Crash, FreedBy, VmLockPoints, SpawnedLoop,
   SpawningLoop, SpawningHands, QueueLoop, PendingLoop

LEMMA CrashNodeStep == NodeInv /\ Crash => NodeInv'
<1> SUFFICES ASSUME NodeInv, Crash PROVE NodeInv'
  OBVIOUS
<1>1. ASSUME NEW j \in Jobs PROVE NodeKnown(j)'
  <2>1. UNCHANGED <<spawned, status, conf, job, nodes>>
    BY DEF Crash, fileVars, cloudVars, slurmVars
  <2>2. \A r \in Runs : ~At(j, r, "ready")'
    BY DEF Crash, At
  <2>. QED BY <2>1, <2>2, CrashHands DEF NodeInv, NodeKnown, HasLine, Released
<1>. QED BY <1>1 DEF NodeInv, Crash, cloudVars, slurmVars

-----------------------------------------------------------------------------
(* The jobs that no crash has doubled *)

LEMMA CrashPlaceStep ==
    ASSUME TypeInv, Crash, NEW j \in Jobs, j \notin doubled', OnePlace(j), OneLine(j)
    PROVE  /\ OnePlace(j)' /\ OneLine(j)'
           /\ InSpawned(j)' => InSpawned(j) \/ InHand(j, {"unspawn"})
           /\ GivenUp(j) => GivenUp(j)' \/ Cancelled(j) \/ InHand(j, {"unspawn"})
<1>1. /\ UNCHANGED <<queued, pending, spawning, spawned, ppc, pjob, job>>
      /\ \A points : ~InHand(j, points)'
      /\ \A loop : ~Unread(j, loop)'
      /\ todo' = EmptyFile /\ EmptyFile[Line(j)] = 0
  BY CrashHands, EmptyFileFacts, LineFacts DEF Crash, fileVars, slurmVars
<1>2. Line(j).job = j /\ ~(cur = Line(j) /\ Doubling)
  BY LineFacts DEF Crash
<1>3. /\ InHand(j, {"dequeue"}) => ~HasLine(queued, Line(j))
      /\ InHand(j, {"unpend"}) => ~HasLine(pending, Line(j))
      /\ InHand(j, {"ipcancel", "ipdrop"}) => Cancelled(j)
  BY <1>2 DEF Doubling, Copied, StillQueued, InHand, Cancelled
<1>4. /\ WithPlugin(j)' <=> WithPlugin(j)
      /\ InQueue(j)' => InQueue(j)
      /\ InPending(j)' => InPending(j)
      /\ InSpawning(j)' => InSpawning(j)
      /\ InSpawned(j)' => InSpawned(j) \/ InHand(j, {"unspawn"})
      /\ Released(j)' <=> Released(j)
  BY <1>1, <1>3 DEF WithPlugin, InQueue, InPending, InSpawning, InSpawned, Released, HasLine
<1>5. OnePlace(j)'
  BY <1>1, <1>4 DEF OnePlace, Nowhere
<1>6. OneLine(j)'
  BY <1>1 DEF OneLine, HasLine
<1>7. GivenUp(j) => GivenUp(j)' \/ Cancelled(j) \/ InHand(j, {"unspawn"})
  BY <1>1, <1>3, <1>4 DEF GivenUp, Nowhere, OnePlace, InHand
<1>. QED BY <1>4, <1>5, <1>6, <1>7

LEMMA CrashVmStep ==
    ASSUME TypeInv, Crash, NEW j \in Jobs, j \notin doubled',
           OnePlace(j), OneLine(j), VmKnown(j)
    PROVE  VmKnown(j)'
<1>1. /\ UNCHANGED <<status, vm, job>>
      /\ \A points : ~InHand(j, points)'
      /\ \A r \in Runs : ~At(j, r, "addressed")' /\ ~At(j, r, "ready")'
  BY CrashHands DEF Crash, At, cloudVars, slurmVars
<1>2. /\ InSpawned(j)' => InSpawned(j) \/ InHand(j, {"unspawn"})
      /\ GivenUp(j) => GivenUp(j)' \/ Cancelled(j) \/ InHand(j, {"unspawn"})
  BY CrashPlaceStep
<1>3. InHand(j, {"unspawn"}) => InHand(j, {"addspawned", "tospawned", "unspawn"})
  BY DEF InHand
<1>. QED BY <1>1, <1>2, <1>3 DEF VmKnown, Cancelled, Released

LEMMA CrashInvInit == CrashInit => CrashInv
BY TypeInit, LockInit, NodeInit, PlaceInit, VmInit
   DEF CrashInit, CrashInv, PlaceInv, VmInv

LEMMA CrashInvStep == CrashInv /\ [CrashNext]_crashVars => CrashInv'
<1> SUFFICES ASSUME CrashInv, [CrashNext]_crashVars PROVE CrashInv'
  OBVIOUS
<1>1. CASE Crash
  <2>1. TypeInv' /\ LockInv' /\ NodeInv'
    BY <1>1, CrashTypeStep, CrashLockStep, CrashNodeStep DEF CrashInv
  <2>2. doubled \subseteq doubled'
    BY <1>1 DEF Crash
  <2>3. ASSUME NEW j \in Jobs, j \notin doubled'
        PROVE  OnePlace(j)' /\ OneLine(j)' /\ VmKnown(j)'
    BY <1>1, <2>2, <2>3, CrashPlaceStep, CrashVmStep DEF CrashInv
  <2>. QED BY <2>1, <2>3 DEF CrashInv
<1>2. CASE [Next]_vars /\ UNCHANGED <<doubled, deserted, crashes>>
  <2>1. TypeInv' /\ LockInv' /\ NodeInv'
    BY <1>2, TypeStep, LockStep, NodeStep DEF CrashInv
  <2>2. ASSUME NEW j \in Jobs, j \notin doubled
        PROVE  OnePlace(j)' /\ OneLine(j)' /\ VmKnown(j)'
    BY <1>2, <2>2, PlaceStep, VmStep DEF CrashInv, KeepsPlace
  <2>. QED BY <1>2, <2>1, <2>2 DEF CrashInv
<1>. QED BY <1>1, <1>2, CrashStepSplit

-----------------------------------------------------------------------------
(* What is waited for, when no id and no name occurs in another *)

LEMMA WaitedStep ==
    ASSUME TypeInv, Collisionless, NEW j \in Jobs, Waited(j), [Next]_vars
    PROVE  Waited(j)'
<1>f. {queued, pending, spawning, spawned, todo} \subseteq Files
  BY DEF TypeInv, TypeOK
<1>t. /\ \A f \in {queued, pending, spawning, spawned, todo} : f[Line(j)] \in Nat
      /\ Line(j) \in Lines /\ Line(j) # NoLine
      /\ status \in [Jobs -> Statuses]
      /\ script \in [Jobs -> [Runs -> Stages]]
  BY <1>f, LineFacts DEF Files, TypeInv, TypeOK
<1>a. /\ dpc \in Handling => cur \in Lines /\ cur.job \in Jobs
      /\ dpc \notin Handling => cur # Line(j)
      /\ dpc \in WholeHands => cur.whole
  BY <1>t, LineFacts DEF TypeInv, AtWork, WholeLines
<1>d. ASSUME cur \in Lines, cur.whole
      PROVE  /\ Deleted(spawning, DeleteLines(spawning, IdPattern(cur.job)), cur, j)
             /\ Deleted(spawning, DeleteLines(spawning, NamePattern(cur.job)), cur, j)
             /\ cur # Line(j) =>
                  /\ DeleteLines(queued, IdPattern(cur.job))[Line(j)] = queued[Line(j)]
                  /\ DeleteLines(pending, IdPattern(cur.job))[Line(j)] = pending[Line(j)]
  BY <1>f, <1>d, DeleteEffect, DeleteExact
<1> USE DEF Waited, InHand, HasLine, Move, DoneLine, At, Handling, WholeHands, SpawningHands,
        fileVars, lockVars, pluginVars, daemonVars, scriptVars, cloudVars,
        slurmVars, pluginFrame
<1>1. CASE \E i \in Jobs : Submit(i) \/ UserCancel(i)
  BY <1>1 DEF Submit, UserCancel
<1>2. CASE PluginCannotOpen \/ PluginTryVmLock \/ PluginQueue \/ PluginTryPendingLock
           \/ PluginNoFile \/ PluginReturn
  BY <1>2 DEF PluginCannotOpen, PluginTryVmLock, PluginQueue, PluginTryPendingLock,
     PluginNoFile, PluginReturn
<1>3. CASE PluginFlush
  <2>1. Line(pjob) \in Lines
    BY <1>3, LineFacts DEF PluginFlush, TypeInv, AtWork
  <2>2. queued' = queued \/ Appended(queued, queued', Line(pjob), j)
    BY <1>f, <1>3, <2>1, AppendEffect DEF PluginFlush
  <2>3. UNCHANGED <<pending, spawning, dpc, cur, status, script>>
    BY <1>3 DEF PluginFlush
  <2>. QED BY <1>t, <2>2, <2>3 DEF Appended
<1>4. CASE PluginAppend
  <2>1. Line(pjob) \in Lines
    BY <1>4, LineFacts DEF PluginAppend, TypeInv, AtWork
  <2>2. Appended(pending, pending', Line(pjob), j)
    BY <1>f, <1>4, <2>1, AppendEffect DEF PluginAppend
  <2>. QED BY <1>t, <1>4, <2>2 DEF PluginAppend, Appended
<1>5. CASE WindowElapsed \/ WindowOpen \/ TryVmLock
  BY <1>5 DEF WindowElapsed, WindowOpen, TryVmLock
<1>6. ASSUME NEW ln \in Lines, ReadSpawned(ln) \/ ReadSpawning(ln) PROVE Waited(j)'
  <2>1. UNCHANGED <<queued, pending, spawning, status, script>>
    BY <1>6 DEF ReadSpawned, ReadSpawning
  <2>2. dpc \in {"spawned", "spawning"}
    BY <1>6 DEF ReadSpawned, ReadSpawning
  <2>. QED BY <2>1, <2>2
<1>7. ASSUME NEW ln \in Lines, ReadQueued(ln) \/ ReadPending(ln) PROVE Waited(j)'
  <2>1. Appended(spawning, AddLine(spawning, ln), ln, j)
    BY <1>f, AppendEffect
  <2>. QED BY <1>t, <1>a, <1>7, <2>1
     DEF ReadQueued, ReadPending, ReadLine, SkipLine, Appended
<1>8. CASE SpawnedStep
  <2>1. UNCHANGED <<queued, pending, spawning, status, script>>
    BY <1>8 DEF SpawnedStep, OpenSpawned, RunJobRelease, RunJobDone, EndSpawned, RecordsJob,
       HeldPriority
  <2>2. dpc \in {"openspawned", "release", "unspawn", "spawned"}
    BY <1>8 DEF SpawnedStep, OpenSpawned, RunJobRelease, RunJobDone, EndSpawned
  <2>. QED BY <2>1, <2>2
<1>9. CASE NoHostRequeue \/ CloneFailRequeue
  <2>1. PICK ln \in Lines : queued' = AddLine(queued, ln)
    BY <1>a, <1>9, LineFacts DEF NoHostRequeue, CloneFailRequeue
  <2>2. Appended(queued, queued', ln, j)
    BY <1>f, <2>1, AppendEffect
  <2>. QED BY <1>t, <1>9, <2>2 DEF NoHostRequeue, CloneFailRequeue, Appended
<1>10. CASE NoHostDrop \/ CloneFailDrop \/ IncompatibleDrop \/ IpFixDrop \/ AddSpawnedDrop
  <2>1. cur \in Lines /\ cur.whole
    BY <1>a, <1>10 DEF NoHostDrop, CloneFailDrop, IncompatibleDrop, IpFixDrop, AddSpawnedDrop
  <2>2. spawning'[Line(j)] <= spawning[Line(j)] /\ spawning'[Line(j)] \in Nat
    BY <1>10, <2>1, <1>d DEF NoHostDrop, CloneFailDrop, IncompatibleDrop, IpFixDrop,
       AddSpawnedDrop, Deleted
  <2>3. UNCHANGED <<queued, pending, status, script>>
    BY <1>10 DEF NoHostDrop, CloneFailDrop, IncompatibleDrop, IpFixDrop, AddSpawnedDrop
  <2>4. dpc \notin {"dequeue", "launch", "unpend", "launchpending"}
    BY <1>10 DEF NoHostDrop, CloneFailDrop, IncompatibleDrop, IpFixDrop, AddSpawnedDrop
  <2>. QED BY <1>t, <2>2, <2>3, <2>4
<1>11. CASE OpenSpawning \/ EndSpawning \/ IncompatibleCancel \/ IpFixDestroy
            \/ IpFixCancel \/ AddSpawned
  BY <1>11 DEF OpenSpawning, EndSpawning, IncompatibleCancel, IpFixDestroy, IpFixCancel,
     AddSpawned
<1>12. CASE OpenQueued \/ EndQueued \/ TryPendingLock \/ EndPending
  BY <1>12 DEF OpenQueued, EndQueued, TryPendingLock, EndPending
<1>13. CASE Dequeue
  <2>1. cur # Line(j) => queued'[Line(j)] = queued[Line(j)]
    BY <1>a, <1>d, <1>13 DEF Dequeue
  <2>. QED BY <1>t, <1>13, <2>1 DEF Dequeue
<1>14. CASE Unpend
  <2>1. cur # Line(j) => pending'[Line(j)] = pending[Line(j)]
    BY <1>a, <1>d, <1>14 DEF Unpend
  <2>. QED BY <1>t, <1>14, <2>1 DEF Unpend
<1>15. CASE LaunchQueued \/ LaunchPending
  <2>1. StartScript(cur) /\ cur \in Lines /\ cur.job \in Jobs
    BY <1>a, <1>15 DEF LaunchQueued, LaunchPending
  <2>2. UNCHANGED <<queued, pending, spawning, status>>
    BY <1>15 DEF LaunchQueued, LaunchPending
  <2>3. CASE cur = Line(j)
    <3>1. PICK r \in Runs : Goto(j, r, "start")
      BY <2>1, <2>3, LineFacts DEF StartScript
    <3>2. script'[j][r] = "start"
      BY <1>t, <3>1, GotoEffect
    <3>. QED BY <3>2
  <2>4. CASE cur # Line(j)
    <3>1. \A q \in Runs : script'[j][q] \in {script[j][q], "start"}
      BY <1>t, <2>1, StartScriptQuiet
    <3>. QED BY <2>2, <2>4, <3>1
  <2>. QED BY <2>3, <2>4
<1>16. ASSUME NEW i \in Jobs, NEW r \in Runs, ScriptStep(i, r) PROVE Waited(j)'
  <2>1. UNCHANGED <<queued, pending, spawning, dpc, cur>>
    BY <1>16 DEF ScriptStep, OpenStatus, HostBusy, HostInvalid, HostFound, Clone,
       AddressFound, AddressMissing, Customise, ReportReady, scriptFrame
  <2>2. PICK stage \in Stages : Goto(i, r, stage)
    BY <1>16 DEF ScriptStep, OpenStatus, HostBusy, HostInvalid, HostFound, Clone,
       AddressFound, AddressMissing, Customise, ReportReady, Stages
  <2>3. \A q \in Runs : script'[j][q] = IF j = i /\ q = r THEN stage ELSE script[j][q]
    BY <1>t, <2>2, GotoEffect
  <2>4. CASE j = i /\ stage # "idle"
    BY <2>3, <2>4
  <2>5. CASE j = i /\ stage = "idle"
    <3>1. script'[i][r] = "idle"
      BY <2>3, <2>5
    <3>2. ASSUME NEW other, Goto(i, r, other) PROVE other = "idle"
      BY <1>t, <3>1, <3>2, GotoEffect
    <3>3. PICK st \in {NoHost, NoClone, Incompatible, NoAddress, Ready} :
            status' = [status EXCEPT ![i] = st]
      BY <1>16, <3>2 DEF ScriptStep, OpenStatus, HostBusy, HostInvalid, HostFound, Clone,
         AddressFound, AddressMissing, Customise, ReportReady
    <3>4. status'[i] # NoStatus
      BY <1>t, <3>3 DEF NoStatus, NoHost, NoClone, Incompatible, NoAddress, Ready
    <3>. QED BY <2>5, <3>4
  <2>6. CASE j # i
    <3>1. status'[j] = status[j]
      BY <1>t, <1>16, <2>6 DEF ScriptStep, OpenStatus, HostBusy, HostInvalid, HostFound,
         Clone, AddressFound, AddressMissing, Customise, ReportReady
    <3>. QED BY <2>1, <2>3, <2>6, <3>1
  <2>. QED BY <2>4, <2>5, <2>6
<1>17. CASE UNCHANGED vars
  BY <1>17 DEF vars
<1>. QED BY <1>1, <1>2, <1>3, <1>4, <1>5, <1>6, <1>7, <1>8, <1>9, <1>10, <1>11,
   <1>12, <1>13, <1>14, <1>15, <1>16, <1>17
   DEF Next, PluginStep, DaemonStep, ReadStep, SpawningStep, LaunchStep

LEMMA CrashKeptStep ==
    ASSUME Crash, NEW j \in Jobs
    PROVE  /\ Kept(j)'
           /\ j \notin deserted' /\ Waited(j) => Waited(j)'
<1>1. Kept(j)'
  BY CrashHands DEF Kept
<1>2. ASSUME j \notin deserted', Waited(j) PROVE Waited(j)'
  <2>1. /\ UNCHANGED <<queued, pending, spawning, status>>
        /\ \A r \in Runs : At(j, r, "idle")
        /\ ~(cur.job = j /\ Deserting)
    BY <1>2 DEF Crash, fileVars
  <2>2. Line(j).job = j
    BY LineFacts
  <2>3. InHand(j, {"dequeue", "launch", "unpend", "launchpending"}) =>
          HasLine(queued, Line(j)) \/ HasLine(pending, Line(j))
    BY <2>1, <2>2 DEF Deserting, Copied, StillQueued, InHand
  <2>. QED BY <1>2, <2>1, <2>3 DEF Waited, HasLine
<1>. QED BY <1>1, <1>2

LEMMA CrashKeptInvInit == CrashInit => CrashKeptInv
<1> SUFFICES ASSUME CrashInit, NEW j \in Jobs PROVE Kept(j) /\ Waited(j)
  BY DEF CrashKeptInv
<1>1. EmptyFile[Line(j)] = 0
  BY LineFacts, EmptyFileFacts
<1>. QED BY <1>1, KeptInit DEF CrashInit, Init, Waited, HasLine

LEMMA CrashKeptInvStep ==
    CrashInv /\ CrashKeptInv /\ [CrashNext]_crashVars => CrashKeptInv'
<1> SUFFICES ASSUME CrashInv, CrashKeptInv, [CrashNext]_crashVars, Collisionless
             PROVE  /\ \A j \in Jobs \ doubled' : Kept(j)'
                    /\ \A j \in Jobs \ deserted' : Waited(j)'
  BY DEF CrashKeptInv
<1>1. CASE Crash
  <2>1. deserted \subseteq deserted'
    BY <1>1 DEF Crash
  <2>. QED BY <1>1, <2>1, CrashKeptStep DEF CrashKeptInv
<1>2. CASE [Next]_vars /\ UNCHANGED <<doubled, deserted, crashes>>
  BY <1>2, KeptStep, WaitedStep DEF CrashInv, CrashKeptInv, KeepsRecord
<1>. QED BY <1>1, <1>2, CrashStepSplit

-----------------------------------------------------------------------------
(* The theorems *)

\* What a crash leaves of the invariants of VhpcLaunchInv is inductive.
THEOREM CrashInvariantHolds == CrashSpec => []CrashInv
BY CrashInvInit, CrashInvStep, PTL DEF CrashSpec

\* A job that is released in whatever a crash has left runs on a node that
\* slurmctld knows: the restart at vhpcLaunch.sh:140 is in every pass.
THEOREM CrashNodeBeforeRelease == CrashSpec => []ReleasedNodeKnown
<1>1. CrashInv => ReleasedNodeKnown
  BY DEF CrashInv, NodeInv, NodeKnown, Released, ReleasedNodeKnown
<1>. QED BY <1>1, CrashInvariantHolds, PTL

\* flock is given back by the kernel: a restarted daemon does not find a lock
\* held by its own former self.
THEOREM LocksOutliveNobody == CrashSpec => []NeverLockedOut
<1>1. CrashInv => NeverLockedOut
  BY DEF CrashInv, LockInv, VmLockPoints, SpawnedLoop, SpawningLoop, SpawningHands,
     QueueLoop, PendingLoop, NeverLockedOut
<1>. QED BY <1>1, CrashInvariantHolds, PTL

\* After any number of crashes a job runs only with its VM, but for those that a
\* crash has left with two claims on it.
THEOREM ReleaseSafeAfterCrash == CrashSpec => []CrashReleaseSafe
<1>1. CrashInv => CrashReleaseSafe
  BY DEF CrashInv, VmKnown, Released, CrashReleaseSafe
<1>. QED BY <1>1, CrashInvariantHolds, PTL

\* If no id or name occurs in another, a crash loses no line but the one that is
\* in the daemon's memory alone and one that is only in the inode of its queue
\* loop, whatever file or loop it is in.
THEOREM CrashLosesOnlyMemory ==
    ASSUME Collisionless
    PROVE  CrashSpec => CrashForgetsOnlyInMemory
<1>1. CrashInit => CrashInv /\ CrashKeptInv
  BY CrashInvInit, CrashKeptInvInit
<1>2. CrashInv /\ CrashKeptInv /\ [CrashNext]_crashVars => CrashKeptInv'
  BY CrashKeptInvStep
<1>3. ASSUME CrashInv, CrashKeptInv, [CrashNext]_crashVars, crashes' # crashes,
             NEW j \in Jobs \ doubled, Recorded(j), ~Recorded(j)'
      PROVE  dpc \in InMemoryOnly \/ (Unread(j, QueueLoop) /\ ~Filed(j))
  <2>1. Crash
    BY <1>3, CrashStepSplit
  <2>2. /\ cur = Line(j) \/ HasLine(todo, Line(j))
        /\ ~Filed(j)
        /\ \A f \in {queued, pending, spawning, spawned} : ~HasLine(f, Line(j))
    BY <1>3, <2>1 DEF Crash, Recorded, Filed, fileVars, HasLine
  <2>3. Line(j) # NoLine
    BY LineFacts
  <2>4. Kept(j) /\ OneLine(j)
    BY <1>3 DEF CrashKeptInv, CrashInv
  <2>5. CASE cur = Line(j)
    <3>1. dpc \in Handling
      BY <1>3, <2>3, <2>5 DEF CrashInv, TypeInv, AtWork
    <3>. QED BY <2>2, <2>4, <2>5, <3>1
         DEF Kept, InHand, Handling, SpawningHands, InMemoryOnly
  <2>6. CASE HasLine(todo, Line(j))
    BY <2>2, <2>4, <2>6 DEF Kept, OneLine, Unread
  <2>. QED BY <2>2, <2>5, <2>6
<1>4. CrashInv /\ CrashKeptInv /\ [CrashNext]_crashVars =>
        [\A j \in Jobs \ doubled :
           crashes' # crashes /\ Recorded(j) /\ ~Settled(j) /\ ~Recorded(j)' =>
             dpc \in InMemoryOnly \/ (Unread(j, QueueLoop) /\ ~Filed(j))]_crashVars
  BY <1>3
<1>. QED BY <1>1, <1>2, <1>4, CrashInvariantHolds, PTL
   DEF CrashSpec, CrashForgetsOnlyInMemory

\* If no id or name occurs in another, no line of spawning_jobs waits for a
\* script that is neither there nor to come, unless a crash has killed it.
THEOREM NoneWaitsInVain ==
    ASSUME Collisionless
    PROVE  CrashSpec => []NoVainWait
<1>1. CrashInit => CrashKeptInv
  BY CrashKeptInvInit
<1>2. CrashInv /\ CrashKeptInv /\ [CrashNext]_crashVars => CrashKeptInv'
  BY CrashKeptInvStep
<1>3. CrashKeptInv => NoVainWait
  BY DEF CrashKeptInv, Waited, InHand, NoVainWait
<1>. QED BY <1>1, <1>2, <1>3, CrashInvariantHolds, PTL DEF CrashSpec

=============================================================================

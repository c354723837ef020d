-------------------------- MODULE VhpcLaunchProofs --------------------------
(***************************************************************************)
(* Theorems about VhpcLaunch, for every set of jobs, every relation        *)
(* between their ids and names, every fault and every bound: that the      *)
(* invariant of VhpcLaunchInv is inductive, in three parts (the types; one *)
(* place at a time for every job; what is known of its VM), and what       *)
(* follows from it.  No job is released without its VM and its node,       *)
(* launched again after its release, or written twice; every step is one   *)
(* of the promised life of a job; and, where no id and no name occurs in   *)
(* another, which lines can be lost.                                       *)
(*                                                                         *)
(* The second part is proved job by job, so that it serves a daemon that   *)
(* crashes too, for the jobs no crash has doubled.                         *)
(***************************************************************************)
EXTENDS VhpcLaunchInv, TLAPS

-----------------------------------------------------------------------------
(* Lines and files *)

\* A line is told from the other lines by its job and by being whole.
LEMMA LineFacts ==
    /\ \A j \in Jobs :
         /\ Line(j) \in Lines /\ Line(j).job = j /\ Line(j).whole
         /\ Stub(j) \in Lines /\ Stub(j).job = j /\ ~Stub(j).whole
         /\ Line(j) # NoLine
         /\ Line(j) \in IdPattern(j) /\ Line(j) \in NamePattern(j)
    /\ \A ln \in Lines :
         /\ ln.job \in Jobs /\ ln.whole \in BOOLEAN
         /\ ln.whole => ln = Line(ln.job)
         /\ ~ln.whole => ln = Stub(ln.job)
BY JobsAssumption, PatternAssumption
   DEF Line, Stub, Lines, NoLine, IdPattern, NamePattern, Reflexive

\* echo, sed and read keep a file a file, and change no line but theirs.
LEMMA AddLineFacts ==
    ASSUME NEW f \in Files, NEW ln \in Lines
    PROVE  /\ AddLine(f, ln) \in Files
           /\ AddLine(f, ln)[ln] > 0
           /\ f[ln] = 0 => AddLine(f, ln)[ln] = 1
           /\ \A k \in Lines : k # ln => AddLine(f, ln)[k] = f[k]
BY BoundAssumption DEF AddLine, Files

LEMMA DeleteLinesFacts ==
    ASSUME NEW f \in Files, NEW pattern
    PROVE  /\ DeleteLines(f, pattern) \in Files
           /\ \A k \in Lines : DeleteLines(f, pattern)[k] <= f[k]
           /\ \A k \in Lines : k \in pattern => DeleteLines(f, pattern)[k] = 0
BY BoundAssumption DEF DeleteLines, Files

LEMMA TakeLineFacts ==
    ASSUME NEW f \in Files, NEW ln \in Lines, HasLine(f, ln)
    PROVE  /\ TakeLine(f, ln) \in Files
           /\ TakeLine(f, ln)[ln] = f[ln] - 1
           /\ \A k \in Lines : k # ln => TakeLine(f, ln)[k] = f[k]
BY BoundAssumption DEF TakeLine, Files, HasLine

LEMMA EmptyFileFacts == EmptyFile \in Files /\ \A k \in Lines : EmptyFile[k] = 0
BY BoundAssumption DEF EmptyFile, Files

-----------------------------------------------------------------------------
(* Every variable keeps its type, and whoever is at work has a job or a line *)

LEMMA VerdictFacts ==
    ASSUME NEW st \in Statuses, st # NoStatus
    PROVE  /\ Verdict(st) \in
                {"addspawned", "nohost", "clonefail", "incompatible", "ipfix"}
           /\ Verdict(st) = "addspawned" => st = Ready
BY DEF Verdict, Statuses, NoStatus, Ready, NoHost, NoClone, Incompatible, NoAddress

LEMMA GotoType ==
    ASSUME script \in [Jobs -> [Runs -> Stages]],
           NEW j \in Jobs, NEW r \in Runs, NEW stage \in Stages, Goto(j, r, stage)
    PROVE  script' \in [Jobs -> [Runs -> Stages]]
BY DEF Goto

LEMMA StartScriptType ==
    ASSUME script \in [Jobs -> [Runs -> Stages]],
           NEW ln, ln.job \in Jobs, StartScript(ln)
    PROVE  script' \in [Jobs -> [Runs -> Stages]]
<1>1. CASE ln.whole
  <2>1. PICK r \in Runs : Goto(ln.job, r, "start")
    BY <1>1 DEF StartScript
  <2>. QED BY <2>1, GotoType DEF Stages
<1>2. CASE ~ln.whole
  BY <1>2 DEF StartScript
<1>. QED BY <1>1, <1>2

LEMMA TypeInit == Init => TypeInv
<1> SUFFICES ASSUME Init PROVE TypeInv
  OBVIOUS
<1>1. {queued, pending, spawning, spawned, todo} \subseteq Files
  BY EmptyFileFacts DEF Init
<1>2. status \in [Jobs -> Statuses] /\ script \in [Jobs -> [Runs -> Stages]]
  BY DEF Init, Statuses, NoStatus, NoAddress, Stages
<1>3. TypeOK
  BY <1>1, <1>2, BoundAssumption DEF Init, TypeOK, DaemonPoints, JobStates
<1>4. AtWork
  BY DEF Init, AtWork, Handling
<1>5. ASSUME NEW j \in Jobs PROVE ~HasLine(spawned, Stub(j)) /\ ~HasLine(pending, Stub(j))
  <2>1. Stub(j) \in Lines
    BY LineFacts
  <2>. QED BY <2>1, EmptyFileFacts DEF Init, HasLine
<1>6. WholeLines
  BY <1>5 DEF Init, WholeLines, SpawnedLoop, PendingLoop, WholeHands, SpawningHands
<1>. QED BY <1>3, <1>4, <1>6 DEF TypeInv

LEMMA TypeStep == TypeInv /\ [Next]_vars => TypeInv'
<1> SUFFICES ASSUME TypeInv, [Next]_vars PROVE TypeInv'
  OBVIOUS
<1> USE BoundAssumption
    DEF TypeInv, TypeOK, AtWork, Commanded, WholeLines, HasLine, Move, DoneLine,
        DaemonPoints, Handling, SpawnedLoop, SpawningHands, WholeHands,
        PendingLoop, JobStates,
        fileVars, lockVars, pluginVars, daemonVars, scriptVars, cloudVars,
        slurmVars, pluginFrame, scriptFrame
<1>1. ASSUME NEW j \in Jobs, Submit(j) PROVE TypeInv'
  BY <1>1 DEF Submit
<1>2. ASSUME NEW j \in Jobs, UserCancel(j) PROVE TypeInv'
  BY <1>2 DEF UserCancel
<1>3. CASE PluginCannotOpen
  BY <1>3 DEF PluginCannotOpen
<1>4. CASE PluginTryVmLock
  BY <1>4 DEF PluginTryVmLock
<1>5. CASE PluginQueue
  BY <1>5 DEF PluginQueue
<1>6. CASE PluginFlush
  <2>1. Line(pjob) \in Lines /\ \A j \in Jobs : Stub(j) \in Lines /\ Stub(j) # Line(pjob)
    BY <1>6, LineFacts DEF PluginFlush
  <2>2. AddLine(queued, Line(pjob)) \in Files /\ AddLine(todo, Line(pjob)) \in Files
    BY <2>1, AddLineFacts
  <2>3. \A j \in Jobs : AddLine(todo, Line(pjob))[Stub(j)] = todo[Stub(j)]
    BY <2>1, AddLineFacts
  <2>. QED BY <1>6, <2>2, <2>3 DEF PluginFlush
<1>7. CASE PluginTryPendingLock
  BY <1>7 DEF PluginTryPendingLock
<1>8. CASE PluginAppend
  <2>1. Line(pjob) \in Lines /\ \A j \in Jobs : Stub(j) \in Lines /\ Stub(j) # Line(pjob)
    BY <1>8, LineFacts DEF PluginAppend
  <2>2. AddLine(pending, Line(pjob)) \in Files
    BY <2>1, AddLineFacts
  <2>3. \A j \in Jobs : AddLine(pending, Line(pjob))[Stub(j)] = pending[Stub(j)]
    BY <2>1, AddLineFacts
  <2>. QED BY <1>8, <2>2, <2>3 DEF PluginAppend
<1>9. CASE PluginNoFile \/ PluginReturn
  BY <1>9 DEF PluginNoFile, PluginReturn
<1>10. CASE WindowElapsed
  BY <1>10 DEF WindowElapsed
<1>11. CASE WindowOpen
  BY <1>11 DEF WindowOpen
<1>12. CASE TryVmLock
  BY <1>12 DEF TryVmLock
<1>13. ASSUME NEW ln \in Lines, ReadSpawned(ln) PROVE TypeInv'
  <2>1. TakeLine(todo, ln) \in Files
    BY <1>13, TakeLineFacts DEF ReadSpawned
  <2>3. ln.whole
    BY <1>13, LineFacts DEF ReadSpawned
  <2>4. \A j \in Jobs : Stub(j) \in Lines /\ Stub(j) # ln
    BY <2>3, LineFacts
  <2>2. \A j \in Jobs : TakeLine(todo, ln)[Stub(j)] = todo[Stub(j)]
    BY <1>13, <2>4, TakeLineFacts DEF ReadSpawned
  <2>. QED BY <1>13, <2>1, <2>2, <2>3 DEF ReadSpawned, ReadLine
<1>14. ASSUME NEW ln \in Lines, ReadSpawning(ln) PROVE TypeInv'
  <2>1. TakeLine(todo, ln) \in Files
    BY <1>14, TakeLineFacts DEF ReadSpawning
  <2>2. CASE ln.whole /\ status[ln.job] # NoStatus
    <3>1. Verdict(status[ln.job]) \in
            {"addspawned", "nohost", "clonefail", "incompatible", "ipfix"}
      BY <2>2, LineFacts, VerdictFacts
    <3>. QED BY <1>14, <2>1, <2>2, <3>1 DEF ReadSpawning, ReadLine
  <2>3. CASE ~(ln.whole /\ status[ln.job] # NoStatus)
    BY <1>14, <2>1, <2>3 DEF ReadSpawning, SkipLine
  <2>. QED BY <2>2, <2>3
<1>15. ASSUME NEW ln \in Lines, ReadQueued(ln) PROVE TypeInv'
  <2>1. TakeLine(todo, ln) \in Files /\ AddLine(spawning, ln) \in Files
    BY <1>15, TakeLineFacts, AddLineFacts DEF ReadQueued
  <2>. QED BY <1>15, <2>1 DEF ReadQueued, ReadLine, SkipLine, MayLaunch
<1>16. ASSUME NEW ln \in Lines, ReadPending(ln) PROVE TypeInv'
  <2>1. TakeLine(todo, ln) \in Files /\ AddLine(spawning, ln) \in Files
    BY <1>16, TakeLineFacts, AddLineFacts DEF ReadPending
  <2>2. ln.whole
    BY <1>16, LineFacts DEF ReadPending
  <2>3. \A j \in Jobs : Stub(j) \in Lines /\ Stub(j) # ln
    BY <2>2, LineFacts
  <2>4. \A j \in Jobs : TakeLine(todo, ln)[Stub(j)] = todo[Stub(j)]
    BY <1>16, <2>3, TakeLineFacts DEF ReadPending
  <2>. QED BY <1>16, <2>1, <2>2, <2>4 DEF ReadPending, ReadLine, SkipLine, MayLaunch
<1>17. CASE OpenSpawned
  BY <1>17 DEF OpenSpawned
<1>18. CASE RunJobRelease
  <2>1. cur.job \in Jobs
    BY <1>18, LineFacts DEF RunJobRelease
  <2>2. pending' = pending /\ (job' = job \/ job' = [job EXCEPT ![cur.job] = "released"])
    BY <1>18 DEF RunJobRelease, RecordsJob, HeldPriority
  <2>3. ppc' = ppc /\ ppc \in {"idle", "down"}
    BY <1>18 DEF RunJobRelease
  <2>. QED BY <1>18, <2>1, <2>2, <2>3 DEF RunJobRelease
<1>19. CASE RunJobDone
  <2>1. cur.job \in Jobs
    BY <1>19, LineFacts DEF RunJobDone
  <2>2. spawned' \in Files /\ \A k \in Lines : spawned'[k] <= spawned[k]
    BY <1>19, DeleteLinesFacts DEF RunJobDone
  <2>3. \A j \in Jobs : Stub(j) \in Lines
    BY LineFacts
  <2>4. \A j \in Jobs : ~HasLine(spawned', Stub(j))
    BY <2>2, <2>3 DEF Files
  <2>. QED BY <1>19, <2>1, <2>2, <2>4 DEF RunJobDone
<1>20. CASE EndSpawned
  BY <1>20 DEF EndSpawned
<1>21. CASE OpenSpawning
  BY <1>21 DEF OpenSpawning
<1>22. CASE EndSpawning
  BY <1>22 DEF EndSpawning
<1>23. CASE NoHostDrop
  BY <1>23, DeleteLinesFacts DEF NoHostDrop
<1>24. CASE NoHostRequeue
  BY <1>24, AddLineFacts DEF NoHostRequeue
<1>25. CASE CloneFailDrop
  BY <1>25, DeleteLinesFacts DEF CloneFailDrop
<1>26. CASE CloneFailRequeue
  <2>1. Stub(cur.job) \in Lines
    BY <1>26, LineFacts DEF CloneFailRequeue
  <2>2. queued' \in Files
    BY <1>26, <2>1, AddLineFacts DEF CloneFailRequeue
  <2>. QED BY <1>26, <2>2 DEF CloneFailRequeue
<1>27. CASE IncompatibleDrop
  BY <1>27, DeleteLinesFacts DEF IncompatibleDrop
<1>28. CASE IncompatibleCancel
  BY <1>28, LineFacts DEF IncompatibleCancel, Scancel
<1>29. CASE IpFixDestroy
  BY <1>29, LineFacts DEF IpFixDestroy
<1>30. CASE IpFixCancel
  BY <1>30, LineFacts DEF IpFixCancel, Scancel
<1>31. CASE IpFixDrop
  BY <1>31, DeleteLinesFacts DEF IpFixDrop
<1>32. CASE AddSpawnedDrop
  BY <1>32, DeleteLinesFacts DEF AddSpawnedDrop
<1>33. CASE AddSpawned
  <2>1. cur \in Lines /\ \A j \in Jobs : Stub(j) \in Lines /\ Stub(j) # cur
    BY <1>33, LineFacts DEF AddSpawned
  <2>2. spawned' \in Files /\ \A k \in Lines : k # cur => spawned'[k] = spawned[k]
    <3>1. spawned' = AddLine(spawned, cur) /\ spawned \in Files
      BY <1>33 DEF AddSpawned
    <3>2. /\ AddLine(spawned, cur) \in Files
          /\ \A k \in Lines : k # cur => AddLine(spawned, cur)[k] = spawned[k]
      BY <2>1, <3>1, AddLineFacts
    <3>. QED BY <3>1, <3>2
  <2>3. \A j \in Jobs : ~HasLine(spawned', Stub(j))
    BY <2>1, <2>2
  <2>. QED BY <1>33, <2>2, <2>3 DEF AddSpawned
<1>34. CASE OpenQueued
  BY <1>34 DEF OpenQueued
<1>35. CASE Dequeue
  BY <1>35, DeleteLinesFacts DEF Dequeue, Orphaned
<1>36. CASE LaunchQueued
  <2>1. cur.job \in Jobs
    BY <1>36, LineFacts DEF LaunchQueued
  <2>2. script' \in [Jobs -> [Runs -> Stages]]
    BY <1>36, <2>1, StartScriptType DEF LaunchQueued
  <2>. QED BY <1>36, <2>2 DEF LaunchQueued
<1>37. CASE EndQueued
  BY <1>37 DEF EndQueued
<1>38. CASE TryPendingLock
  BY <1>38 DEF TryPendingLock
<1>39. CASE Unpend
  <2>1. pending' \in Files /\ \A k \in Lines : pending'[k] <= pending[k]
    BY <1>39, DeleteLinesFacts DEF Unpend
  <2>2. \A j \in Jobs : Stub(j) \in Lines
    BY LineFacts
  <2>3. \A j \in Jobs : ~HasLine(pending', Stub(j))
    BY <2>1, <2>2 DEF Files
  <2>. QED BY <1>39, <2>1, <2>3 DEF Unpend
<1>40. CASE LaunchPending
  <2>1. cur.job \in Jobs
    BY <1>40, LineFacts DEF LaunchPending
  <2>2. script' \in [Jobs -> [Runs -> Stages]]
    BY <1>40, <2>1, StartScriptType DEF LaunchPending
  <2>. QED BY <1>40, <2>2 DEF LaunchPending
<1>41. CASE EndPending
  BY <1>41 DEF EndPending
<1>42. ASSUME NEW j \in Jobs, NEW r \in Runs, OpenStatus(j, r) PROVE TypeInv'
  BY <1>42 DEF OpenStatus, At, Goto, Stages, Statuses, NoStatus, Ready,
     NoHost, NoClone, Incompatible, NoAddress
<1>43. ASSUME NEW j \in Jobs, NEW r \in Runs, HostBusy(j, r) PROVE TypeInv'
  BY <1>43 DEF HostBusy, At, Goto, Stages, Statuses, NoStatus, Ready,
     NoHost, NoClone, Incompatible, NoAddress
<1>44. ASSUME NEW j \in Jobs, NEW r \in Runs, HostInvalid(j, r) PROVE TypeInv'
  BY <1>44 DEF HostInvalid, At, Goto, Stages, Statuses, NoStatus, Ready,
     NoHost, NoClone, Incompatible, NoAddress
<1>45. ASSUME NEW j \in Jobs, NEW r \in Runs, HostFound(j, r) PROVE TypeInv'
  BY <1>45 DEF HostFound, At, Goto, Stages, Statuses, NoStatus, Ready,
     NoHost, NoClone, Incompatible, NoAddress
<1>46. ASSUME NEW j \in Jobs, NEW r \in Runs, Clone(j, r) PROVE TypeInv'
  <2>0. NoClone \in Statuses
    BY DEF Statuses, NoStatus, NoClone, NoAddress
  <2>1. \/ Goto(j, r, "cloned") /\ UNCHANGED status
        \/ Goto(j, r, "idle") /\ status' = [status EXCEPT ![j] = NoClone]
    BY ONLY <1>46 DEF Clone
  <2>2. script' \in [Jobs -> [Runs -> Stages]]
    BY <2>1, GotoType DEF Stages
  <2>4. status' \in [Jobs -> Statuses]
    BY <2>0, <2>1
  <2>3. vm' \in [Jobs -> {"none", "partial", "cloned", "ready"}]
    BY <1>46 DEF Clone, Made
  <2>. QED BY <1>46, <2>2, <2>3, <2>4 DEF Clone
<1>47. ASSUME NEW j \in Jobs, NEW r \in Runs, AddressFound(j, r) PROVE TypeInv'
  BY <1>47 DEF AddressFound, At, Goto, Stages, Statuses, NoStatus, Ready,
     NoHost, NoClone, Incompatible, NoAddress
<1>48. ASSUME NEW j \in Jobs, NEW r \in Runs, AddressMissing(j, r) PROVE TypeInv'
  BY <1>48 DEF AddressMissing, At, Goto, Stages, Statuses, NoStatus, Ready,
     NoHost, NoClone, Incompatible, NoAddress
<1>49. ASSUME NEW j \in Jobs, NEW r \in Runs, Customise(j, r) PROVE TypeInv'
  BY <1>49 DEF Customise, At, Goto, Stages, Statuses, NoStatus, Ready,
     NoHost, NoClone, Incompatible, NoAddress
<1>50. ASSUME NEW j \in Jobs, NEW r \in Runs, ReportReady(j, r) PROVE TypeInv'
  BY <1>50 DEF ReportReady, At, Goto, Stages, Statuses, NoStatus, Ready,
     NoHost, NoClone, Incompatible, NoAddress
<1>51. CASE UNCHANGED vars
  BY <1>51 DEF vars
<1>. QED
  BY <1>1, <1>2, <1>3, <1>4, <1>5, <1>6, <1>7, <1>8, <1>9, <1>10, <1>11,
     <1>12, <1>13, <1>14, <1>15, <1>16, <1>17, <1>18, <1>19, <1>20, <1>21,
     <1>22, <1>23, <1>24, <1>25, <1>26, <1>27, <1>28, <1>29, <1>30, <1>31,
     <1>32, <1>33, <1>34, <1>35, <1>36, <1>37, <1>38, <1>39, <1>40, <1>41,
     <1>42, <1>43, <1>44, <1>45, <1>46, <1>47, <1>48, <1>49, <1>50, <1>51
     DEF Next, PluginStep, DaemonStep, ReadStep, SpawnedStep, SpawningStep,
     LaunchStep, ScriptStep

-----------------------------------------------------------------------------
(* A lock is held exactly where the code holds it *)

LEMMA LockInit == Init => LockInv
BY DEF Init, LockInv, VmLockPoints, SpawnedLoop, SpawningLoop, SpawningHands,
   QueueLoop, PendingLoop

LEMMA LockStep == TypeInv /\ LockInv /\ [Next]_vars => LockInv'
<1> SUFFICES ASSUME TypeInv, LockInv, [Next]_vars PROVE LockInv'
  OBVIOUS
<1>t. /\ dpc \in DaemonPoints
      /\ vmlock \in {"free", "plugin", "daemon"}
      /\ pendinglock \in {"free", "plugin", "daemon"}
  BY DEF TypeInv, TypeOK
<1> USE <1>t DEF LockInv, VmLockPoints, SpawnedLoop, SpawningLoop, SpawningHands,
        QueueLoop, PendingLoop, Move, lockVars, pluginVars, daemonVars, pluginFrame
<1>1. CASE \E j \in Jobs : Submit(j) \/ UserCancel(j)
  BY <1>1 DEF Submit, UserCancel
<1>2. CASE PluginStep
  BY <1>2 DEF PluginStep, PluginCannotOpen, PluginTryVmLock, PluginQueue,
     PluginFlush, PluginTryPendingLock, PluginAppend, PluginNoFile,
     PluginReturn
<1>3. CASE WindowElapsed \/ WindowOpen \/ TryVmLock
  BY <1>3 DEF WindowElapsed, WindowOpen, TryVmLock
<1>4. ASSUME NEW ln \in Lines,
             ReadSpawned(ln) \/ ReadSpawning(ln) \/ ReadQueued(ln) \/ ReadPending(ln)
      PROVE  LockInv'
  <2>1. CASE ReadSpawning(ln)
    <3>1. CASE ln.whole /\ status[ln.job] # NoStatus
      <4>1. dpc' \in {"addspawned", "nohost", "clonefail", "incompatible", "ipfix"}
        BY <2>1, <3>1, LineFacts, VerdictFacts DEF ReadSpawning, TypeInv, TypeOK
      <4>. QED BY <2>1, <4>1 DEF ReadSpawning
    <3>2. CASE ~(ln.whole /\ status[ln.job] # NoStatus)
      BY <2>1, <3>2 DEF ReadSpawning
    <3>. QED BY <3>1, <3>2
  <2>2. CASE ReadSpawned(ln) \/ ReadQueued(ln) \/ ReadPending(ln)
    BY <2>2 DEF ReadSpawned, ReadQueued, ReadPending
  <2>. QED BY <1>4, <2>1, <2>2
<1>5. CASE SpawnedStep
  BY <1>5 DEF SpawnedStep, OpenSpawned, RunJobRelease, RunJobDone, EndSpawned,
     Commanded
<1>6. CASE SpawningStep
  BY <1>6 DEF SpawningStep, OpenSpawning, EndSpawning, NoHostDrop, NoHostRequeue,
     CloneFailDrop, CloneFailRequeue, IncompatibleDrop, IncompatibleCancel,
     IpFixDestroy, IpFixCancel, IpFixDrop, AddSpawnedDrop, AddSpawned
<1>7. CASE LaunchStep
  BY <1>7 DEF LaunchStep, OpenQueued, Dequeue, LaunchQueued, EndQueued,
     TryPendingLock, Unpend, LaunchPending, EndPending
<1>8. ASSUME NEW j \in Jobs, NEW r \in Runs, ScriptStep(j, r) PROVE LockInv'
  BY <1>8 DEF ScriptStep, OpenStatus, HostBusy, HostInvalid, HostFound, Clone,
     AddressFound, AddressMissing, Customise, ReportReady, scriptFrame
<1>9. CASE UNCHANGED vars
  BY <1>9 DEF vars
<1>. QED BY <1>1, <1>2, <1>3, <1>4, <1>5, <1>6, <1>7, <1>8, <1>9
   DEF Next, DaemonStep, ReadStep

\* Every variable keeps its type and the rate limiter its bound, whatever the
\* number of jobs and launches.
THEOREM TypeCorrect == Spec => []TypeOK
<1>1. Init => TypeInv
  BY TypeInit
<1>2. TypeInv /\ [Next]_vars => TypeInv'
  BY TypeStep
<1>3. TypeInv => TypeOK
  BY DEF TypeInv
<1>. QED BY <1>1, <1>2, <1>3, PTL DEF Spec

-----------------------------------------------------------------------------
(* What echo, sed and read do to the one line that names job j *)

Appended(f, g, ln, j) ==
    /\ Line(j) = ln => g[Line(j)] > 0 /\ (f[Line(j)] = 0 => g[Line(j)] = 1)
    /\ Line(j) # ln => g[Line(j)] = f[Line(j)]

Deleted(f, g, ln, j) ==
    /\ g[Line(j)] \in Nat
    /\ g[Line(j)] <= f[Line(j)]
    /\ Line(j) = ln => g[Line(j)] = 0

Taken(f, g, ln, j) ==
    g[Line(j)] = IF Line(j) = ln THEN f[Line(j)] - 1 ELSE f[Line(j)]

\* echo "..." >> file
LEMMA AppendEffect ==
    ASSUME NEW f \in Files, NEW ln \in Lines, NEW j \in Jobs
    PROVE  Appended(f, AddLine(f, ln), ln, j)
<1>1. Line(j) \in Lines
  BY LineFacts
<1>. QED BY <1>1, AddLineFacts DEF Appended

\* sed -i, by the id or by the name
LEMMA DeleteEffect ==
    ASSUME NEW f \in Files, NEW ln \in Lines, NEW j \in Jobs
    PROVE  /\ Deleted(f, DeleteLines(f, IdPattern(ln.job)), ln, j)
           /\ Deleted(f, DeleteLines(f, NamePattern(ln.job)), ln, j)
<1>1. /\ Line(j) \in Lines
      /\ ln = Line(j) => Line(j) \in IdPattern(ln.job) /\ Line(j) \in NamePattern(ln.job)
  BY LineFacts
<1>2. ASSUME NEW pattern, Line(j) = ln => Line(j) \in pattern
      PROVE  Deleted(f, DeleteLines(f, pattern), ln, j)
  BY <1>1, <1>2, DeleteLinesFacts DEF Deleted, Files
<1>. QED BY <1>1, <1>2

\* while read
LEMMA TakeEffect ==
    ASSUME NEW f \in Files, NEW ln \in Lines, HasLine(f, ln), NEW j \in Jobs
    PROVE  Taken(f, TakeLine(f, ln), ln, j)
<1>1. Line(j) \in Lines
  BY LineFacts
<1>. QED BY <1>1, TakeLineFacts DEF Taken

-----------------------------------------------------------------------------
(* A job is in one place at a time *)

\* A job given up or cancelled stays so; it enters the hands that take it to
\* spawned_jobs by a status 0, spawned_jobs from those hands, and it is released
\* from there, after which its line has nothing left to do.
Advances(j) ==
    /\ GivenUp(j) => GivenUp(j)'
    /\ Cancelled(j) => Cancelled(j)'
    /\ InHand(j, {"addspawned", "tospawned"})' =>
         \/ InHand(j, {"addspawned", "tospawned"})
         \/ status[j] = Ready /\ ~GivenUp(j)
    /\ InSpawned(j)' => InSpawned(j) \/ InHand(j, {"tospawned"})
    /\ InHand(j, {"unspawn"})' => InHand(j, {"unspawn"}) \/ InSpawned(j)
    /\ Released(j)' => Released(j) \/ InSpawned(j)
    /\ ReleasedLast(j) => ReleasedLast(j)'

KeepsPlace(j) == OnePlace(j)' /\ OneLine(j)' /\ Advances(j)

LEMMA PlaceInit == Init => PlaceInv
<1> SUFFICES ASSUME Init, NEW j \in Jobs PROVE OnePlace(j) /\ ReleasedLast(j) /\ OneLine(j)
  BY DEF PlaceInv
<1>1. EmptyFile[Line(j)] = 0 /\ Line(j) # NoLine
  BY LineFacts, EmptyFileFacts
<1>2. j # NoJob
  BY JobsAssumption
<1>. QED BY <1>1, <1>2 DEF Init, OnePlace, ReleasedLast, OneLine, Nowhere,
   WithPlugin, InQueue, InPending, InSpawning, InSpawned, Released, InHand, Unread, HasLine

LEMMA PlaceStep ==
    ASSUME TypeInv, NEW j \in Jobs, OnePlace(j), OneLine(j), [Next]_vars
    PROVE  KeepsPlace(j)
<1>f. {queued, pending, spawning, spawned, todo} \subseteq Files
  BY DEF TypeInv, TypeOK
<1>t. /\ \A f \in {queued, pending, spawning, spawned, todo} : f[Line(j)] \in Nat
      /\ Line(j) \in Lines /\ Line(j) # NoLine /\ Line(j).job = j /\ Line(j).whole
      /\ cur \in Lines \cup {NoLine}
      /\ job \in [Jobs -> JobStates]
  BY <1>f, LineFacts DEF TypeInv, TypeOK, Files
<1>a. AtWork
  BY DEF TypeInv
<1>i. OnePlace(j) /\ OneLine(j)
  OBVIOUS
<1> USE DEF KeepsPlace, Advances, GivenUp, Cancelled, ReleasedLast, OnePlace, OneLine, Nowhere,
        WithPlugin, InQueue, InPending, InSpawning, InSpawned, Released,
        InHand, Unread, HasLine, AtWork, Move, DoneLine, Handling,
        SpawnedLoop, SpawningHands, SpawningLoop, QueueLoop, PendingLoop,
        InMemoryOnly, IsEmpty, fileVars, lockVars, pluginVars, daemonVars, scriptVars,
        cloudVars, slurmVars, pluginFrame
<1>1. ASSUME NEW i \in Jobs, Submit(i) PROVE KeepsPlace(j)
  BY <1>t, <1>a, <1>i, <1>1 DEF Submit
<1>2. ASSUME NEW i \in Jobs, UserCancel(i) PROVE KeepsPlace(j)
  BY <1>t, <1>a, <1>i, <1>2 DEF UserCancel
<1>3. CASE PluginCannotOpen
  BY <1>t, <1>a, <1>i, <1>3 DEF PluginCannotOpen
<1>4. CASE PluginTryVmLock
  BY <1>t, <1>a, <1>i, <1>4 DEF PluginTryVmLock
<1>5. CASE PluginQueue
  BY <1>t, <1>a, <1>i, <1>5 DEF PluginQueue
<1>6. CASE PluginFlush
  <2>1. pjob \in Jobs /\ Line(pjob) \in Lines /\ (pjob # j => Line(pjob) # Line(j))
    BY <1>a, <1>6, LineFacts DEF PluginFlush
  <2>2. queued' = queued \/ Appended(queued, queued', Line(pjob), j)
    BY <1>f, <1>6, <2>1, AppendEffect DEF PluginFlush
  <2>3. todo' = todo \/ (dpc \in QueueLoop /\ Appended(todo, todo', Line(pjob), j))
    BY <1>f, <1>6, <2>1, AppendEffect DEF PluginFlush
  <2>. QED BY <1>t, <1>a, <1>i, <1>6, <2>1, <2>2, <2>3
     DEF PluginFlush, Appended
<1>7. CASE PluginTryPendingLock
  BY <1>t, <1>a, <1>i, <1>7 DEF PluginTryPendingLock
<1>8. CASE PluginAppend
  <2>1. pjob \in Jobs /\ Line(pjob) \in Lines /\ (pjob # j => Line(pjob) # Line(j))
    BY <1>a, <1>8, LineFacts DEF PluginAppend
  <2>2. Appended(pending, pending', Line(pjob), j)
    BY <1>f, <1>8, <2>1, AppendEffect DEF PluginAppend
  <2>. QED BY <1>t, <1>a, <1>i, <1>8, <2>1, <2>2
     DEF PluginAppend, Appended
<1>9. CASE PluginNoFile \/ PluginReturn
  BY <1>t, <1>a, <1>i, <1>9 DEF PluginNoFile, PluginReturn
<1>10. CASE WindowElapsed
  BY <1>t, <1>a, <1>i, <1>10 DEF WindowElapsed
<1>11. CASE WindowOpen
  BY <1>t, <1>a, <1>i, <1>11 DEF WindowOpen
<1>12. CASE TryVmLock
  BY <1>t, <1>a, <1>i, <1>12 DEF TryVmLock
<1>13. ASSUME NEW ln \in Lines, ReadSpawned(ln) PROVE KeepsPlace(j)
  <2>1. Taken(todo, todo', ln, j)
    BY <1>f, <1>13, TakeEffect DEF ReadSpawned, ReadLine
  <2>. QED BY <1>t, <1>a, <1>i, <1>13, <2>1
     DEF ReadSpawned, ReadLine, SkipLine, Taken
<1>14. ASSUME NEW ln \in Lines, ReadSpawning(ln) PROVE KeepsPlace(j)
  <2>1. Taken(todo, todo', ln, j)
    BY <1>f, <1>14, TakeEffect DEF ReadSpawning, ReadLine, SkipLine
  <2>2. CASE ln.whole /\ status[ln.job] # NoStatus
    <3>1. ln.job \in Jobs /\ status \in [Jobs -> Statuses]
      BY LineFacts DEF TypeInv, TypeOK
    <3>2. /\ dpc' \in {"addspawned", "nohost", "clonefail", "incompatible", "ipfix"}
          /\ dpc' = "addspawned" => status[ln.job] = Ready
      BY <1>14, <2>2, <3>1, VerdictFacts DEF ReadSpawning
    <3>. QED BY <1>t, <1>a, <1>i, <1>14, <2>1, <2>2, <3>2 DEF ReadSpawning, ReadLine, Taken
  <2>3. CASE ~(ln.whole /\ status[ln.job] # NoStatus)
    BY <1>t, <1>a, <1>i, <1>14, <2>1, <2>3 DEF ReadSpawning, SkipLine, Taken
  <2>. QED BY <2>2, <2>3
<1>15. ASSUME NEW ln \in Lines, ReadQueued(ln) PROVE KeepsPlace(j)
  <2>1. Taken(todo, todo', ln, j)
    BY <1>f, <1>15, TakeEffect DEF ReadQueued, ReadLine, SkipLine
  <2>2. spawning' = spawning \/ Appended(spawning, spawning', ln, j)
    BY <1>f, <1>15, AppendEffect DEF ReadQueued
  <2>. QED BY <1>t, <1>a, <1>i, <1>15, <2>1, <2>2
     DEF ReadQueued, ReadLine, SkipLine, Appended, Taken
<1>16. ASSUME NEW ln \in Lines, ReadPending(ln) PROVE KeepsPlace(j)
  <2>1. Taken(todo, todo', ln, j)
    BY <1>f, <1>16, TakeEffect DEF ReadPending, ReadLine, SkipLine
  <2>2. spawning' = spawning \/ Appended(spawning, spawning', ln, j)
    BY <1>f, <1>16, AppendEffect DEF ReadPending
  <2>. QED BY <1>t, <1>a, <1>i, <1>16, <2>1, <2>2
     DEF ReadPending, ReadLine, SkipLine, Appended, Taken
<1>17. CASE OpenSpawned
  BY <1>t, <1>a, <1>i, <1>17 DEF OpenSpawned
<1>18. CASE RunJobRelease
  <2>1. cur.job \in Jobs /\ cur = Line(cur.job)
    BY <1>a, <1>18, LineFacts DEF RunJobRelease, TypeInv, WholeLines, WholeHands
  <2>2. /\ UNCHANGED pending
        /\ job' = job \/ job' = [job EXCEPT ![cur.job] = "released"]
    BY <1>18 DEF RunJobRelease, RecordsJob, HeldPriority
  <2>3. cur.job # j => cur # Line(j)
    BY <1>t
  <2>. QED BY <1>t, <1>a, <1>i, <1>18, <2>1, <2>2, <2>3 DEF RunJobRelease, JobStates
<1>19. CASE RunJobDone
  <2>1. Deleted(spawned, spawned', cur, j)
    BY <1>f, <1>a, <1>19, DeleteEffect DEF RunJobDone
  <2>. QED BY <1>t, <1>a, <1>i, <1>19, <2>1
     DEF RunJobDone, Deleted
<1>20. CASE EndSpawned
  BY <1>t, <1>a, <1>i, <1>20 DEF EndSpawned
<1>21. CASE OpenSpawning
  BY <1>t, <1>a, <1>i, <1>21 DEF OpenSpawning
<1>22. CASE EndSpawning
  BY <1>t, <1>a, <1>i, <1>22 DEF EndSpawning
<1>23. CASE NoHostDrop
  <2>1. Deleted(spawning, spawning', cur, j)
    BY <1>f, <1>a, <1>23, DeleteEffect DEF NoHostDrop
  <2>. QED BY <1>t, <1>a, <1>i, <1>23, <2>1
     DEF NoHostDrop, Deleted
<1>24. CASE NoHostRequeue
  <2>1. Appended(queued, queued', cur, j)
    BY <1>f, <1>a, <1>24, AppendEffect DEF NoHostRequeue
  <2>. QED BY <1>t, <1>a, <1>i, <1>24, <2>1
     DEF NoHostRequeue, Appended
<1>25. CASE CloneFailDrop
  <2>1. Deleted(spawning, spawning', cur, j)
    BY <1>f, <1>a, <1>25, DeleteEffect DEF CloneFailDrop
  <2>. QED BY <1>t, <1>a, <1>i, <1>25, <2>1
     DEF CloneFailDrop, Deleted
<1>26. CASE CloneFailRequeue
  <2>1. cur.job \in Jobs /\ Stub(cur.job) \in Lines /\ Line(j) # Stub(cur.job)
    BY <1>a, <1>26, LineFacts DEF CloneFailRequeue
  <2>2. Appended(queued, queued', Stub(cur.job), j)
    BY <1>f, <1>26, <2>1, AppendEffect DEF CloneFailRequeue
  <2>. QED BY <1>t, <1>a, <1>i, <1>26, <2>1, <2>2 DEF CloneFailRequeue, Appended
<1>27. CASE IncompatibleDrop
  <2>1. Deleted(spawning, spawning', cur, j)
    BY <1>f, <1>a, <1>27, DeleteEffect DEF IncompatibleDrop
  <2>. QED BY <1>t, <1>a, <1>i, <1>27, <2>1
     DEF IncompatibleDrop, Deleted
<1>28. CASE IncompatibleCancel
  BY <1>t, <1>a, <1>i, <1>28 DEF IncompatibleCancel, Scancel
<1>29. CASE IpFixDestroy
  BY <1>t, <1>a, <1>i, <1>29 DEF IpFixDestroy
<1>30. CASE IpFixCancel
  BY <1>t, <1>a, <1>i, <1>30 DEF IpFixCancel, Scancel
<1>31. CASE IpFixDrop
  <2>1. Deleted(spawning, spawning', cur, j)
    BY <1>f, <1>a, <1>31, DeleteEffect DEF IpFixDrop
  <2>. QED BY <1>t, <1>a, <1>i, <1>31, <2>1
     DEF IpFixDrop, Deleted
<1>32. CASE AddSpawnedDrop
  <2>1. Deleted(spawning, spawning', cur, j)
    BY <1>f, <1>a, <1>32, DeleteEffect DEF AddSpawnedDrop
  <2>. QED BY <1>t, <1>a, <1>i, <1>32, <2>1
     DEF AddSpawnedDrop, Deleted
<1>33. CASE AddSpawned
  <2>1. Appended(spawned, spawned', cur, j)
    BY <1>f, <1>a, <1>33, AppendEffect DEF AddSpawned
  <2>. QED BY <1>t, <1>a, <1>i, <1>33, <2>1
     DEF AddSpawned, Appended
<1>34. CASE OpenQueued
  BY <1>t, <1>a, <1>i, <1>34 DEF OpenQueued
<1>35. CASE Dequeue
  <2>1. Deleted(queued, DeleteLines(queued, IdPattern(cur.job)), cur, j)
    BY <1>f, <1>a, <1>35, DeleteEffect DEF Dequeue
  <2>. QED BY <1>t, <1>a, <1>i, <1>35, <2>1
     DEF Dequeue, Deleted
<1>36. CASE LaunchQueued
  BY <1>t, <1>a, <1>i, <1>36 DEF LaunchQueued
<1>37. CASE EndQueued
  BY <1>t, <1>a, <1>i, <1>37 DEF EndQueued
<1>38. CASE TryPendingLock
  BY <1>t, <1>a, <1>i, <1>38 DEF TryPendingLock
<1>39. CASE Unpend
  <2>1. Deleted(pending, pending', cur, j)
    BY <1>f, <1>a, <1>39, DeleteEffect DEF Unpend
  <2>. QED BY <1>t, <1>a, <1>i, <1>39, <2>1
     DEF Unpend, Deleted
<1>40. CASE LaunchPending
  BY <1>t, <1>a, <1>i, <1>40 DEF LaunchPending
<1>41. CASE EndPending
  BY <1>t, <1>a, <1>i, <1>41 DEF EndPending
<1>42. ASSUME NEW i \in Jobs, NEW r \in Runs, ScriptStep(i, r)
      PROVE  KeepsPlace(j)
  <2>1. UNCHANGED <<fileVars, pluginVars, daemonVars, job>>
    BY <1>42 DEF ScriptStep, OpenStatus, HostBusy, HostInvalid, HostFound, Clone,
       AddressFound, AddressMissing, Customise, ReportReady, scriptFrame
  <2>. QED BY <1>i, <2>1
<1>43. CASE UNCHANGED vars
  BY <1>i, <1>43 DEF vars
<1>. QED BY <1>1, <1>2, <1>3, <1>4, <1>5, <1>6, <1>7, <1>8, <1>9, <1>10,
   <1>11, <1>12, <1>13, <1>14, <1>15, <1>16, <1>17, <1>18, <1>19, <1>20,
   <1>21, <1>22, <1>23, <1>24, <1>25, <1>26, <1>27, <1>28, <1>29, <1>30,
   <1>31, <1>32, <1>33, <1>34, <1>35, <1>36, <1>37, <1>38, <1>39, <1>40,
   <1>41, <1>42, <1>43 DEF Next, PluginStep, DaemonStep, ReadStep,
   SpawnedStep, SpawningStep, LaunchStep

-----------------------------------------------------------------------------
(* What the daemon and the scripts know of a job's VM *)

LEMMA VmInit == Init => VmInv
<1> SUFFICES ASSUME Init, NEW j \in Jobs PROVE VmKnown(j)
  BY DEF VmInv
<1>1. EmptyFile[Line(j)] = 0 /\ Line(j) # NoLine
  BY LineFacts, EmptyFileFacts
<1>. QED BY <1>1 DEF Init, VmKnown, At, InHand, InSpawned, Unread, HasLine, Released,
   NoStatus, Ready

\* A script moves one of its job's runs and no other.
LEMMA GotoEffect ==
    ASSUME script \in [Jobs -> [Runs -> Stages]],
           NEW i \in Jobs, NEW r \in Runs, NEW stage, Goto(i, r, stage),
           NEW j \in Jobs, NEW q \in Runs
    PROVE  script'[j][q] = IF j = i /\ q = r THEN stage ELSE script[j][q]
BY DEF Goto

\* The steps after which a job's VM is known to be what it was known to be.
Quiet(j) ==
    /\ UNCHANGED <<vm, conf, status>>
    /\ \A q \in Runs : script'[j][q] \in {script[j][q], "start"}

LEMMA StartScriptQuiet ==
    ASSUME script \in [Jobs -> [Runs -> Stages]], NEW ln \in Lines,
           StartScript(ln), NEW j \in Jobs, NEW q \in Runs
    PROVE  script'[j][q] \in {script[j][q], "start"}
<1>1. ln.job \in Jobs
  BY LineFacts
<1>2. CASE ln.whole
  <2>1. PICK r \in Runs : Goto(ln.job, r, "start")
    BY <1>2 DEF StartScript
  <2>. QED BY <1>1, <2>1, GotoEffect
<1>3. CASE ~ln.whole
  BY <1>3 DEF StartScript
<1>. QED BY <1>2, <1>3

LEMMA ScriptsStill ==
    ASSUME [Next]_vars,
           ~LaunchQueued, ~LaunchPending, ~\E i \in Jobs, r \in Runs : ScriptStep(i, r)
    PROVE  UNCHANGED <<status, script, conf>>
<1> USE DEF fileVars, lockVars, pluginVars, daemonVars, scriptVars,
        cloudVars, slurmVars, pluginFrame
<1>1. CASE \E i \in Jobs : Submit(i) \/ UserCancel(i)
  BY <1>1 DEF Submit, UserCancel
<1>2. CASE PluginStep
  BY <1>2 DEF PluginStep, PluginCannotOpen, PluginTryVmLock, PluginQueue,
     PluginFlush, PluginTryPendingLock, PluginAppend, PluginNoFile,
     PluginReturn
<1>3. CASE WindowElapsed \/ WindowOpen \/ TryVmLock
  BY <1>3 DEF WindowElapsed, WindowOpen, TryVmLock
<1>4. CASE ReadStep
  BY <1>4 DEF ReadStep, ReadSpawned, ReadSpawning, ReadQueued, ReadPending
<1>5. CASE SpawnedStep
  BY <1>5 DEF SpawnedStep, OpenSpawned, RunJobRelease, RunJobDone, EndSpawned
<1>6. CASE SpawningStep
  BY <1>6 DEF SpawningStep, OpenSpawning, EndSpawning, NoHostDrop, NoHostRequeue,
     CloneFailDrop, CloneFailRequeue, IncompatibleDrop, IncompatibleCancel,
     IpFixDestroy, IpFixCancel, IpFixDrop, AddSpawnedDrop, AddSpawned
<1>7. CASE OpenQueued \/ Dequeue \/ EndQueued \/ TryPendingLock \/ Unpend \/ EndPending
  BY <1>7 DEF OpenQueued, Dequeue, EndQueued, TryPendingLock, Unpend, EndPending
<1>8. CASE UNCHANGED vars
  BY <1>8 DEF vars
<1>. QED BY <1>1, <1>2, <1>3, <1>4, <1>5, <1>6, <1>7, <1>8
   DEF Next, DaemonStep, LaunchStep

LEMMA QuietSteps ==
    ASSUME TypeInv, [Next]_vars, NEW j \in Jobs,
           ~IpFixDestroy, ~\E i \in Jobs, r \in Runs : ScriptStep(i, r)
    PROVE  Quiet(j)
<1> USE DEF Quiet, fileVars, lockVars, pluginVars, daemonVars, scriptVars,
        cloudVars, slurmVars, pluginFrame
<1>1. CASE \E i \in Jobs : Submit(i) \/ UserCancel(i)
  BY <1>1 DEF Submit, UserCancel
<1>2. CASE PluginStep
  BY <1>2 DEF PluginStep, PluginCannotOpen, PluginTryVmLock, PluginQueue,
     PluginFlush, PluginTryPendingLock, PluginAppend, PluginNoFile,
     PluginReturn
<1>3. CASE WindowElapsed \/ WindowOpen \/ TryVmLock
  BY <1>3 DEF WindowElapsed, WindowOpen, TryVmLock
<1>4. CASE ReadStep
  BY <1>4 DEF ReadStep, ReadSpawned, ReadSpawning, ReadQueued, ReadPending
<1>5. CASE SpawnedStep
  BY <1>5 DEF SpawnedStep, OpenSpawned, RunJobRelease, RunJobDone, EndSpawned
<1>6. CASE SpawningStep
  BY <1>6 DEF SpawningStep, OpenSpawning, EndSpawning, NoHostDrop, NoHostRequeue,
     CloneFailDrop, CloneFailRequeue, IncompatibleDrop, IncompatibleCancel,
     IpFixCancel, IpFixDrop, AddSpawnedDrop, AddSpawned
<1>7. CASE LaunchQueued \/ LaunchPending
  <2>1. cur \in Lines /\ script \in [Jobs -> [Runs -> Stages]] /\ StartScript(cur)
    BY <1>7 DEF TypeInv, TypeOK, AtWork, Handling, Move, LaunchQueued, LaunchPending
  <2>2. UNCHANGED <<vm, conf, status>>
    BY <1>7 DEF LaunchQueued, LaunchPending
  <2>. QED BY <2>1, <2>2, StartScriptQuiet
<1>8. CASE OpenQueued \/ Dequeue \/ EndQueued \/ TryPendingLock \/ Unpend \/ EndPending
  BY <1>8 DEF OpenQueued, Dequeue, EndQueued, TryPendingLock, Unpend, EndPending
<1>9. CASE UNCHANGED vars
  BY <1>9 DEF vars
<1>. QED BY <1>1, <1>2, <1>3, <1>4, <1>5, <1>6, <1>7, <1>8, <1>9
   DEF Next, DaemonStep, LaunchStep

LEMMA VmStep ==
    ASSUME TypeInv, NEW j \in Jobs, OnePlace(j), OneLine(j), VmKnown(j),
           [Next]_vars
    PROVE  VmKnown(j)'
<1>t. /\ script \in [Jobs -> [Runs -> Stages]]
      /\ status \in [Jobs -> Statuses]
      /\ vm \in [Jobs -> {"none", "partial", "cloned", "ready"}]
  BY DEF TypeInv, TypeOK
<1>p. OnePlace(j)' /\ Advances(j)
  BY PlaceStep DEF KeepsPlace
<1>c. Cancelled(j) => Cancelled(j)' /\ ~Released(j)'
  BY <1>p DEF Advances, Cancelled, Released
<1>v. VmKnown(j)
  OBVIOUS
<1>1. CASE Quiet(j)
  BY <1>p, <1>c, <1>v, <1>1 DEF Quiet, VmKnown, Advances, InHand, At
<1>2. CASE IpFixDestroy
  <2>1. cur.job \in Jobs /\ cur = Line(cur.job) /\ dpc' = "ipcancel"
    BY <1>2, LineFacts DEF IpFixDestroy, Move, TypeInv, AtWork, Handling,
       WholeLines, WholeHands, SpawningHands
  <2>2. UNCHANGED <<status, script, cur>> /\ vm' = [vm EXCEPT ![cur.job] = "none"]
    BY <1>2 DEF IpFixDestroy, daemonVars, scriptVars
  <2>3. CASE cur.job = j
    <3>1. GivenUp(j)' /\ InSpawning(j)'
      BY <2>1, <2>2, <2>3 DEF GivenUp, InSpawning, InHand, SpawningHands
    <3>2. ~InSpawned(j)' /\ ~Released(j)'
      BY <1>p, <3>1 DEF OnePlace
    <3>. QED BY <2>1, <3>1, <3>2 DEF VmKnown, InHand
  <2>4. CASE cur.job # j
    BY <1>t, <1>p, <1>c, <1>v, <2>1, <2>2, <2>4 DEF VmKnown, Advances, InHand, At
  <2>. QED BY <2>3, <2>4
<1>3. ASSUME NEW i \in Jobs, NEW r \in Runs, ScriptStep(i, r) PROVE VmKnown(j)'
  <2>1. UNCHANGED <<fileVars, pluginVars, daemonVars, job>>
    BY <1>3 DEF ScriptStep, OpenStatus, HostBusy, HostInvalid, HostFound, Clone,
       AddressFound, AddressMissing, Customise, ReportReady, scriptFrame, slurmVars
  <2>2. /\ UNCHANGED <<InHand(j, {"addspawned", "tospawned", "unspawn"}),
                      InSpawned(j), Released(j), Cancelled(j)>>
        /\ GivenUp(j) => GivenUp(j)'
    BY <1>p, <2>1 DEF InHand, InSpawned, Released, Cancelled, Advances, Unread, HasLine,
       fileVars, pluginVars, daemonVars
  <2>3. ASSUME NEW stage, Goto(i, r, stage), NEW q \in Runs
        PROVE  script'[j][q] = IF j = i /\ q = r THEN stage ELSE script[j][q]
    BY <1>t, <2>3, GotoEffect
  <2>. USE <1>t, <1>v, <2>2, <2>3 DEF VmKnown, At
  <2>4. CASE OpenStatus(i, r)
    BY <2>4 DEF OpenStatus, NoStatus, Ready, cloudVars
  <2>5. CASE HostBusy(i, r)
    BY <2>5 DEF HostBusy, NoHost, Ready, cloudVars
  <2>6. CASE HostInvalid(i, r)
    BY <2>6 DEF HostInvalid, Incompatible, Ready, cloudVars
  <2>7. CASE HostFound(i, r)
    BY <2>7 DEF HostFound, cloudVars
  <2>8. CASE Clone(i, r)
    <3>1. PICK created \in {"cloned", "none", "partial"} :
            vm' = [vm EXCEPT ![i] = Made(@, created)]
      BY <2>8 DEF Clone
    <3>2. vm[j] \in {"cloned", "ready"} => vm'[j] = vm[j]
      BY <1>t, <3>1 DEF Made
    <3>3. \/ Goto(i, r, "cloned") /\ UNCHANGED status
          \/ Goto(i, r, "idle") /\ status' = [status EXCEPT ![i] = NoClone]
      BY ONLY <2>8 DEF Clone
    <3>4. \A q \in Runs : script'[j][q] \in {script[j][q], "cloned", "idle"}
      BY <2>3, <3>3
    <3>5. status'[j] \in {status[j], NoClone}
      BY <1>t, <3>3
    <3>. QED BY <3>2, <3>4, <3>5 DEF NoClone, Ready
  <2>9. CASE AddressFound(i, r)
    BY <2>9 DEF AddressFound, cloudVars
  <2>10. CASE AddressMissing(i, r)
    BY <2>10 DEF AddressMissing, NoAddress, Ready, cloudVars
  <2>11. CASE Customise(i, r)
    BY <2>11 DEF Customise
  <2>12. CASE ReportReady(i, r)
    BY <2>12 DEF ReportReady, Ready, cloudVars
  <2>. QED BY <1>3, <2>4, <2>5, <2>6, <2>7, <2>8, <2>9, <2>10, <2>11, <2>12
     DEF ScriptStep
<1>. QED BY <1>1, <1>2, <1>3, QuietSteps

-----------------------------------------------------------------------------
(* What they know of its node *)

\* The way to a release: a line comes to be added to spawned_jobs by a status 0,
\* into spawned_jobs from there, under the spawned loop's eyes when slurmctld is
\* restarted, and is released from that loop.
Onward(j) ==
    /\ InHand(j, {"addspawned", "tospawned"})' =>
         InHand(j, {"addspawned", "tospawned"}) \/ status[j] = Ready
    /\ HasLine(spawned, Line(j))' =>
         HasLine(spawned, Line(j)) \/ InHand(j, {"tospawned"})
    /\ Unread(j, SpawnedLoop)' =>
         \/ Unread(j, SpawnedLoop)
         \/ HasLine(spawned, Line(j)) /\ nodes' = conf
    /\ InHand(j, {"release"})' => InHand(j, {"release"}) \/ Unread(j, SpawnedLoop)
    /\ Released(j)' => Released(j) \/ InHand(j, {"release"})
    /\ nodes' \in {nodes, conf}

LEMMA OnwardStep ==
    ASSUME TypeInv, NEW j \in Jobs, [Next]_vars
    PROVE  Onward(j)
<1>t. /\ {queued, pending, spawning, spawned, todo} \subseteq Files
      /\ job \in [Jobs -> JobStates]
      /\ Line(j) \in Lines /\ Line(j) # NoLine
  BY LineFacts DEF TypeInv, TypeOK
<1>u. spawned[Line(j)] \in Nat /\ todo[Line(j)] \in Nat
  BY <1>t DEF Files
<1> USE <1>u DEF Onward, InHand, Unread, HasLine, Released, Move, DoneLine, SpawnedLoop,
        fileVars, lockVars, pluginVars, daemonVars, scriptVars, cloudVars,
        slurmVars, pluginFrame
<1>1. CASE \E i \in Jobs : Submit(i) \/ UserCancel(i)
  BY <1>t, <1>1 DEF Submit, UserCancel
<1>2. CASE PluginStep
  BY <1>t, <1>2 DEF PluginStep, PluginCannotOpen, PluginTryVmLock, PluginQueue,
     PluginFlush, PluginTryPendingLock, PluginAppend, PluginNoFile,
     PluginReturn
<1>3. CASE WindowElapsed \/ WindowOpen \/ TryVmLock
  BY <1>3 DEF WindowElapsed, WindowOpen, TryVmLock
<1>4. ASSUME NEW ln \in Lines, ReadSpawned(ln) PROVE Onward(j)
  <2>1. Taken(todo, todo', ln, j)
    BY <1>t, <1>4, TakeEffect DEF ReadSpawned, ReadLine
  <2>. QED BY <1>4, <2>1 DEF ReadSpawned, ReadLine, Taken
<1>5. ASSUME NEW ln \in Lines, ReadSpawning(ln) PROVE Onward(j)
  <2>1. CASE ln.whole /\ status[ln.job] # NoStatus
    <3>1. ln.job \in Jobs /\ status \in [Jobs -> Statuses]
      BY LineFacts DEF TypeInv, TypeOK
    <3>2. /\ dpc' \in {"addspawned", "nohost", "clonefail", "incompatible", "ipfix"}
          /\ dpc' = "addspawned" => status[ln.job] = Ready
      BY <1>5, <2>1, <3>1, VerdictFacts DEF ReadSpawning
    <3>3. Line(j).job = j
      BY LineFacts
    <3>. QED BY <1>5, <2>1, <3>2, <3>3 DEF ReadSpawning, ReadLine
  <2>2. CASE ~(ln.whole /\ status[ln.job] # NoStatus)
    BY <1>5, <2>2 DEF ReadSpawning, SkipLine
  <2>. QED BY <2>1, <2>2
<1>6. ASSUME NEW ln \in Lines, ReadQueued(ln) \/ ReadPending(ln) PROVE Onward(j)
  BY <1>6 DEF ReadQueued, ReadPending, ReadLine, SkipLine
<1>7. CASE OpenSpawned
  BY <1>7 DEF OpenSpawned
<1>8. CASE RunJobRelease
  <2>1. cur.job \in Jobs /\ cur = Line(cur.job)
    BY <1>8, LineFacts DEF RunJobRelease, TypeInv, AtWork, Handling, WholeLines, WholeHands
  <2>2. job' = job \/ job' = [job EXCEPT ![cur.job] = "released"]
    BY <1>8 DEF RunJobRelease
  <2>3. Released(j)' => Released(j) \/ cur.job = j
    BY <1>t, <2>1, <2>2
  <2>. QED BY <1>8, <2>1, <2>3 DEF RunJobRelease
<1>9. CASE RunJobDone
  <2>1. Deleted(spawned, spawned', cur, j)
    BY <1>t, <1>9, DeleteEffect DEF RunJobDone, TypeInv, AtWork, Handling
  <2>. QED BY <1>t, <1>9, <2>1 DEF RunJobDone, Deleted
<1>10. CASE EndSpawned
  BY <1>10 DEF EndSpawned
<1>11. CASE AddSpawned
  <2>1. Appended(spawned, spawned', cur, j)
    BY <1>t, <1>11, AppendEffect DEF AddSpawned, TypeInv, AtWork, Handling
  <2>. QED BY <1>11, <2>1 DEF AddSpawned, Appended
<1>12. CASE IncompatibleCancel \/ IpFixCancel
  BY <1>t, <1>12 DEF IncompatibleCancel, IpFixCancel, Scancel
<1>13. CASE OpenSpawning \/ EndSpawning \/ NoHostDrop \/ NoHostRequeue
            \/ CloneFailDrop \/ CloneFailRequeue \/ IncompatibleDrop
            \/ IpFixDestroy \/ IpFixDrop \/ AddSpawnedDrop
  BY <1>13 DEF OpenSpawning, EndSpawning, NoHostDrop, NoHostRequeue, CloneFailDrop,
     CloneFailRequeue, IncompatibleDrop, IpFixDestroy, IpFixDrop, AddSpawnedDrop
<1>14. CASE LaunchStep
  BY <1>14 DEF LaunchStep, OpenQueued, Dequeue, LaunchQueued, EndQueued,
     TryPendingLock, Unpend, LaunchPending, EndPending
<1>15. ASSUME NEW i \in Jobs, NEW r \in Runs, ScriptStep(i, r) PROVE Onward(j)
  BY <1>15 DEF ScriptStep, OpenStatus, HostBusy, HostInvalid, HostFound, Clone,
     AddressFound, AddressMissing, Customise, ReportReady, scriptFrame
<1>16. CASE UNCHANGED vars
  BY <1>16 DEF vars
<1>. QED BY <1>1, <1>2, <1>3, <1>4, <1>5, <1>6, <1>7, <1>8, <1>9, <1>10, <1>11,
   <1>12, <1>13, <1>14, <1>15, <1>16
   DEF Next, DaemonStep, ReadStep, SpawnedStep, SpawningStep

\* slurm_slaves.conf only grows, and has the node before any status 0.
Written(j) ==
    /\ conf \subseteq conf'
    /\ status'[j] = Ready => status[j] = Ready \/ \E r \in Runs : At(j, r, "ready")
    /\ \A r \in Runs : script'[j][r] = "ready" => At(j, r, "ready") \/ j \in conf'

LEMMA WrittenStep ==
    ASSUME TypeInv, NEW j \in Jobs, [Next]_vars
    PROVE  Written(j)
<1>t. /\ script \in [Jobs -> [Runs -> Stages]]
      /\ status \in [Jobs -> Statuses]
  BY DEF TypeInv, TypeOK
<1>1. CASE Quiet(j)
  BY <1>1 DEF Quiet, Written, At
<1>2. CASE IpFixDestroy
  BY <1>2 DEF IpFixDestroy, Written, At, scriptVars
<1>3. ASSUME NEW i \in Jobs, NEW r \in Runs, ScriptStep(i, r) PROVE Written(j)
  <2>3. ASSUME NEW stage, Goto(i, r, stage), NEW q \in Runs
        PROVE  script'[j][q] = IF j = i /\ q = r THEN stage ELSE script[j][q]
    BY <1>t, <2>3, GotoEffect
  <2>. USE <1>t, <2>3 DEF Written, At
  <2>4. CASE OpenStatus(i, r)
    BY <2>4 DEF OpenStatus, NoStatus, Ready, cloudVars
  <2>5. CASE HostBusy(i, r)
    BY <2>5 DEF HostBusy, NoHost, Ready, cloudVars
  <2>6. CASE HostInvalid(i, r)
    BY <2>6 DEF HostInvalid, Incompatible, Ready, cloudVars
  <2>7. CASE HostFound(i, r)
    BY <2>7 DEF HostFound, cloudVars
  <2>8. CASE Clone(i, r)
    <3>1. \/ Goto(i, r, "cloned") /\ UNCHANGED <<status, conf>>
          \/ Goto(i, r, "idle") /\ status' = [status EXCEPT ![i] = NoClone] /\ UNCHANGED conf
      BY ONLY <2>8 DEF Clone
    <3>. QED BY <3>1 DEF NoClone, Ready
  <2>9. CASE AddressFound(i, r)
    BY <2>9 DEF AddressFound, cloudVars
  <2>10. CASE AddressMissing(i, r)
    BY <2>10 DEF AddressMissing, NoAddress, Ready, cloudVars
  <2>11. CASE Customise(i, r)
    BY <2>11 DEF Customise
  <2>12. CASE ReportReady(i, r)
    BY <2>12 DEF ReportReady, Ready, cloudVars
  <2>. QED BY <1>3, <2>4, <2>5, <2>6, <2>7, <2>8, <2>9, <2>10, <2>11, <2>12
     DEF ScriptStep
<1>. QED BY <1>1, <1>2, <1>3, QuietSteps

LEMMA NodeInit == Init => NodeInv
<1> SUFFICES ASSUME Init, NEW j \in Jobs PROVE NodeKnown(j) /\ nodes \subseteq conf
  BY DEF NodeInv, Init
<1>1. EmptyFile[Line(j)] = 0 /\ Line(j) # NoLine
  BY LineFacts, EmptyFileFacts
<1>. QED BY <1>1 DEF Init, NodeKnown, At, InHand, Unread, HasLine, Released,
   NoStatus, Ready

LEMMA NodeStep == TypeInv /\ NodeInv /\ [Next]_vars => NodeInv'
<1> SUFFICES ASSUME TypeInv, NodeInv, [Next]_vars PROVE NodeInv'
  OBVIOUS
<1>1. ASSUME NEW j \in Jobs
      PROVE  (nodes \subseteq conf)' /\ nodes \subseteq nodes' /\ NodeKnown(j)'
  <2>1. Onward(j) /\ Written(j)
    BY OnwardStep, WrittenStep
  <2>2. NodeKnown(j) /\ nodes \subseteq conf
    BY DEF NodeInv
  <2>3. (nodes \subseteq conf)' /\ nodes \subseteq nodes'
    BY <2>1, <2>2 DEF Onward, Written
  <2>. QED BY <2>1, <2>2, <2>3 DEF Onward, Written, NodeKnown, InHand, At
<1>2. (nodes \subseteq conf)'
  BY <1>1, TypeStep DEF NodeInv, TypeInv, TypeOK
<1>. QED BY <1>1, <1>2 DEF NodeInv

-----------------------------------------------------------------------------
(* How a job and its VM change: one of them at a time, and of one job *)

JobTurn(i) ==
    \/ job[i] = "new" /\ job'[i] = "submitting"
    \/ job[i] = "submitting" /\ job'[i] \in {"held", "cancelled"}
    \/ job[i] = "held" /\ job'[i] = "released" /\ InHand(i, {"release"})
    \/ job[i] = "held" /\ job'[i] = "cancelled"
    \/ job[i] = "released" /\ job'[i] = "cancelled" /\ InHand(i, {"scancel", "ipcancel"})

VmTurn(i) ==
    \/ InHand(i, {"ipfix"}) /\ vm'[i] = "none"
    \/ /\ \E r \in Runs : At(i, r, "reserved")
       /\ vm[i] \in {"none", "partial"} /\ vm'[i] \in {"none", "partial", "cloned"}
    \/ /\ \E r \in Runs : At(i, r, "addressed")
       /\ vm[i] = "cloned" /\ vm'[i] = "ready"

Turn ==
    \/ UNCHANGED <<job, vm>>
    \/ UNCHANGED vm /\ \E i \in Jobs : job' = [job EXCEPT ![i] = job'[i]] /\ JobTurn(i)
    \/ UNCHANGED job /\ \E i \in Jobs : vm' = [vm EXCEPT ![i] = vm'[i]] /\ VmTurn(i)

LEMMA TurnStep == TypeInv /\ [Next]_vars => Turn
<1> SUFFICES ASSUME TypeInv, [Next]_vars PROVE Turn
  OBVIOUS
<1>t. /\ job \in [Jobs -> JobStates]
      /\ vm \in [Jobs -> {"none", "partial", "cloned", "ready"}]
      /\ AtWork
      /\ dpc \in Handling => cur.job \in Jobs
      /\ dpc \in WholeHands => cur = Line(cur.job)
  BY LineFacts DEF TypeInv, TypeOK, AtWork, WholeLines, WholeHands, SpawningHands, Handling
<1> USE DEF Turn, fileVars, lockVars, pluginVars, daemonVars, scriptVars,
        cloudVars, slurmVars, pluginFrame
<1>1. ASSUME NEW i \in Jobs, Submit(i) \/ UserCancel(i) PROVE Turn
  BY <1>t, <1>1 DEF Submit, UserCancel, JobTurn
<1>2. CASE PluginNoFile \/ PluginReturn
  BY <1>t, <1>2 DEF PluginNoFile, PluginReturn, JobTurn, AtWork
<1>3. CASE PluginStep /\ ~PluginNoFile /\ ~PluginReturn
  BY <1>3 DEF PluginStep, PluginCannotOpen, PluginTryVmLock, PluginQueue,
     PluginFlush, PluginTryPendingLock, PluginAppend
<1>4. CASE WindowElapsed \/ WindowOpen \/ TryVmLock
  BY <1>4 DEF WindowElapsed, WindowOpen, TryVmLock
<1>5. CASE ReadStep
  BY <1>5 DEF ReadStep, ReadSpawned, ReadSpawning, ReadQueued, ReadPending
<1>6. CASE RunJobRelease
  <2>1. \/ UNCHANGED job
        \/ job[cur.job] = "held" /\ job' = [job EXCEPT ![cur.job] = "released"]
    BY <1>6 DEF RunJobRelease
  <2>2. InHand(cur.job, {"release"}) /\ cur.job \in Jobs /\ UNCHANGED vm
    BY <1>t, <1>6 DEF RunJobRelease, InHand, Move, WholeHands, Handling
  <2>. QED BY <1>t, <2>1, <2>2 DEF JobTurn
<1>7. CASE OpenSpawned \/ RunJobDone \/ EndSpawned
  BY <1>7 DEF OpenSpawned, RunJobDone, EndSpawned
<1>8. CASE IncompatibleCancel \/ IpFixCancel
  <2>1. Scancel(cur.job) /\ UNCHANGED vm /\ dpc \in {"scancel", "ipcancel"}
    BY <1>8 DEF IncompatibleCancel, IpFixCancel, Move
  <2>2. InHand(cur.job, {"scancel", "ipcancel"}) /\ cur.job \in Jobs
    BY <1>t, <2>1 DEF InHand, WholeHands, SpawningHands, Handling
  <2>. QED BY <1>t, <2>1, <2>2 DEF Scancel, JobTurn
<1>9. CASE IpFixDestroy
  <2>1. InHand(cur.job, {"ipfix"}) /\ cur.job \in Jobs
    BY <1>t, <1>9 DEF IpFixDestroy, Move, InHand, WholeHands, SpawningHands, Handling
  <2>. QED BY <1>t, <1>9, <2>1 DEF IpFixDestroy, VmTurn
<1>10. CASE OpenSpawning \/ EndSpawning \/ NoHostDrop \/ NoHostRequeue
            \/ CloneFailDrop \/ CloneFailRequeue \/ IncompatibleDrop
            \/ IpFixDrop \/ AddSpawnedDrop \/ AddSpawned
  BY <1>10 DEF OpenSpawning, EndSpawning, NoHostDrop, NoHostRequeue, CloneFailDrop,
     CloneFailRequeue, IncompatibleDrop, IpFixDrop, AddSpawnedDrop, AddSpawned
<1>11. CASE LaunchStep
  BY <1>11 DEF LaunchStep, OpenQueued, Dequeue, LaunchQueued, EndQueued,
     TryPendingLock, Unpend, LaunchPending, EndPending
<1>12. ASSUME NEW i \in Jobs, NEW r \in Runs, Clone(i, r) PROVE Turn
  <2>1. PICK created \in {"cloned", "none", "partial"} :
          vm' = [vm EXCEPT ![i] = Made(@, created)]
    BY <1>12 DEF Clone
  <2>2. At(i, r, "reserved") /\ UNCHANGED job
    BY <1>12 DEF Clone, scriptFrame
  <2>3. CASE Made(vm[i], created) = vm[i]
    BY <1>t, <2>1, <2>2, <2>3
  <2>4. CASE Made(vm[i], created) # vm[i]
    <3>1. vm[i] \in {"none", "partial"} /\ vm'[i] \in {"none", "partial", "cloned"}
      BY <1>t, <2>1, <2>4 DEF Made
    <3>2. vm' = [vm EXCEPT ![i] = vm'[i]]
      BY <1>t, <2>1
    <3>. QED BY <2>2, <3>1, <3>2 DEF VmTurn
  <2>. QED BY <2>3, <2>4
<1>13. ASSUME NEW i \in Jobs, NEW r \in Runs, Customise(i, r) PROVE Turn
  BY <1>t, <1>13 DEF Customise, scriptFrame, VmTurn
<1>14. ASSUME NEW i \in Jobs, NEW r \in Runs,
              ScriptStep(i, r), ~Clone(i, r), ~Customise(i, r)
       PROVE  Turn
  BY <1>14 DEF ScriptStep, OpenStatus, HostBusy, HostInvalid, HostFound,
     AddressFound, AddressMissing, ReportReady, scriptFrame
<1>15. CASE UNCHANGED vars
  BY <1>15 DEF vars
<1>. QED BY <1>1, <1>2, <1>3, <1>4, <1>5, <1>6, <1>7, <1>8, <1>9, <1>10, <1>11,
   <1>12, <1>13, <1>14, <1>15 DEF Next, DaemonStep, SpawnedStep, SpawningStep

-----------------------------------------------------------------------------
(* What is made for a job that is not accepted yet *)

LEMMA NewInit == Init => NewInv
BY DEF Init, NewInv, At

LEMMA NewStep == TypeInv /\ PlaceInv /\ NewInv /\ [Next]_vars => NewInv'
<1> SUFFICES ASSUME TypeInv, PlaceInv, NewInv, [Next]_vars, NEW j \in Jobs, job'[j] = "new"
             PROVE  vm'[j] = "none" /\ \A q \in Runs : script'[j][q] = "idle"
  BY DEF NewInv, At
<1>t. /\ job \in [Jobs -> JobStates]
      /\ vm \in [Jobs -> {"none", "partial", "cloned", "ready"}]
      /\ script \in [Jobs -> [Runs -> Stages]]
  BY DEF TypeInv, TypeOK
<1>1. job[j] = "new" /\ vm[j] = "none" /\ \A q \in Runs : At(j, q, "idle")
  BY <1>t, TurnStep DEF Turn, JobTurn, NewInv
<1>2. vm'[j] = "none"
  <2>1. ~VmTurn(j)
    BY <1>1, PlaceStep DEF VmTurn, At, PlaceInv, OnePlace, Nowhere, InSpawning, InHand, SpawningHands
  <2>. QED BY <1>t, <1>1, <2>1, TurnStep DEF Turn
<1>3. ASSUME NEW q \in Runs PROVE script'[j][q] = "idle"
  <2>1. CASE \E i \in Jobs, r \in Runs : ScriptStep(i, r)
    <3>1. PICK i \in Jobs, r \in Runs : ScriptStep(i, r)
      BY <2>1
    <3>2. ASSUME NEW stage, Goto(i, r, stage), i # j
          PROVE  script'[j][q] = script[j][q]
      BY <1>t, <3>2, GotoEffect
    <3>3. i # j
      BY <1>1, <3>1 DEF ScriptStep, OpenStatus, HostBusy, HostInvalid, HostFound, Clone,
         AddressFound, AddressMissing, Customise, ReportReady, At
    <3>. QED BY <1>1, <3>1, <3>2, <3>3 DEF ScriptStep, OpenStatus, HostBusy, HostInvalid,
         HostFound, Clone, AddressFound, AddressMissing, Customise, ReportReady, At
  <2>2. CASE LaunchQueued \/ LaunchPending
    <3>1. cur \in Lines /\ StartScript(cur) /\ dpc \in {"launch", "launchpending"}
      BY <2>2 DEF TypeInv, AtWork, Handling, Move, LaunchQueued, LaunchPending
    <3>2. cur # Line(j)
      BY <1>1, <3>1 DEF PlaceInv, OnePlace, Nowhere, InSpawning, InHand
    <3>3. CASE cur.whole
      <4>1. cur.job \in Jobs /\ cur.job # j
        BY <3>1, <3>2, <3>3, LineFacts
      <4>2. PICK r \in Runs : Goto(cur.job, r, "start")
        BY <3>1, <3>3 DEF StartScript
      <4>. QED BY <1>t, <1>1, <4>1, <4>2, GotoEffect DEF At
    <3>4. CASE ~cur.whole
      BY <1>1, <3>1, <3>4 DEF StartScript, At
    <3>. QED BY <3>3, <3>4
  <2>3. CASE UNCHANGED script
    BY <1>1, <2>3 DEF At
  <2>. QED BY <2>1, <2>2, <2>3, ScriptsStill
<1>. QED BY <1>2, <1>3

-----------------------------------------------------------------------------
(* What is kept where, when no id and no name occurs in another *)

LEMMA DeleteExact ==
    ASSUME Collisionless, NEW f \in Files, NEW ln \in Lines, ln.whole,
           NEW j \in Jobs, Line(j) # ln
    PROVE  /\ DeleteLines(f, IdPattern(ln.job))[Line(j)] = f[Line(j)]
           /\ DeleteLines(f, NamePattern(ln.job))[Line(j)] = f[Line(j)]
<1>1. ln.job \in Jobs /\ ln.job # j /\ Line(j) \in Lines /\ Line(j).job = j
  BY LineFacts
<1>2. Line(j) \notin IdPattern(ln.job) /\ Line(j) \notin NamePattern(ln.job)
  BY <1>1 DEF Collisionless, IdPattern, NamePattern
<1>. QED BY <1>1, <1>2 DEF DeleteLines

\* The commands that end a line without a word to anybody.
Dropped(j) ==
    \/ cur = Line(j) /\ (dpc \in {"unspawn", "ipdrop", "restub"} \/ IncompatibleCancel)
    \/ AstrayTurnedAway(j)

KeepsRecord(j) == Kept(j)' /\ (Recorded(j) => Recorded(j)' \/ Dropped(j))

LEMMA KeptInit == Init => \A j \in Jobs : Kept(j)
<1> SUFFICES ASSUME Init, NEW j \in Jobs PROVE Kept(j)
  OBVIOUS
<1>1. EmptyFile[Line(j)] = 0 /\ Line(j) # NoLine
  BY LineFacts, EmptyFileFacts
<1>. QED BY <1>1 DEF Init, Kept, Unread, InHand, HasLine

LEMMA KeptStep ==
    ASSUME TypeInv, Collisionless, NEW j \in Jobs, OneLine(j), Kept(j), [Next]_vars
    PROVE  KeepsRecord(j)
<1>f. {queued, pending, spawning, spawned, todo} \subseteq Files
  BY DEF TypeInv, TypeOK
<1>t. /\ \A f \in {queued, pending, spawning, spawned, todo} : f[Line(j)] \in Nat
      /\ Line(j) \in Lines /\ Line(j) # NoLine
  BY <1>f, LineFacts DEF Files
<1>a. /\ dpc \in Handling => cur \in Lines /\ cur.job \in Jobs
      /\ dpc \notin Handling => cur # Line(j)
      /\ dpc \in WholeHands => cur.whole
  BY <1>t, LineFacts DEF TypeInv, AtWork, WholeLines
<1>i. OneLine(j) /\ Kept(j)
  OBVIOUS
<1>d. ASSUME NEW f \in {queued, pending, spawning, spawned, todo}, cur \in Lines, cur.whole
      PROVE  /\ Deleted(f, DeleteLines(f, IdPattern(cur.job)), cur, j)
             /\ Deleted(f, DeleteLines(f, NamePattern(cur.job)), cur, j)
             /\ cur # Line(j) =>
                  /\ DeleteLines(f, IdPattern(cur.job))[Line(j)] = f[Line(j)]
                  /\ DeleteLines(f, NamePattern(cur.job))[Line(j)] = f[Line(j)]
  BY <1>f, <1>d, DeleteEffect, DeleteExact
<1> USE DEF KeepsRecord, Kept, OneLine, Recorded, Filed, Dropped, InHand, Unread, HasLine,
        Move, DoneLine, IsEmpty, Handling, WholeHands,
        SpawnedLoop, SpawningHands, SpawningLoop, QueueLoop, PendingLoop, InMemoryOnly,
        fileVars, lockVars, pluginVars, daemonVars, scriptVars, cloudVars,
        slurmVars, pluginFrame
<1>1. CASE \E i \in Jobs : Submit(i) \/ UserCancel(i)
  BY <1>i, <1>1 DEF Submit, UserCancel
<1>2. CASE PluginCannotOpen \/ PluginTryVmLock \/ PluginQueue \/ PluginTryPendingLock
           \/ PluginNoFile \/ PluginReturn
  BY <1>i, <1>2 DEF PluginCannotOpen, PluginTryVmLock, PluginQueue, PluginTryPendingLock,
     PluginNoFile, PluginReturn
<1>3. CASE PluginFlush
  <2>1. Line(pjob) \in Lines
    BY <1>3, LineFacts DEF PluginFlush, TypeInv, AtWork
  <2>2. queued' = queued \/ Appended(queued, queued', Line(pjob), j)
    BY <1>f, <1>3, <2>1, AppendEffect DEF PluginFlush
  <2>3. Appended(todo, AddLine(todo, Line(pjob)), Line(pjob), j)
    BY <1>f, <2>1, AppendEffect
  <2>4. /\ UNCHANGED <<pending, spawning, spawned, dpc, cur>>
        /\ todo' = todo \/ (todo' = AddLine(todo, Line(pjob)) /\ dpc \in QueueLoop)
    BY <1>3 DEF PluginFlush
  <2>. QED BY <1>t, <1>i, <2>2, <2>3, <2>4 DEF Appended
<1>4. CASE PluginAppend
  <2>1. Line(pjob) \in Lines
    BY <1>4, LineFacts DEF PluginAppend, TypeInv, AtWork
  <2>2. Appended(pending, pending', Line(pjob), j)
    BY <1>f, <1>4, <2>1, AppendEffect DEF PluginAppend
  <2>. QED BY <1>t, <1>i, <1>4, <2>2 DEF PluginAppend, Appended
<1>5. CASE WindowElapsed \/ WindowOpen \/ TryVmLock
  BY <1>i, <1>5 DEF WindowElapsed, WindowOpen, TryVmLock
<1>6. ASSUME NEW ln \in Lines, ReadSpawned(ln) PROVE KeepsRecord(j)
  <2>1. Taken(todo, todo', ln, j)
    BY <1>f, <1>6, TakeEffect DEF ReadSpawned, ReadLine
  <2>. QED BY <1>t, <1>a, <1>i, <1>6, <2>1 DEF ReadSpawned, ReadLine, Taken
<1>7. ASSUME NEW ln \in Lines, ReadSpawning(ln) PROVE KeepsRecord(j)
  <2>1. Taken(todo, todo', ln, j)
    BY <1>f, <1>7, TakeEffect DEF ReadSpawning, ReadLine, SkipLine
  <2>2. CASE ln.whole /\ status[ln.job] # NoStatus
    <3>1. dpc' \in {"addspawned", "nohost", "clonefail", "incompatible", "ipfix"}
      BY <1>7, <2>2, LineFacts, VerdictFacts DEF ReadSpawning, TypeInv, TypeOK
    <3>. QED BY <1>t, <1>a, <1>i, <1>7, <2>1, <2>2, <3>1 DEF ReadSpawning, ReadLine, Taken
  <2>3. CASE ~(ln.whole /\ status[ln.job] # NoStatus)
    BY <1>t, <1>a, <1>i, <1>7, <2>1, <2>3 DEF ReadSpawning, SkipLine, Taken
  <2>. QED BY <2>2, <2>3
<1>8. ASSUME NEW ln \in Lines, ReadQueued(ln) \/ ReadPending(ln) PROVE KeepsRecord(j)
  <2>1. Appended(spawning, AddLine(spawning, ln), ln, j)
    BY <1>f, AppendEffect
  <2>2. Taken(todo, todo', ln, j)
    BY <1>f, <1>8, TakeEffect DEF ReadQueued, ReadPending, ReadLine, SkipLine
  <2>3. CASE MayLaunch
    BY <1>t, <1>a, <1>i, <1>8, <2>1, <2>2, <2>3
       DEF ReadQueued, ReadPending, ReadLine, Appended, Taken
  <2>4. CASE ~MayLaunch /\ ReadQueued(ln)
    <3>1. rate > Limit
      BY <2>4, BoundAssumption DEF MayLaunch, TypeInv, TypeOK
    <3>. QED BY <1>t, <1>a, <1>i, <2>2, <2>4, <3>1
       DEF ReadQueued, SkipLine, Taken, AstrayTurnedAway
  <2>5. CASE ~MayLaunch /\ ReadPending(ln)
    BY <1>t, <1>a, <1>i, <2>2, <2>5 DEF ReadPending, SkipLine, Taken
  <2>. QED BY <1>8, <2>3, <2>4, <2>5
<1>9. CASE OpenSpawned \/ RunJobRelease
  <2>1. UNCHANGED pending
    BY <1>9 DEF OpenSpawned, RunJobRelease, RecordsJob, HeldPriority
  <2>. QED BY <1>i, <1>9, <2>1 DEF OpenSpawned, RunJobRelease
<1>10. CASE RunJobDone
  <2>1. cur # Line(j) => spawned'[Line(j)] = spawned[Line(j)]
    BY <1>a, <1>d, <1>10 DEF RunJobDone
  <2>. QED BY <1>t, <1>i, <1>10, <2>1 DEF RunJobDone
<1>11. CASE EndSpawned \/ OpenSpawning \/ EndSpawning
  BY <1>t, <1>i, <1>11 DEF EndSpawned, OpenSpawning, EndSpawning
<1>12. CASE NoHostDrop
  <2>1. cur # Line(j) => spawning'[Line(j)] = spawning[Line(j)]
    BY <1>a, <1>d, <1>12 DEF NoHostDrop
  <2>. QED BY <1>t, <1>i, <1>12, <2>1 DEF NoHostDrop
<1>13. CASE NoHostRequeue
  <2>1. Appended(queued, queued', cur, j)
    BY <1>f, <1>a, <1>13, AppendEffect DEF NoHostRequeue
  <2>. QED BY <1>t, <1>i, <1>13, <2>1 DEF NoHostRequeue, Appended
<1>14. CASE CloneFailDrop
  <2>1. cur # Line(j) => spawning'[Line(j)] = spawning[Line(j)]
    BY <1>a, <1>d, <1>14 DEF CloneFailDrop
  <2>. QED BY <1>t, <1>i, <1>14, <2>1 DEF CloneFailDrop
<1>15. CASE CloneFailRequeue
  <2>1. Stub(cur.job) \in Lines /\ Line(j) # Stub(cur.job)
    BY <1>a, <1>15, LineFacts DEF CloneFailRequeue
  <2>2. Appended(queued, queued', Stub(cur.job), j)
    BY <1>f, <1>15, <2>1, AppendEffect DEF CloneFailRequeue
  <2>. QED BY <1>t, <1>i, <1>15, <2>1, <2>2 DEF CloneFailRequeue, Appended
<1>16. CASE IncompatibleDrop
  <2>1. cur # Line(j) => spawning'[Line(j)] = spawning[Line(j)]
    BY <1>a, <1>d, <1>16 DEF IncompatibleDrop
  <2>. QED BY <1>t, <1>i, <1>16, <2>1 DEF IncompatibleDrop
<1>17. CASE IncompatibleCancel
  <2>1. UNCHANGED <<queued, pending, spawning, spawned>>
    BY <1>17 DEF IncompatibleCancel
  <2>. QED BY <1>i, <1>17, <2>1 DEF IncompatibleCancel
<1>18. CASE IpFixDestroy \/ IpFixCancel
  BY <1>i, <1>18 DEF IpFixDestroy, IpFixCancel
<1>19. CASE IpFixDrop
  <2>1. cur # Line(j) => spawning'[Line(j)] = spawning[Line(j)]
    BY <1>a, <1>d, <1>19 DEF IpFixDrop
  <2>. QED BY <1>t, <1>i, <1>19, <2>1 DEF IpFixDrop
<1>20. CASE AddSpawnedDrop
  <2>1. cur # Line(j) => spawning'[Line(j)] = spawning[Line(j)]
    BY <1>a, <1>d, <1>20 DEF AddSpawnedDrop
  <2>. QED BY <1>t, <1>i, <1>20, <2>1 DEF AddSpawnedDrop
<1>21. CASE AddSpawned
  <2>1. Appended(spawned, spawned', cur, j)
    BY <1>f, <1>a, <1>21, AppendEffect DEF AddSpawned
  <2>. QED BY <1>t, <1>i, <1>21, <2>1 DEF AddSpawned, Appended
<1>22. CASE OpenQueued \/ EndQueued \/ TryPendingLock \/ EndPending
  BY <1>t, <1>i, <1>22 DEF OpenQueued, EndQueued, TryPendingLock, EndPending
<1>23. CASE Dequeue
  <2>1. cur # Line(j) => queued'[Line(j)] = queued[Line(j)]
    BY <1>a, <1>d, <1>23 DEF Dequeue
  <2>. QED BY <1>t, <1>i, <1>23, <2>1 DEF Dequeue
<1>24. CASE Unpend
  <2>1. cur # Line(j) => pending'[Line(j)] = pending[Line(j)]
    BY <1>a, <1>d, <1>24 DEF Unpend
  <2>. QED BY <1>t, <1>i, <1>24, <2>1 DEF Unpend
<1>25. CASE LaunchQueued \/ LaunchPending
  BY <1>t, <1>i, <1>25 DEF LaunchQueued, LaunchPending
<1>26. ASSUME NEW i \in Jobs, NEW r \in Runs, ScriptStep(i, r) PROVE KeepsRecord(j)
  <2>1. UNCHANGED <<fileVars, daemonVars>>
    BY <1>26 DEF ScriptStep, OpenStatus, HostBusy, HostInvalid, HostFound, Clone,
       AddressFound, AddressMissing, Customise, ReportReady, scriptFrame
  <2>. QED BY <1>i, <2>1
<1>27. CASE UNCHANGED vars
  BY <1>i, <1>27 DEF vars
<1>. QED BY <1>1, <1>2, <1>3, <1>4, <1>5, <1>6, <1>7, <1>8, <1>9, <1>10, <1>11,
   <1>12, <1>13, <1>14, <1>15, <1>16, <1>17, <1>18, <1>19, <1>20, <1>21, <1>22,
   <1>23, <1>24, <1>25, <1>26, <1>27
   DEF Next, PluginStep, DaemonStep, ReadStep, SpawnedStep, SpawningStep, LaunchStep

-----------------------------------------------------------------------------
(* What slurmctld and the toolkit answer, when they always do *)

\* A line is dropped by run_job after scontrol release, by ip_fix after scancel.
LEMMA DropsAfterAnswer ==
    ASSUME TypeInv, NEW j \in Jobs, [Next]_vars,
           InHand(j, {"unspawn", "ipdrop"})', ~InHand(j, {"unspawn", "ipdrop"})
    PROVE  \/ InHand(j, {"release"}) /\ RunJobRelease
           \/ InHand(j, {"ipcancel"}) /\ IpFixCancel
<1>t. Line(j) # NoLine
  BY LineFacts
<1> USE <1>t DEF InHand, Move, DoneLine, fileVars, lockVars, pluginVars, daemonVars,
        scriptVars, cloudVars, slurmVars, pluginFrame
<1>1. CASE \E i \in Jobs : Submit(i) \/ UserCancel(i)
  BY <1>1 DEF Submit, UserCancel
<1>2. CASE PluginStep
  BY <1>2 DEF PluginStep, PluginCannotOpen, PluginTryVmLock, PluginQueue,
     PluginFlush, PluginTryPendingLock, PluginAppend, PluginNoFile,
     PluginReturn
<1>3. CASE WindowElapsed \/ WindowOpen \/ TryVmLock
  BY <1>3 DEF WindowElapsed, WindowOpen, TryVmLock
<1>4. ASSUME NEW ln \in Lines, ReadSpawning(ln) PROVE FALSE
  <2>1. ln.whole /\ status[ln.job] # NoStatus =>
          Verdict(status[ln.job]) \in
            {"addspawned", "nohost", "clonefail", "incompatible", "ipfix"}
    BY LineFacts, VerdictFacts DEF TypeInv, TypeOK
  <2>. QED BY <1>4, <2>1 DEF ReadSpawning, SkipLine
<1>5. ASSUME NEW ln \in Lines, ReadSpawned(ln) \/ ReadQueued(ln) \/ ReadPending(ln)
      PROVE  FALSE
  BY <1>5 DEF ReadSpawned, ReadQueued, ReadPending, SkipLine
<1>6. CASE SpawnedStep
  BY <1>6 DEF SpawnedStep, OpenSpawned, RunJobRelease, RunJobDone, EndSpawned
<1>7. CASE SpawningStep
  BY <1>7 DEF SpawningStep, OpenSpawning, EndSpawning, NoHostDrop, NoHostRequeue,
     CloneFailDrop, CloneFailRequeue, IncompatibleDrop, IncompatibleCancel,
     IpFixDestroy, IpFixCancel, IpFixDrop, AddSpawnedDrop, AddSpawned
<1>8. CASE LaunchStep
  BY <1>8 DEF LaunchStep, OpenQueued, Dequeue, LaunchQueued, EndQueued,
     TryPendingLock, Unpend, LaunchPending, EndPending
<1>9. ASSUME NEW i \in Jobs, NEW r \in Runs, ScriptStep(i, r) PROVE FALSE
  BY <1>9 DEF ScriptStep, OpenStatus, HostBusy, HostInvalid, HostFound, Clone,
     AddressFound, AddressMissing, Customise, ReportReady, scriptFrame
<1>10. CASE UNCHANGED vars
  BY <1>10 DEF vars
<1>. QED BY <1>1, <1>2, <1>3, <1>4, <1>5, <1>6, <1>7, <1>8, <1>9, <1>10
   DEF Next, DaemonStep, ReadStep

\* A settled job stays settled.
LEMMA SettledStays ==
    ASSUME TypeInv, NEW j \in Jobs, [Next]_vars, Settled(j)
    PROVE  Settled(j)'
<1>1. Turn /\ job \in [Jobs -> JobStates]
  BY TurnStep DEF TypeInv, TypeOK
<1>. QED BY <1>1 DEF Turn, JobTurn, Settled

\* Only the daemon, once it finds slurm.conf rewritten, has slurmctld started again.
LEMMA UpStep ==
    ASSUME [Next]_vars, ppc = "down", ppc' # "down"
    PROVE  OpenSpawned
<1>1. CASE PluginStep
  BY <1>1 DEF PluginStep, PluginCannotOpen, PluginTryVmLock, PluginQueue,
     PluginFlush, PluginTryPendingLock, PluginAppend, PluginNoFile,
     PluginReturn
<1>2. CASE \E i \in Jobs : Submit(i) \/ UserCancel(i)
  BY <1>2 DEF Submit, UserCancel, pluginVars
<1>3. CASE OpenSpawned
  BY <1>3
<1>4. CASE UNCHANGED ppc
  BY <1>4
<1>5. CASE DaemonStep /\ ~OpenSpawned
  BY <1>5 DEF DaemonStep, WindowElapsed, WindowOpen, TryVmLock,
     ReadStep, ReadSpawned, ReadSpawning, ReadQueued, ReadPending,
     SpawnedStep, RunJobRelease, RunJobDone, EndSpawned,
     SpawningStep, OpenSpawning, EndSpawning, NoHostDrop, NoHostRequeue,
     CloneFailDrop, CloneFailRequeue, IncompatibleDrop, IncompatibleCancel,
     IpFixDestroy, IpFixCancel, IpFixDrop, AddSpawnedDrop, AddSpawned,
     LaunchStep, OpenQueued, Dequeue, LaunchQueued, EndQueued,
     TryPendingLock, Unpend, LaunchPending, EndPending, pluginVars
<1>6. ASSUME NEW i \in Jobs, NEW r \in Runs, ScriptStep(i, r) PROVE UNCHANGED ppc
  BY <1>6 DEF ScriptStep, OpenStatus, HostBusy, HostInvalid, HostFound, Clone,
     AddressFound, AddressMissing, Customise, ReportReady, scriptFrame, pluginVars
<1>. QED BY <1>1, <1>2, <1>3, <1>4, <1>5, <1>6 DEF Next, vars, pluginVars

LEMMA AnsweredInit == Init => AnsweredInv
<1>1. \A j \in Jobs : Line(j) # NoLine
  BY LineFacts
<1>. QED BY <1>1 DEF Init, AnsweredInv, InHand

LEMMA AnsweredStep == TypeInv /\ PlaceInv /\ AnsweredInv /\ [Next]_vars => AnsweredInv'
<1> SUFFICES ASSUME TypeInv, PlaceInv, AnsweredInv, [Next]_vars, 
                    "scontrol" \notin Faults, ppc' # "down",
                    NEW j \in Jobs, InHand(j, {"unspawn", "ipdrop"})'
             PROVE  Settled(j)'
  BY DEF AnsweredInv
<1>u. ppc # "down"
  BY UpStep DEF OpenSpawned, InHand
<1>1. CASE InHand(j, {"unspawn", "ipdrop"})
  BY <1>1, <1>u, SettledStays DEF AnsweredInv
<1>2. CASE ~InHand(j, {"unspawn", "ipdrop"})
  <2>1. \/ InHand(j, {"release"}) /\ RunJobRelease
        \/ InHand(j, {"ipcancel"}) /\ IpFixCancel
    BY <1>2, DropsAfterAnswer
  <2>2. job \in [Jobs -> JobStates] /\ Line(j).job = j /\ Answers = {TRUE}
    BY <1>u, LineFacts DEF TypeInv, TypeOK, Answers
  <2>3. job[j] # "new"
    BY <2>1 DEF PlaceInv, OnePlace, Nowhere, InSpawned, InSpawning, InHand, SpawningHands
  <2>4. ppc = "idle"
    BY <2>1, <1>u DEF RunJobRelease, IpFixCancel, Scancel, Commanded
  <2>5. job[j] # "submitting"
    BY <2>4 DEF TypeInv, AtWork
  <2>6. job[j] \in {"held", "released", "cancelled"}
    BY <2>2, <2>3, <2>5 DEF JobStates
  <2>7. CASE InHand(j, {"release"}) /\ RunJobRelease
    BY <2>2, <2>6, <2>7 DEF RunJobRelease, InHand, Settled
  <2>8. CASE InHand(j, {"ipcancel"}) /\ IpFixCancel
    BY <2>2, <2>6, <2>8 DEF IpFixCancel, Scancel, InHand, Settled
  <2>. QED BY <2>1, <2>7, <2>8
<1>. QED BY <1>1, <1>2

LEMMA ClonedInit == Init => ClonedInv
BY DEF Init, ClonedInv, NoStatus, NoClone

LEMMA ClonedStep == TypeInv /\ ClonedInv /\ [Next]_vars => ClonedInv'
<1> SUFFICES ASSUME TypeInv, ClonedInv, [Next]_vars, "noclone" \notin Faults
             PROVE  /\ dpc' \notin {"clonefail", "restub"}
                    /\ \A j \in Jobs : status'[j] # NoClone
  BY DEF ClonedInv
<1>i. dpc \notin {"clonefail", "restub"} /\ \A j \in Jobs : status[j] # NoClone
  BY DEF ClonedInv
<1>t. status \in [Jobs -> Statuses]
  BY DEF TypeInv, TypeOK
<1>1. ASSUME NEW j \in Jobs PROVE status'[j] # NoClone
  <2>1. CASE \E i \in Jobs, r \in Runs : ScriptStep(i, r)
    <3>1. PICK i \in Jobs, r \in Runs : ScriptStep(i, r)
      BY <2>1
    <3>2. CASE Clone(i, r)
      <4>1. UNCHANGED status
        BY <3>2, PatternAssumption DEF Clone, Reflexive
      <4>. QED BY <1>i, <4>1
    <3>3. CASE ~Clone(i, r)
      <4>1. \/ UNCHANGED status
            \/ \E st \in {NoStatus, NoHost, Incompatible, NoAddress, Ready} :
                 status' = [status EXCEPT ![i] = st]
        BY <3>1, <3>3 DEF ScriptStep, OpenStatus, HostBusy, HostInvalid, HostFound,
           AddressFound, AddressMissing, Customise, ReportReady, cloudVars
      <4>. QED BY <1>i, <1>t, <4>1
         DEF NoClone, NoStatus, NoHost, Incompatible, NoAddress, Ready
    <3>. QED BY <3>2, <3>3
  <2>2. CASE IpFixDestroy
    BY <1>i, <2>2 DEF IpFixDestroy, scriptVars
  <2>3. CASE Quiet(j)
    BY <1>i, <2>3 DEF Quiet
  <2>. QED BY <2>1, <2>2, <2>3, QuietSteps
<1>2. dpc' \notin {"clonefail", "restub"}
  <2> USE <1>i DEF Move, fileVars, lockVars, pluginVars, daemonVars,
          scriptVars, cloudVars, slurmVars, pluginFrame
  <2>1. CASE \E i \in Jobs : Submit(i) \/ UserCancel(i)
    BY <2>1 DEF Submit, UserCancel
  <2>2. CASE PluginStep
    BY <2>2 DEF PluginStep, PluginCannotOpen, PluginTryVmLock, PluginQueue,
       PluginFlush, PluginTryPendingLock, PluginAppend, PluginNoFile,
     PluginReturn
  <2>3. CASE WindowElapsed \/ WindowOpen \/ TryVmLock
    BY <2>3 DEF WindowElapsed, WindowOpen, TryVmLock
  <2>4. ASSUME NEW ln \in Lines, ReadSpawning(ln) PROVE dpc' \notin {"clonefail", "restub"}
    <3>1. ln.job \in Jobs
      BY LineFacts
    <3>2. status[ln.job] # NoStatus =>
            Verdict(status[ln.job]) \notin {"clonefail", "restub"}
      BY <1>t, <3>1 DEF Verdict, Statuses, NoStatus, Ready, NoHost, NoClone,
         Incompatible, NoAddress
    <3>. QED BY <2>4, <3>2 DEF ReadSpawning
  <2>5. ASSUME NEW ln \in Lines, ReadSpawned(ln) \/ ReadQueued(ln) \/ ReadPending(ln)
        PROVE  dpc' \notin {"clonefail", "restub"}
    BY <2>5 DEF ReadSpawned, ReadQueued, ReadPending
  <2>6. CASE SpawnedStep
    BY <2>6 DEF SpawnedStep, OpenSpawned, RunJobRelease, RunJobDone, EndSpawned
  <2>7. CASE SpawningStep
    BY <2>7 DEF SpawningStep, OpenSpawning, EndSpawning, NoHostDrop, NoHostRequeue,
       CloneFailDrop, CloneFailRequeue, IncompatibleDrop, IncompatibleCancel,
       IpFixDestroy, IpFixCancel, IpFixDrop, AddSpawnedDrop, AddSpawned
  <2>8. CASE LaunchStep
    BY <2>8 DEF LaunchStep, OpenQueued, Dequeue, LaunchQueued, EndQueued,
       TryPendingLock, Unpend, LaunchPending, EndPending
  <2>9. ASSUME NEW i \in Jobs, NEW r \in Runs, ScriptStep(i, r)
        PROVE  dpc' \notin {"clonefail", "restub"}
    BY <2>9 DEF ScriptStep, OpenStatus, HostBusy, HostInvalid, HostFound, Clone,
       AddressFound, AddressMissing, Customise, ReportReady, scriptFrame
  <2>10. CASE UNCHANGED vars
    BY <2>10 DEF vars
  <2>. QED BY <2>1, <2>2, <2>3, <2>4, <2>5, <2>6, <2>7, <2>8, <2>9, <2>10
     DEF Next, DaemonStep, ReadStep
<1>. QED BY <1>1, <1>2

-----------------------------------------------------------------------------
(* The theorems *)

\* VhpcLaunchInv's invariant is inductive.
THEOREM InvariantHolds == Spec => []IInv
<1>1. Init => IInv
  BY TypeInit, LockInit, PlaceInit, VmInit, NodeInit, NewInit DEF IInv
<1>2. IInv /\ [Next]_vars => IInv'
  <2> SUFFICES ASSUME IInv, [Next]_vars PROVE IInv'
    OBVIOUS
  <2>1. TypeInv'
    BY TypeStep DEF IInv
  <2>2. LockInv'
    BY LockStep DEF IInv
  <2>3. PlaceInv'
    BY PlaceStep DEF IInv, PlaceInv, KeepsPlace, Advances
  <2>4. VmInv'
    BY VmStep DEF IInv, PlaceInv, VmInv
  <2>5. NodeInv'
    BY NodeStep DEF IInv
  <2>6. NewInv'
    BY NewStep DEF IInv
  <2>. QED BY <2>1, <2>2, <2>3, <2>4, <2>5, <2>6 DEF IInv
<1>. QED BY <1>1, <1>2, PTL DEF Spec

\* No job is let go (vhpcLaunch.sh:72) without its VM, in any interleaving of
\* the plugin, the daemon and the scripts and with any collision of ids.
THEOREM ReleaseSafe == Spec => []ReleaseOnlyReady
<1>1. IInv => ReleaseOnlyReady
  BY DEF IInv, VmInv, VmKnown, Released, ReleaseOnlyReady
<1>. QED BY <1>1, InvariantHolds, PTL

\* slurmctld runs a released job only when it has read its node's line: the
\* line is written before status 0, and the restart at the top of the loop over
\* spawned_jobs (vhpcLaunch.sh:140) comes between that status and the release.
THEOREM NodeBeforeRelease == Spec => []ReleasedNodeKnown
<1>1. IInv => ReleasedNodeKnown
  BY DEF IInv, NodeInv, NodeKnown, Released, ReleasedNodeKnown
<1>. QED BY <1>1, InvariantHolds, PTL

\* A step that changes one job, or its VM alone, is a step of JobLifecycle.
LEMMA LifecycleStep ==
    IInv /\ IInv' /\ [Next]_vars => [Lifecycle!Next]_[j \in Jobs |-> Phase(j)]
<1> SUFFICES ASSUME IInv, IInv', [Next]_vars
             PROVE  [Lifecycle!Next]_[j \in Jobs |-> Phase(j)]
  OBVIOUS
<1>t. /\ TypeOK /\ TypeOK'
      /\ job \in [Jobs -> JobStates] /\ job' \in [Jobs -> JobStates]
      /\ vm \in [Jobs -> {"none", "partial", "cloned", "ready"}]
      /\ vm' \in [Jobs -> {"none", "partial", "cloned", "ready"}]
  BY DEF IInv, TypeInv, TypeOK
<1>1. ASSUME NEW i \in Jobs, \A j \in Jobs \ {i} : job'[j] = job[j] /\ vm'[j] = vm[j]
      PROVE  \A j \in Jobs \ {i} : Phase(j)' = Phase(j)
  BY <1>1 DEF Phase
<1>2. ASSUME NEW i \in Jobs, \A j \in Jobs \ {i} : Phase(j)' = Phase(j),
             NEW from, Phase(i) \in from, NEW to, Phase(i)' = to
      PROVE  Lifecycle!Change(i, from, to)
  BY <1>2 DEF Lifecycle!Change
<1>3. CASE UNCHANGED <<job, vm>>
  BY <1>3 DEF Phase
<1>4. ASSUME UNCHANGED vm,
             NEW i \in Jobs, job' = [job EXCEPT ![i] = job'[i]], JobTurn(i)
      PROVE  [Lifecycle!Next]_[j \in Jobs |-> Phase(j)]
  <2>1. \A j \in Jobs \ {i} : Phase(j)' = Phase(j)
    BY <1>t, <1>1, <1>4
  <2>2. CASE job[i] = "new" /\ job'[i] = "submitting"
    <3>1. vm[i] = "none"
      BY <2>2 DEF IInv, NewInv
    <3>2. Phase(i) = "new" /\ Phase(i)' = "waiting"
      BY <1>4, <2>2, <3>1 DEF Phase
    <3>. QED BY <1>2, <2>1, <3>2 DEF Lifecycle!Next, Lifecycle!Accept
  <2>3. CASE job[i] = "submitting" /\ job'[i] = "held"
    <3>1. \A j \in Jobs : Phase(j)' = Phase(j)
      BY <1>4, <2>1, <2>3 DEF Phase
    <3>. QED BY <3>1
  <2>4. CASE job[i] = "held" /\ job'[i] = "released"
    <3>1. vm'[i] = "ready" /\ vm[i] = "ready"
      BY <1>4, <2>4 DEF IInv, VmInv, VmKnown, Released
    <3>2. Phase(i) = "provisioned" /\ Phase(i)' = "running"
      BY <2>4, <3>1 DEF Phase
    <3>. QED BY <1>2, <2>1, <3>2 DEF Lifecycle!Next, Lifecycle!Run
  <2>5. CASE job[i] \in {"submitting", "held"} /\ job'[i] = "cancelled"
    <3>1. Phase(i) \in {"waiting", "provisioned"} /\ Phase(i)' = "cancelled"
      BY <2>5 DEF Phase
    <3>. QED BY <1>2, <2>1, <3>1 DEF Lifecycle!Next, Lifecycle!Cancel
  <2>6. ~(job[i] = "released" /\ InHand(i, {"scancel", "ipcancel"}))
    BY DEF IInv, PlaceInv, OnePlace, InSpawning, InHand, SpawningHands, Released
  <2>. QED BY <1>4, <2>2, <2>3, <2>4, <2>5, <2>6 DEF JobTurn
<1>5. ASSUME UNCHANGED job,
             NEW i \in Jobs, vm' = [vm EXCEPT ![i] = vm'[i]], VmTurn(i)
      PROVE  [Lifecycle!Next]_[j \in Jobs |-> Phase(j)]
  <2>1. \A j \in Jobs \ {i} : Phase(j)' = Phase(j)
    BY <1>t, <1>1, <1>5
  <2>2. job[i] # "new"
    BY <1>5 DEF IInv, PlaceInv, NewInv, VmTurn, OnePlace, Nowhere, InSpawning, InHand,
       SpawningHands, At
  <2>3. CASE (vm'[i] = "ready" <=> vm[i] = "ready") \/ job[i] = "cancelled"
    <3>1. \A j \in Jobs : Phase(j)' = Phase(j)
      BY <1>5, <2>1, <2>3 DEF Phase
    <3>. QED BY <3>1
  <2>4. CASE vm[i] = "ready" /\ vm'[i] # "ready" /\ job[i] # "cancelled"
    <3>1. job[i] # "released"
      BY <1>5, <2>4 DEF IInv, PlaceInv, VmTurn, OnePlace, InSpawning, InHand,
         SpawningHands, Released
    <3>2. job[i] \in {"submitting", "held"}
      BY <1>t, <2>2, <2>4, <3>1 DEF JobStates
    <3>3. Phase(i) = "provisioned" /\ Phase(i)' = "waiting"
      BY <1>5, <2>4, <3>2 DEF Phase
    <3>. QED BY <1>2, <2>1, <3>3 DEF Lifecycle!Next, Lifecycle!Deprovision
  <2>5. CASE vm[i] # "ready" /\ vm'[i] = "ready" /\ job[i] # "cancelled"
    <3>1. job[i] # "released"
      BY <2>5 DEF IInv, VmInv, VmKnown, Released
    <3>2. job[i] \in {"submitting", "held"}
      BY <1>t, <2>2, <2>5, <3>1 DEF JobStates
    <3>3. Phase(i) = "waiting" /\ Phase(i)' = "provisioned"
      BY <1>5, <2>5, <3>2 DEF Phase
    <3>. QED BY <1>2, <2>1, <3>3 DEF Lifecycle!Next, Lifecycle!Provision
  <2>. QED BY <2>3, <2>4, <2>5
<1>. QED BY <1>3, <1>4, <1>5, TurnStep DEF IInv, Turn

\* The daemon, the plugin and the scripts implement JobLifecycle: every step of
\* theirs is a step of one job's life, or none of its readers' business.
THEOREM LifecycleKept == Spec => KeepsLifecycle
<1>1. Init => Lifecycle!Init
  BY DEF Init, Lifecycle!Init, Phase
<1>2. IInv /\ IInv' /\ [Next]_vars => [Lifecycle!Next]_[j \in Jobs |-> Phase(j)]
  BY LifecycleStep
<1>. QED BY <1>1, <1>2, InvariantHolds, PTL DEF Spec, KeepsLifecycle, Lifecycle!Spec

\* A released job is never again a line to be launched or judged.
THEOREM ReleaseFinal == Spec => []ReleasedNeverRelaunched
<1>1. IInv => ReleasedNeverRelaunched
  <2> SUFFICES ASSUME IInv, NEW j \in Jobs, job[j] = "released"
               PROVE  \A f \in {queued, pending, spawning, todo} : ~HasLine(f, Line(j))
    BY DEF ReleasedNeverRelaunched
  <2>1. OnePlace(j) /\ OneLine(j) /\ Released(j) /\ ~InSpawned(j)
    BY DEF IInv, PlaceInv, ReleasedLast, Released
  <2>2. /\ ~InQueue(j) /\ ~InPending(j) /\ ~InSpawning(j)
        /\ ~InHand(j, {"dequeue", "unpend"})
    BY <2>1 DEF OnePlace, InSpawning, InHand
  <2>. QED BY <2>1, <2>2 DEF OneLine, InQueue, InPending, InSpawning, InSpawned,
       Unread, InHand
<1>. QED BY <1>1, InvariantHolds, PTL

\* No job is written twice, but while its line goes from one file to the next.
THEOREM WrittenOnce == Spec => []RecordedOnce
<1>1. IInv => RecordedOnce
  <2> SUFFICES ASSUME IInv, NEW j \in Jobs
               PROVE  queued[Line(j)] + pending[Line(j)]
                        + spawning[Line(j)] + spawned[Line(j)]
                      <= IF cur = Line(j) /\ dpc \in {"dequeue", "unpend"} THEN 2 ELSE 1
    BY DEF RecordedOnce
  <2>1. \A f \in {queued, pending, spawning, spawned} : f[Line(j)] \in 0..1
    <3>1. Line(j) \in Lines /\ {queued, pending, spawning, spawned} \subseteq Files
      BY LineFacts DEF IInv, TypeInv, TypeOK
    <3>2. \A f \in {queued, pending, spawning, spawned} : f[Line(j)] <= 1
      BY DEF IInv, PlaceInv, OneLine
    <3>. QED BY <3>1, <3>2, BoundAssumption DEF Files
  <2>2. OnePlace(j) /\ OneLine(j)
    BY DEF IInv, PlaceInv
  <2>3. CASE cur = Line(j) /\ dpc \in {"dequeue", "unpend"}
    BY <2>1, <2>2, <2>3 DEF OnePlace, InQueue, InPending, InSpawning, InSpawned,
       InHand, HasLine
  <2>4. CASE ~(cur = Line(j) /\ dpc \in {"dequeue", "unpend"})
    BY <2>1, <2>2, <2>4 DEF OnePlace, InQueue, InPending, InSpawning, InSpawned,
       InHand, HasLine
  <2>. QED BY <2>3, <2>4
<1>. QED BY <1>1, InvariantHolds, PTL

\* A recorded job is dropped only by the commands that do not look whether
\* slurmctld has answered, or take one name for another (vhpcLaunch.sh:60, 74,
\* 85, 98), or by the launch loop when its line has gone astray (221): if no
\* id or name occurs in another, no sed -i takes it away.
THEOREM LostOnlyWhereSaid ==
    ASSUME Collisionless
    PROVE  Spec => LostOnlyUnanswered
<1>1. Init => IInv /\ \A j \in Jobs : Kept(j)
  BY TypeInit, LockInit, PlaceInit, VmInit, NodeInit, NewInit, KeptInit DEF IInv
<1>2. IInv /\ (\A j \in Jobs : Kept(j)) /\ [Next]_vars => (\A j \in Jobs : Kept(j))'
  BY KeptStep DEF IInv, PlaceInv, KeepsRecord
<1>3. ASSUME IInv, \A j \in Jobs : Kept(j), [Next]_vars, NEW j \in Jobs,
             Recorded(j), ~Recorded(j)'
      PROVE  \/ cur = Line(j) /\ dpc \in {"unspawn", "scancel", "ipdrop", "restub"}
             \/ AstrayTurnedAway(j)
  <2>1. Dropped(j)
    BY <1>3, KeptStep DEF IInv, PlaceInv, KeepsRecord
  <2>. QED BY <2>1 DEF Dropped, IncompatibleCancel, Move
<1>4. IInv /\ (\A j \in Jobs : Kept(j)) /\ [Next]_vars =>
        [\A j \in Jobs :
           Recorded(j) /\ ~Settled(j) /\ ~Recorded(j)' /\ ~Settled(j)' =>
             \/ cur = Line(j) /\ dpc \in {"unspawn", "scancel", "ipdrop", "restub"}
             \/ AstrayTurnedAway(j)]_vars
  BY <1>3
<1>. QED BY <1>1, <1>2, <1>4, InvariantHolds, PTL DEF Spec, LostOnlyUnanswered

\* Where moreover slurmctld, while it is there, answers every command and every
\* VM that is asked for is made, no recorded job is forgotten before it is
\* settled while slurmctld is there, but for the line that has gone astray.
THEOREM NoneForgotten ==
    ASSUME Collisionless,
           "scontrol" \notin Faults, "noclone" \notin Faults
    PROVE  Spec => NeverForgotten
<1> DEFINE Inv == IInv /\ (\A j \in Jobs : Kept(j)) /\ AnsweredInv /\ ClonedInv
<1>1. Init => Inv
  BY TypeInit, LockInit, PlaceInit, VmInit, NodeInit, NewInit, KeptInit,
     AnsweredInit, ClonedInit DEF IInv
<1>2. IInv' /\ Inv /\ [Next]_vars => Inv'
  BY KeptStep, AnsweredStep, ClonedStep DEF IInv, PlaceInv, KeepsRecord
<1>3. ASSUME Inv, [Next]_vars, NEW j \in Jobs, Recorded(j), ~Settled(j),
             ppc # "down"
      PROVE  Recorded(j)' \/ Settled(j)' \/ AstrayTurnedAway(j)
  <2>1. CASE Recorded(j)'
    BY <2>1
  <2>2. CASE AstrayTurnedAway(j)
    BY <2>2
  <2>3. CASE ~Recorded(j)' /\ ~AstrayTurnedAway(j)
    <3>1. Dropped(j)
      BY <1>3, <2>3, KeptStep DEF IInv, PlaceInv, KeepsRecord
    <3>2. IncompatibleCancel /\ cur = Line(j)
      BY <1>3, <2>3, <3>1 DEF Dropped, AnsweredInv, ClonedInv, InHand
    <3>3. job \in [Jobs -> JobStates] /\ Line(j).job = j /\ Answers = {TRUE}
      BY <1>3, LineFacts DEF IInv, TypeInv, TypeOK, Answers
    <3>4. ppc = "idle" /\ dpc = "scancel"
      BY <1>3, <3>2 DEF IncompatibleCancel, Scancel, Move, Commanded
    <3>5. job[j] # "new" /\ job[j] # "submitting"
      BY <1>3, <3>2, <3>4 DEF IInv, PlaceInv, OnePlace, Nowhere, InSpawning, InHand,
         SpawningHands, TypeInv, AtWork
    <3>6. job[j] = "held"
      BY <1>3, <3>3, <3>5 DEF JobStates, Settled
    <3>. QED BY <3>2, <3>3, <3>6 DEF IncompatibleCancel, Scancel, Settled
  <2>. QED BY <2>1, <2>2, <2>3
<1>4. Inv /\ [Next]_vars =>
        [\A j \in Jobs :
           Recorded(j) /\ ~Settled(j) /\ ppc # "down" =>
             Recorded(j)' \/ Settled(j)' \/ AstrayTurnedAway(j)]_vars
  BY <1>3
<1>. QED BY <1>1, <1>2, <1>4, InvariantHolds, PTL DEF Spec, NeverForgotten

=============================================================================

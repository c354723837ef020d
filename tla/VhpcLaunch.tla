----------------------------- MODULE VhpcLaunch -----------------------------
(***************************************************************************)
(* The main loop of vhpcLaunch.sh, composed with the plugin that feeds it  *)
(* and the scripts it starts.  One pass of the loop holds vmlock while it  *)
(* releases the jobs in spawned_jobs, looks at the status of each job in   *)
(* spawning_jobs and launches those in queued_jobs; then, under            *)
(* pendinglock, it launches those in pending_jobs.  Nothing removes a line *)
(* and writes the next one in a single step, so neither do the actions.    *)
(***************************************************************************)
EXTENDS HoldPlugin, LaunchScript, FiniteSets

Move(from, to) == dpc = from /\ dpc' = to

\* The next line of the file that loop reads becomes the current one.
ReadLine(ln) == todo' = TakeLine(todo, ln) /\ cur' = ln
SkipLine(ln) == todo' = TakeLine(todo, ln) /\ cur' = NoLine
DoneLine == cur' = NoLine /\ UNCHANGED todo

\* Neither scontrol nor scancel is answered while slurmctld is in the plugin,
\* and when it is down they give up.  Their exit status is not looked at.
Commanded == ppc \in {"idle", "down"}
Answers ==
    IF ppc = "down" THEN {FALSE}
    ELSE IF "scontrol" \in Faults THEN BOOLEAN ELSE {TRUE}

Scancel(j) ==
    /\ Commanded
    /\ \E answered \in Answers :
         job' = IF answered /\ job[j] \in {"held", "released"}
                THEN [job EXCEPT ![j] = "cancelled"] ELSE job

-----------------------------------------------------------------------------
(* Top of the loop *)

WindowElapsed ==
    /\ Move("window", "vmlock")
    /\ rate' = 0
    /\ UNCHANGED <<fileVars, lockVars, pluginVars, todo, cur, scriptVars,
                   cloudVars, slurmVars>>

WindowOpen ==
    /\ Move("window", "vmlock")
    /\ UNCHANGED <<fileVars, lockVars, pluginVars, todo, cur, rate, scriptVars,
                   cloudVars, slurmVars>>

\* flock --nb 200 || busy: sleep and start over.
TryVmLock ==
    /\ dpc = "vmlock"
    /\ IF vmlock = "free"
       THEN vmlock' = "daemon" /\ dpc' = "openspawned"
       ELSE dpc' = "window" /\ UNCHANGED vmlock
    /\ UNCHANGED <<fileVars, pendinglock, pluginVars, todo, cur, rate,
                   scriptVars, cloudVars, slurmVars>>

-----------------------------------------------------------------------------
(* spawned_jobs: the VM is up, let the job go *)

\* (mutant: the controller is not restarted)
BadOpenSpawned ==
    /\ dpc = "openspawned"
    /\ IF IsEmpty(spawned)
       THEN dpc' = "openspawning" /\ UNCHANGED todo
       ELSE todo' = spawned /\ dpc' = "spawned"
    /\ UNCHANGED <<fileVars, lockVars, pluginVars, cur, rate, scriptVars,
                   cloudVars, slurmVars>>

\* slurmctld learns of new nodes only by being restarted, and when it is down
\* nothing else brings it back.
OpenSpawned ==
    /\ dpc = "openspawned"
    /\ IF IsEmpty(spawned)
       THEN dpc' = "openspawning" /\ UNCHANGED <<ppc, todo, nodes>>
       ELSE /\ Commanded
            /\ ppc' = "idle"
            /\ nodes' = conf
            /\ todo' = spawned
            /\ dpc' = "spawned"
    /\ UNCHANGED <<fileVars, lockVars, pjob, inode, cur, rate, scriptVars,
                   cloudVars, job>>

ReadSpawned(ln) ==
    /\ HasLine(todo, ln)
    /\ Move("spawned", "release")
    /\ ReadLine(ln)
    /\ UNCHANGED <<fileVars, lockVars, pluginVars, rate, scriptVars, cloudVars,
                   slurmVars>>

\* scontrol release has slurmctld call the plugin again, for a job of
\* priority 0.  The daemon has vmlock: a call that recorded the job would
\* put it in pending_jobs.
RunJobRelease ==
    /\ Move("release", "unspawn")
    /\ Commanded
    /\ \E answered \in Answers :
         IF answered /\ job[cur.job] = "held"
         THEN /\ job' = [job EXCEPT ![cur.job] = "released"]
              /\ pending' = IF RecordsJob(HeldPriority)
                            THEN AddLine(pending, cur) ELSE pending
         ELSE UNCHANGED <<job, pending>>
    /\ UNCHANGED <<queued, spawning, spawned, running, lockVars, pluginVars,
                   todo, cur, rate, scriptVars, cloudVars, nodes>>

RunJobDone ==
    /\ Move("unspawn", "spawned")
    /\ running' = running \cup {cur.job}
    /\ spawned' = DeleteLines(spawned, IdPattern(cur.job))
    /\ DoneLine
    /\ UNCHANGED <<queued, pending, spawning, lockVars, pluginVars, rate,
                   scriptVars, cloudVars, slurmVars>>

EndSpawned ==
    /\ IsEmpty(todo)
    /\ Move("spawned", "openspawning")
    /\ UNCHANGED <<fileVars, lockVars, pluginVars, todo, cur, rate, scriptVars,
                   cloudVars, slurmVars>>

-----------------------------------------------------------------------------
(* spawning_jobs: how far has each launch come? *)

OpenSpawning ==
    /\ Move("openspawning", "spawning")
    /\ todo' = spawning
    /\ UNCHANGED <<fileVars, lockVars, pluginVars, cur, rate, scriptVars,
                   cloudVars, slurmVars>>

\* What the loop does next for each status it reads.
Verdict(st) ==
    CASE st = Ready        -> "addspawned"
      [] st = NoHost       -> "nohost"
      [] st = NoClone      -> "clonefail"
      [] st = Incompatible -> "incompatible"
      [] st = NoAddress    -> "ipfix"

\* A line without an id has cat read the lock directory: nothing comes out.
ReadSpawning(ln) ==
    /\ dpc = "spawning"
    /\ HasLine(todo, ln)
    /\ IF ln.whole /\ status[ln.job] # NoStatus
       THEN dpc' = Verdict(status[ln.job]) /\ ReadLine(ln)
       ELSE SkipLine(ln) /\ UNCHANGED dpc
    /\ UNCHANGED <<fileVars, lockVars, pluginVars, rate, scriptVars, cloudVars,
                   slurmVars>>

\* nohost is called with the id alone; its two assignments are run as
\* commands and fail, so jobname and jobid keep the values of the loop.
NoHostDrop ==
    /\ Move("nohost", "requeue")
    /\ spawning' = DeleteLines(spawning, NamePattern(cur.job))
    /\ UNCHANGED <<queued, pending, spawned, running, lockVars, pluginVars,
                   todo, cur, rate, scriptVars, cloudVars, slurmVars>>

\* (mutant: the job is not put back)
BadNoHostRequeue ==
    /\ Move("requeue", "spawning")
    /\ DoneLine
    /\ UNCHANGED <<fileVars, lockVars, pluginVars, rate, scriptVars, cloudVars,
                   slurmVars>>

NoHostRequeue ==
    /\ Move("requeue", "spawning")
    /\ queued' = AddLine(queued, cur)
    /\ DoneLine
    /\ UNCHANGED <<pending, spawning, spawned, running, lockVars, pluginVars,
                   rate, scriptVars, cloudVars, slurmVars>>

\* clone_fail is called with the id alone, which it takes for the name: the
\* first sed has an empty pattern and fails, the second one deletes.
CloneFailDrop ==
    /\ Move("clonefail", "restub")
    /\ spawning' = DeleteLines(spawning, IdPattern(cur.job))
    /\ UNCHANGED <<queued, pending, spawned, running, lockVars, pluginVars,
                   todo, cur, rate, scriptVars, cloudVars, slurmVars>>

CloneFailRequeue ==
    /\ Move("restub", "spawning")
    /\ queued' = AddLine(queued, Stub(cur.job))
    /\ DoneLine
    /\ UNCHANGED <<pending, spawning, spawned, running, lockVars, pluginVars,
                   rate, scriptVars, cloudVars, slurmVars>>

IncompatibleDrop ==
    /\ Move("incompatible", "scancel")
    /\ spawning' = DeleteLines(spawning, IdPattern(cur.job))
    /\ UNCHANGED <<queued, pending, spawned, running, lockVars, pluginVars,
                   todo, cur, rate, scriptVars, cloudVars, slurmVars>>

IncompatibleCancel ==
    /\ Move("scancel", "spawning")
    /\ Scancel(cur.job)
    /\ DoneLine
    /\ UNCHANGED <<fileVars, lockVars, pluginVars, rate, scriptVars, cloudVars,
                   nodes>>

\* The job's copy of cleanup.sh destroys its VM.
IpFixDestroy ==
    /\ Move("ipfix", "ipcancel")
    /\ vm' = [vm EXCEPT ![cur.job] = "none"]
    /\ UNCHANGED <<fileVars, lockVars, pluginVars, todo, cur, rate, scriptVars,
                   conf, slurmVars>>

IpFixCancel ==
    /\ Move("ipcancel", "ipdrop")
    /\ Scancel(cur.job)
    /\ UNCHANGED <<fileVars, lockVars, pluginVars, todo, cur, rate, scriptVars,
                   cloudVars, nodes>>

IpFixDrop ==
    /\ Move("ipdrop", "spawning")
    /\ spawning' = DeleteLines(spawning, IdPattern(cur.job))
    /\ DoneLine
    /\ UNCHANGED <<queued, pending, spawned, running, lockVars, pluginVars,
                   rate, scriptVars, cloudVars, slurmVars>>

AddSpawnedDrop ==
    /\ Move("addspawned", "tospawned")
    /\ spawning' = DeleteLines(spawning, IdPattern(cur.job))
    /\ UNCHANGED <<queued, pending, spawned, running, lockVars, pluginVars,
                   todo, cur, rate, scriptVars, cloudVars, slurmVars>>

AddSpawned ==
    /\ Move("tospawned", "spawning")
    /\ spawned' = AddLine(spawned, cur)
    /\ DoneLine
    /\ UNCHANGED <<queued, pending, spawning, running, lockVars, pluginVars,
                   rate, scriptVars, cloudVars, slurmVars>>

EndSpawning ==
    /\ IsEmpty(todo)
    /\ Move("spawning", "openqueued")
    /\ UNCHANGED <<fileVars, lockVars, pluginVars, todo, cur, rate, scriptVars,
                   cloudVars, slurmVars>>

-----------------------------------------------------------------------------
(* queued_jobs and pending_jobs: launch, within the rate *)

\* (mutant: one launch too many)
BadMayLaunch == rate <= Limit + 1

MayLaunch == rate <= Limit

\* "sh pending_slave_vm_launch.sh $jobname $jobid $clone &".  A line without
\* an id starts a script whose arguments are shifted: the job never sees it.
StartScript(ln) ==
    IF ln.whole
    THEN \E r \in Runs : At(ln.job, r, "idle") /\ Goto(ln.job, r, "start")
    ELSE UNCHANGED script

\* sed -i leaves the plugin's open stream on an inode that has no name.
Orphaned == IF inode = "file" THEN "old" ELSE inode

OpenQueued ==
    /\ Move("openqueued", "queued")
    /\ todo' = queued
    /\ UNCHANGED <<fileVars, lockVars, pluginVars, cur, rate, scriptVars,
                   cloudVars, slurmVars>>

\* (mutant: spawning_jobs is not written before queued_jobs is shortened)
BadReadQueued(ln) ==
    /\ dpc = "queued"
    /\ HasLine(todo, ln)
    /\ IF MayLaunch THEN dpc' = "dequeue" /\ ReadLine(ln)
                    ELSE SkipLine(ln) /\ UNCHANGED dpc
    /\ UNCHANGED <<fileVars, lockVars, pluginVars, rate, scriptVars, cloudVars,
                   slurmVars>>

ReadQueued(ln) ==
    /\ dpc = "queued"
    /\ HasLine(todo, ln)
    /\ IF MayLaunch
       THEN /\ dpc' = "dequeue"
            /\ spawning' = AddLine(spawning, ln)
            /\ ReadLine(ln)
       ELSE SkipLine(ln) /\ UNCHANGED <<dpc, spawning>>
    /\ UNCHANGED <<queued, pending, spawned, running, lockVars, pluginVars,
                   rate, scriptVars, cloudVars, slurmVars>>

\* (mutant: the line stays in queued_jobs)
BadDequeue ==
    /\ Move("dequeue", "launch")
    /\ UNCHANGED <<fileVars, lockVars, pluginVars, todo, cur, rate, scriptVars,
                   cloudVars, slurmVars>>

\* With an empty id sed has no pattern: it fails and rewrites nothing.
Dequeue ==
    /\ Move("dequeue", "launch")
    /\ IF cur.whole
       THEN queued' = DeleteLines(queued, IdPattern(cur.job)) /\ inode' = Orphaned
       ELSE UNCHANGED <<queued, inode>>
    /\ UNCHANGED <<pending, spawning, spawned, running, lockVars, ppc, pjob,
                   todo, cur, rate, scriptVars, cloudVars, slurmVars>>

LaunchQueued ==
    /\ Move("launch", "queued")
    /\ StartScript(cur)
    /\ rate' = rate + 1
    /\ DoneLine
    /\ UNCHANGED <<fileVars, lockVars, pluginVars, status, cloudVars, slurmVars>>

\* The loop is over, its inode is closed, vmlock is released.
EndQueued ==
    /\ IsEmpty(todo)
    /\ Move("queued", "pendinglock")
    /\ inode' = IF inode = "old" THEN "gone" ELSE inode
    /\ vmlock' = "free"
    /\ UNCHANGED <<fileVars, pendinglock, ppc, pjob, todo, cur, rate,
                   scriptVars, cloudVars, slurmVars>>

TryPendingLock ==
    /\ dpc = "pendinglock"
    /\ IF pendinglock = "free"
       THEN pendinglock' = "daemon" /\ dpc' = "pending" /\ todo' = pending
       ELSE dpc' = "window" /\ UNCHANGED <<pendinglock, todo>>
    /\ UNCHANGED <<fileVars, vmlock, pluginVars, cur, rate, scriptVars,
                   cloudVars, slurmVars>>

ReadPending(ln) ==
    /\ dpc = "pending"
    /\ HasLine(todo, ln)
    /\ IF MayLaunch
       THEN /\ dpc' = "unpend"
            /\ spawning' = AddLine(spawning, ln)
            /\ ReadLine(ln)
       ELSE SkipLine(ln) /\ UNCHANGED <<dpc, spawning>>
    /\ UNCHANGED <<queued, pending, spawned, running, lockVars, pluginVars,
                   rate, scriptVars, cloudVars, slurmVars>>

Unpend ==
    /\ Move("unpend", "launchpending")
    /\ pending' = DeleteLines(pending, IdPattern(cur.job))
    /\ UNCHANGED <<queued, spawning, spawned, running, lockVars, pluginVars,
                   todo, cur, rate, scriptVars, cloudVars, slurmVars>>

LaunchPending ==
    /\ Move("launchpending", "pending")
    /\ StartScript(cur)
    /\ rate' = rate + 1
    /\ DoneLine
    /\ UNCHANGED <<fileVars, lockVars, pluginVars, status, cloudVars, slurmVars>>

\* (mutant: pendinglock is kept)
BadEndPending ==
    /\ IsEmpty(todo)
    /\ Move("pending", "window")
    /\ UNCHANGED <<fileVars, lockVars, pluginVars, todo, cur, rate, scriptVars,
                   cloudVars, slurmVars>>

EndPending ==
    /\ IsEmpty(todo)
    /\ Move("pending", "window")
    /\ pendinglock' = "free"
    /\ UNCHANGED <<fileVars, vmlock, pluginVars, todo, cur, rate, scriptVars,
                   cloudVars, slurmVars>>

-----------------------------------------------------------------------------
(* The system *)

Init ==
    /\ queued = EmptyFile /\ pending = EmptyFile
    /\ spawning = EmptyFile /\ spawned = EmptyFile
    /\ running = {}
    /\ vmlock = "free" /\ pendinglock = "free"
    /\ ppc = "idle" /\ pjob = NoJob /\ inode = "none"
    /\ dpc = "window" /\ todo = EmptyFile /\ cur = NoLine /\ rate = 0
    /\ status = [j \in Jobs |-> NoStatus]
    /\ script = [j \in Jobs |-> [r \in Runs |-> "idle"]]
    /\ vm = [j \in Jobs |-> "none"]
    /\ conf = {}
    /\ job = [j \in Jobs |-> "new"]
    /\ nodes = {}

ReadStep ==
    \E ln \in Lines :
        ReadSpawned(ln) \/ ReadSpawning(ln) \/ ReadQueued(ln) \/ ReadPending(ln)

SpawnedStep == OpenSpawned \/ RunJobRelease \/ RunJobDone \/ EndSpawned

SpawningStep ==
    \/ OpenSpawning \/ EndSpawning
    \/ NoHostDrop \/ NoHostRequeue
    \/ CloneFailDrop \/ CloneFailRequeue
    \/ IncompatibleDrop \/ IncompatibleCancel
    \/ IpFixDestroy \/ IpFixCancel \/ IpFixDrop
    \/ AddSpawnedDrop \/ AddSpawned

LaunchStep ==
    \/ OpenQueued \/ Dequeue \/ LaunchQueued \/ EndQueued
    \/ TryPendingLock \/ Unpend \/ LaunchPending \/ EndPending

DaemonStep ==
    \/ WindowElapsed \/ WindowOpen \/ TryVmLock
    \/ ReadStep \/ SpawnedStep \/ SpawningStep \/ LaunchStep

Next ==
    \/ \E j \in Jobs : Submit(j) \/ UserCancel(j)
    \/ PluginStep
    \/ DaemonStep
    \/ \E j \in Jobs, r \in Runs : ScriptStep(j, r)

Spec == Init /\ [][Next]_vars

(***************************************************************************)
(* Every process that can take a step takes one: they are processes of one *)
(* Linux machine.  Minutes pass, so the rate window does not stay open for *)
(* ever.  Nothing is assumed of the hosts: they may have no room for ever, *)
(* and nothing in the code gives back what add_vm has reserved.            *)
(***************************************************************************)
Fairness ==
    /\ WF_vars(PluginStep)
    /\ WF_vars(DaemonStep)
    /\ SF_vars(WindowElapsed)
    /\ \A j \in Jobs, r \in Runs : WF_vars(ScriptStep(j, r))

FairSpec == Spec /\ Fairness

(***************************************************************************)
(* Nothing but time makes a script truncate the status of an earlier       *)
(* launch before the daemon looks at it again: the two "sleep $1" of the   *)
(* loop (lines 226 and 265, 5 s each) against the few commands that come   *)
(* before "exec 8>".  PromptSpec takes that race to be won, and only that. *)
(***************************************************************************)
Prompt ==
    dpc # "spawning" /\ dpc' = "spawning" =>
        \A j \in Jobs, r \in Runs : ~At(j, r, "start")

PromptNext == Next /\ Prompt

PromptSpec == Init /\ [][PromptNext]_vars /\ Fairness

-----------------------------------------------------------------------------
(* Properties *)

DaemonPoints == {
    "window", "vmlock", "openspawned", "spawned", "release", "unspawn",
    "openspawning", "spawning", "nohost", "requeue", "clonefail", "restub",
    "incompatible", "scancel", "ipfix", "ipcancel", "ipdrop", "addspawned",
    "tospawned", "openqueued", "queued", "dequeue", "launch", "pendinglock",
    "pending", "unpend", "launchpending"}

\* The daemon is at work on one line.
Handling == {
    "release", "unspawn", "nohost", "requeue", "clonefail", "restub",
    "incompatible", "scancel", "ipfix", "ipcancel", "ipdrop", "addspawned",
    "tospawned", "dequeue", "launch", "unpend", "launchpending"}

\* Between "sed -i" of one file and "echo >>" of the next the line is only in
\* the daemon's memory (nohost, clone_fail, incompatible_job, addSpawned).
InMemoryOnly == {"requeue", "restub", "scancel", "tospawned"}

\* Every variable has its type; in particular no more than Limit + 1 launches
\* are counted in a window (the test at vhpcLaunch.sh:214 is "<=").
TypeOK ==
    /\ {queued, pending, spawning, spawned, todo} \subseteq Files
    /\ {running, conf, nodes} \subseteq SUBSET Jobs
    /\ {vmlock, pendinglock} \subseteq {"free", "plugin", "daemon"}
    /\ ppc \in {"idle", "vmlock", "queue", "flush", "pendinglock", "append",
                "return", "down"}
    /\ pjob \in Jobs \cup {NoJob}
    /\ inode \in {"none", "file", "old", "gone"}
    /\ dpc \in DaemonPoints
    /\ cur \in Lines \cup {NoLine}
    /\ rate \in 0..Limit + 1
    /\ status \in [Jobs -> Statuses]
    /\ script \in [Jobs -> [Runs -> Stages]]
    /\ vm \in [Jobs -> {"none", "partial", "cloned", "ready"}]
    /\ job \in [Jobs -> JobStates]

\* A job leaves the hold of vhpcLaunch.sh:72 only while its own VM is up and
\* set up, whatever the scripts and the user do at the same time.
ReleaseOnlyReady == \A j \in Jobs : job[j] = "released" => vm[j] = "ready"

\* The slurmctld that runs a released job has read the line of its node: the
\* line is written before status 0, and the restart at vhpcLaunch.sh:140
\* comes between that status and the release.
ReleasedNodeKnown == \A j \in Jobs : job[j] = "released" => j \in nodes

\* A job that has been released is never again a line to be launched or
\* judged: the plugin, called again by the release, leaves it alone
\* (hold_wrapper.c:88), and no loop still has its line to read.
ReleasedNeverRelaunched ==
    \A j \in Jobs :
        job[j] = "released" =>
            \A f \in {queued, pending, spawning, todo} : ~HasLine(f, Line(j))

\* A job is on record once: one line in one of the four files, but for the
\* moment between "echo >> spawning_jobs" and "sed -i" of the file it comes
\* from (vhpcLaunch.sh:216-217, 254-255).
RecordedOnce ==
    \A j \in Jobs :
        LET copies == queued[Line(j)] + pending[Line(j)]
                      + spawning[Line(j)] + spawned[Line(j)]
        IN  copies <= IF cur = Line(j) /\ dpc \in {"dequeue", "unpend"}
                      THEN 2 ELSE 1

\* A file names the job, or the daemon has its line in hand or yet to read in
\* the inode that one of its loops has open.
Filed(j) == \E f \in {queued, pending, spawning, spawned} : HasLine(f, Line(j))
Recorded(j) == Filed(j) \/ cur = Line(j) \/ HasLine(todo, Line(j))

Settled(j) == job[j] \in {"released", "cancelled"}

\* The line is only in the inode that the queue loop has open, to which the
\* plugin's fclose has come after sed -i had replaced the file
\* (hold_wrapper.c:165-166, vhpcLaunch.sh:217), and the rate is used up.
AstrayTurnedAway(j) ==
    /\ dpc = "queued" /\ rate > Limit
    /\ HasLine(todo, Line(j)) /\ ~Filed(j)

\* Once a job is on record it stays on record until slurmctld has released
\* or cancelled it, through every requeue and every move between files, while
\* slurmctld is there.  Only a line that has gone astray may be read in vain.
NeverForgotten ==
    [][\A j \in Jobs :
         Recorded(j) /\ ~Settled(j) /\ ppc # "down" =>
           Recorded(j)' \/ Settled(j)' \/ AstrayTurnedAway(j)]_vars

\* A recorded job is dropped only by the four commands that do not look
\* whether slurmctld has answered, or take one name for another: run_job
\* (vhpcLaunch.sh:74), incompatible_job (85), ip_fix (98) and clone_fail (60);
\* and by the launch loop when its line has gone astray (221).
LostOnlyUnanswered ==
    [][\A j \in Jobs :
         Recorded(j) /\ ~Settled(j) /\ ~Recorded(j)' /\ ~Settled(j)' =>
           \/ cur = Line(j) /\ dpc \in {"unspawn", "scancel", "ipdrop", "restub"}
           \/ AstrayTurnedAway(j)]_vars

\* What a window lets through: lines 214 and 252 ask for <=.
LaunchesPerWindow == Limit + 1

\* The launch loop turns the job's line away because the window has had its
\* launches, while more jobs are on record than a window lets through.
TurnedAway(j) ==
    /\ dpc \in {"queued", "pending"} /\ rate > Limit
    /\ HasLine(todo, Line(j))
    /\ Cardinality({p \in Jobs : Recorded(p)}) > LaunchesPerWindow

\* A recorded job is not stranded: until it is settled, a host is asked for on
\* its behalf again and again, however often it is refused (vhpcLaunch.sh:174,
\* nohost), unless the rate is what turns it away, and then only because there
\* are more jobs than a window lets through, or its line has gone astray.
NeverStranded ==
    \A j \in Jobs :
        Recorded(j) ~> \/ Settled(j)
                       \/ \E r \in Runs : At(j, r, "opened")
                       \/ TurnedAway(j)
                       \/ AstrayTurnedAway(j)

\* What a reader of the job's slurmctld record and of vCenter sees.
Phase(j) ==
    CASE job[j] \in {"new", "cancelled"} -> job[j]
      [] job[j] \in {"submitting", "held"} ->
            IF vm[j] = "ready" THEN "provisioned" ELSE "waiting"
      [] job[j] = "released" ->
            IF vm[j] = "ready" THEN "running" ELSE "without a VM"

Lifecycle == INSTANCE JobLifecycle WITH phase <- [j \in Jobs |-> Phase(j)]

\* Plugin, daemon and scripts together do what the VM-per-job model promises
\* (README.md:4), step by step.
KeepsLifecycle == Lifecycle!Spec

=============================================================================

---------------------------- MODULE LaunchState ----------------------------
(***************************************************************************)
(* What the sched/hold plugin, the vhpcLaunch daemon and the per-job       *)
(* launch scripts share on the controller: the job files under             *)
(* /var/spool/slurmctld, the two lock files, the status file of each job,  *)
(* the VMs, and the little of slurmctld that they read and change.         *)
(*                                                                         *)
(* A job file is a bag of lines.  The order of its lines is not kept: a    *)
(* loop that reads a file takes the lines in any order.  A line names one  *)
(* job; a line that is not whole is the "<jobid> " that clone_fail leaves, *)
(* in which the id stands where the name should be.                        *)
(***************************************************************************)
EXTENDS Integers

CONSTANTS
    Jobs,        \* the jobs submitted while the model runs
    NoJob,       \* no job
    IdInId,      \* <<p, j>>: the id of p occurs in the id of j ("1" in "12")
    IdInName,    \* <<p, j>>: the id of p occurs in the unique name of j
    NameInName,  \* <<p, j>>: the unique name of p occurs in that of j
    IdPrefix,    \* <<p, j>>: the id of p begins the id of j
    Faults,      \* what the environment may get wrong, see FaultKinds
    Limit,       \* limit of vhpcLaunch.sh: launches per minute
    Runs,        \* bound: the launch scripts one job can have alive at a time
    MaxCopies    \* bound: equal lines a file is seen to hold (it may have more)

FaultKinds == {
    "open",      \* the plugin cannot open a lock file
    "nofile",    \* it can, but no job file: fopen returns NULL
    "busy",      \* no host has room now: status 1
    "noclone",   \* the toolkit creates no VM, or not all: status 2 or 4
    "invalid",   \* no host is large enough: status 3
    "noip",      \* a VM gets no address: status 4
    "scontrol"   \* scontrol release finds slurmctld not answering
  }

Reflexive(R) == \A j \in Jobs : <<j, j>> \in R

ASSUME JobsAssumption == NoJob \notin Jobs
ASSUME PatternAssumption ==
    /\ Reflexive(IdInId) /\ IdInId \subseteq Jobs \X Jobs
    /\ Reflexive(NameInName) /\ NameInName \subseteq Jobs \X Jobs
    /\ Reflexive(IdPrefix) /\ IdPrefix \subseteq IdInId
    /\ IdInName \subseteq Jobs \X Jobs
ASSUME FaultAssumption == Faults \subseteq FaultKinds
ASSUME BoundAssumption ==
    /\ Limit \in Nat
    /\ MaxCopies \in Nat \ {0}

VARIABLES
    queued, pending, spawning, spawned,  \* the job files
    running,         \* the jobs named in running_jobs, which nobody reads
    vmlock, pendinglock,                 \* who holds each flock
    ppc, pjob,       \* the plugin: where it is, and the job it is called for
    inode,           \* what the plugin's open stream on queued_jobs refers to
    dpc, todo, cur,  \* the daemon: where it is, lines left to read, this line
    rate,            \* rate_limiter
    status,          \* contents of lock/<jobid>
    script,          \* the stage of each launch script of each job
    vm, conf,        \* the VMs of each job; jobs with a line in slurm_slaves.conf
    job, nodes       \* slurmctld: the state of each job, the nodes it has loaded

fileVars   == <<queued, pending, spawning, spawned, running>>
lockVars   == <<vmlock, pendinglock>>
pluginVars == <<ppc, pjob, inode>>
daemonVars == <<dpc, todo, cur, rate>>
scriptVars == <<status, script>>
cloudVars  == <<vm, conf>>
slurmVars  == <<job, nodes>>
vars == <<fileVars, lockVars, pluginVars, daemonVars, scriptVars, cloudVars,
          slurmVars>>

-----------------------------------------------------------------------------
(* Lines and files *)

Lines == [job : Jobs, whole : BOOLEAN]
NoLine == [job |-> NoJob, whole |-> FALSE]
Line(j) == [job |-> j, whole |-> TRUE]       \* "<name> <jobid>"
Stub(j) == [job |-> j, whole |-> FALSE]      \* "<jobid> "

Files == [Lines -> 0..MaxCopies]
EmptyFile == [ln \in Lines |-> 0]
HasLine(f, ln) == f[ln] > 0
IsEmpty(f) == \A ln \in Lines : f[ln] = 0

\* echo "..." >> file
AddLine(f, ln) == [f EXCEPT ![ln] = IF @ < MaxCopies THEN @ + 1 ELSE @]

\* sed -i "/$jobid/d" matches the id anywhere in the line
IdPattern(j) ==
    {ln \in Lines : \/ <<j, ln.job>> \in IdInId
                    \/ ln.whole /\ <<j, ln.job>> \in IdInName}

\* sed -i "/$jobname/d"
NamePattern(j) == {ln \in Lines : ln.whole /\ <<j, ln.job>> \in NameInName}

DeleteLines(f, pattern) ==
    [ln \in Lines |-> IF ln \in pattern THEN 0 ELSE f[ln]]

\* while read: one line of the file the loop has open
TakeLine(f, ln) == [f EXCEPT ![ln] = @ - 1]

-----------------------------------------------------------------------------
(* Status files and scripts *)

NoStatus == -1      \* the file is missing or empty
Ready == 0
NoHost == 1
NoClone == 2
Incompatible == 3
NoAddress == 4
Statuses == NoStatus..NoAddress

Stages == {"idle", "start", "opened", "reserved", "cloned", "addressed", "ready"}

At(j, r, stage) == script[j][r] = stage
Goto(j, r, stage) == script' = [script EXCEPT ![j][r] = stage]

-----------------------------------------------------------------------------
(* The states of a job in slurmctld.  A held job is one whose priority is 0;
   a job that slurmctld does not know any more counts as cancelled.          *)

JobStates == {"new", "submitting", "held", "released", "cancelled"}
NewPriority == 1
HeldPriority == 0

=============================================================================

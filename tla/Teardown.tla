------------------------------ MODULE Teardown ------------------------------
(***************************************************************************)
(* The end of a job's VMs.  The epilog of vhpc.c runs cleanup.sh in every  *)
(* VM of the job; that script leaves a file named after the job in         *)
(* completed_jobs, and the vhpcCleanup daemon destroys, for every file, the*)
(* VMs of the cluster.conf in the folder of that name.  The names come from*)
(* job_submit.lua: what the user called the job, and the second.           *)
(***************************************************************************)
EXTENDS Naturals, FiniteSets

CONSTANTS
    Jobs, None,
    Labels, Label,   \* Label[j]: the name the user gave to job j
    Nodes,           \* job j has the VMs 1..Nodes[j]
    Faults,          \* what may go wrong: "scp", "destroy"
    MaxTime,         \* bound on the clock, in seconds
    MaxCrashes       \* bound on the deaths of the daemon

ASSUME TeardownAssumption ==
    /\ Label \in [Jobs -> Labels]
    /\ None \notin Jobs \cup (Labels \X Nat)
    /\ Nodes \in [Jobs -> Nat \ {0}] /\ MaxTime \in Nat /\ MaxCrashes \in Nat
    /\ Faults \subseteq {"scp", "destroy"}

VARIABLES
    now,        \* os.time()
    name,       \* the name of each job, also that of its folder; None: not submitted
    clusterConf,\* whose VMs the cluster.conf of a folder describes
    job,        \* what slurmctld knows of each job
    vms,        \* the VMs that exist, as <<job, node>>
    epilog,     \* how far the epilog of each VM is
    completed,  \* the files in completed_jobs
    logs,       \* the VMs whose logs have been copied
    daemon,     \* where the cleanup daemon is
    list,       \* $(ls): what is left of the loop
    entry,      \* $entry
    crashes,
    failed      \* history: the jobs for whom a copy or a destruction has failed

systemVars == <<now, name, clusterConf, job>>
vmVars     == <<vms, epilog, logs>>
daemonVars == <<daemon, list, entry, crashes>>
teardownVars == <<systemVars, vmVars, completed, daemonVars, failed>>

VMs == UNION {{j} \X (1 .. Nodes[j]) : j \in Jobs}
JobNames == Labels \X (0 .. MaxTime)

\* The VMs of the job whose cluster.conf is in folder n.
VMsOf(n) == {v \in VMs : v[1] = clusterConf[n]}

-----------------------------------------------------------------------------
(* Submission, launch and execution *)

Tick ==
    /\ now < MaxTime
    /\ now' = now + 1
    /\ UNCHANGED <<name, clusterConf, job, vmVars, completed, daemonVars, failed>>

\* slurm_job_submit: mkdir fails silently when the folder is there.
Submit(j) ==
    /\ name[j] = None
    /\ name' = [name EXCEPT ![j] = <<Label[j], now>>]
    /\ UNCHANGED <<now, clusterConf, job, vmVars, completed, daemonVars, failed>>

\* The launch script writes cluster.conf and creates the VMs; the daemon then
\* releases the job and slurmctld starts it on them.
Launch(j) ==
    /\ name[j] # None /\ job[j] = "submitted"
    /\ clusterConf' = [clusterConf EXCEPT ![name[j]] = j]
    /\ vms' = vms \cup {v \in VMs : v[1] = j}
    /\ job' = [job EXCEPT ![j] = "running"]
    /\ UNCHANGED <<now, name, epilog, logs, completed, daemonVars, failed>>

JobEnds(j) ==
    /\ job[j] = "running"
    /\ job' = [job EXCEPT ![j] = "over"]
    /\ UNCHANGED <<now, name, clusterConf, vmVars, completed, daemonVars, failed>>

-----------------------------------------------------------------------------
(* cleanup.sh in the VM v, run by slurm_spank_job_epilog *)

\* A script only goes on in a VM that exists.
EpilogStep(v, from, to) ==
    /\ v \in vms
    /\ epilog[v] = from
    /\ epilog' = [epilog EXCEPT ![v] = to]
    /\ UNCHANGED <<systemVars, vms, daemonVars>>

\* The file /root/completion is copied to completed_jobs/$jobname.
\* (mutant: the VM reports its completion from the prolog)
BadNotify(v) ==
    /\ job[v[1]] # "submitted"
    /\ EpilogStep(v, "none", "notified")
    /\ completed' = completed \cup {name[v[1]]}
    /\ UNCHANGED <<logs, failed>>

Notify(v) ==
    /\ job[v[1]] = "over"
    /\ EpilogStep(v, "none", "notified")
    /\ \/ completed' = completed \cup {name[v[1]]} /\ UNCHANGED failed
       \/ /\ "scp" \in Faults
          /\ failed' = failed \cup {v[1]} /\ UNCHANGED completed
    /\ UNCHANGED logs

CopyLogs(v) ==
    /\ EpilogStep(v, "notified", "copied")
    /\ \/ logs' = logs \cup {v}
       \/ "scp" \in Faults /\ UNCHANGED logs
    /\ UNCHANGED <<completed, failed>>

\* scontrol update nodename=$slave State=DOWN
MarkDown(v) ==
    /\ EpilogStep(v, "copied", "down")
    /\ UNCHANGED <<logs, completed, failed>>

-----------------------------------------------------------------------------
(* vhpcCleanup.sh *)

\* ls; the loop works on what it has listed.
\* (mutant: -gt for -ge, one file alone is not looked at)
BadListCompleted ==
    /\ daemon = "idle" /\ Cardinality(completed) > 1
    /\ list' = completed
    /\ daemon' = "loop"
    /\ UNCHANGED <<systemVars, vmVars, completed, entry, crashes, failed>>

ListCompleted ==
    /\ daemon = "idle" /\ completed # {}
    /\ list' = completed
    /\ daemon' = "loop"
    /\ UNCHANGED <<systemVars, vmVars, completed, entry, crashes, failed>>

NextEntry ==
    /\ daemon = "loop"
    /\ \E n \in list : entry' = n /\ list' = list \ {n}
    /\ daemon' = "cleaning"
    /\ UNCHANGED <<systemVars, vmVars, completed, crashes, failed>>

EndLoop ==
    /\ daemon = "loop" /\ list = {}
    /\ daemon' = "idle" /\ entry' = None
    /\ UNCHANGED <<systemVars, vmVars, completed, list, crashes, failed>>

\* cd /var/spool/$entry; sh cleanup.sh $clone
CleanUp ==
    /\ daemon = "cleaning"
    /\ \/ vms' = vms \ VMsOf(entry) /\ UNCHANGED failed
       \/ /\ "destroy" \in Faults
          /\ failed' = failed \cup {clusterConf[entry]} /\ UNCHANGED vms
    /\ daemon' = "cleaned"
    /\ UNCHANGED <<systemVars, epilog, logs, completed, list, entry, crashes>>

\* rm -rf $entry, whatever cleanup.sh has done.
\* (mutant: the files are removed after the loop, all at once)
BadRemoveEntry ==
    /\ daemon = "cleaned"
    /\ completed' = IF list = {} THEN {} ELSE completed
    /\ daemon' = "loop"
    /\ UNCHANGED <<systemVars, vmVars, list, entry, crashes, failed>>

RemoveEntry ==
    /\ daemon = "cleaned"
    /\ completed' = completed \ {entry}
    /\ daemon' = "loop"
    /\ UNCHANGED <<systemVars, vmVars, list, entry, crashes, failed>>

\* Restart=on-failure
CleanupCrash ==
    /\ crashes < MaxCrashes /\ daemon # "idle"
    /\ crashes' = crashes + 1
    /\ daemon' = "idle" /\ list' = {} /\ entry' = None
    /\ UNCHANGED <<systemVars, vmVars, completed, failed>>

-----------------------------------------------------------------------------
Init ==
    /\ now = 0
    /\ name = [j \in Jobs |-> None]
    /\ clusterConf = [n \in JobNames |-> None]
    /\ job = [j \in Jobs |-> "submitted"]
    /\ vms = {} /\ logs = {}
    /\ epilog = [v \in VMs |-> "none"]
    /\ completed = {}
    /\ daemon = "idle" /\ list = {} /\ entry = None /\ crashes = 0
    /\ failed = {}

Daemon == ListCompleted \/ NextEntry \/ EndLoop \/ CleanUp \/ RemoveEntry

VM(v) == Notify(v) \/ CopyLogs(v) \/ MarkDown(v)

Next ==
    \/ Tick
    \/ \E j \in Jobs : Submit(j) \/ Launch(j) \/ JobEnds(j)
    \/ \E v \in VMs : VM(v)
    \/ Daemon \/ CleanupCrash

Spec == Init /\ [][Next]_teardownVars

\* The daemon is a loop with a sleep, and the epilog a list of commands; both
\* go on.
FairSpec ==
    /\ Spec
    /\ WF_teardownVars(Daemon)
    /\ \A v \in VMs : WF_teardownVars(VM(v))

-----------------------------------------------------------------------------
(* Properties *)

TypeOK ==
    /\ now \in 0 .. MaxTime
    /\ name \in [Jobs -> JobNames \cup {None}]
    /\ clusterConf \in [JobNames -> Jobs \cup {None}]
    /\ job \in [Jobs -> {"submitted", "running", "over"}]
    /\ vms \subseteq VMs /\ logs \subseteq VMs
    /\ epilog \in [VMs -> {"none", "notified", "copied", "down"}]
    /\ completed \subseteq JobNames
    /\ daemon \in {"idle", "loop", "cleaning", "cleaned"}
    /\ list \subseteq JobNames /\ entry \in JobNames \cup {None}
    /\ crashes \in 0 .. MaxCrashes /\ failed \subseteq Jobs

\* The daemon never takes a VM away from a job that runs
\* (vhpcCleanup.sh:40-48), although all it has is a name.
DestroyedOnlyWhenOver ==
    \A v \in VMs : job[v[1]] = "running" => v \in vms

\* A request outlives the death of the daemon: as long as a VM that has
\* notified exists its file is there (rm comes after sh cleanup.sh, and
\* removes no file that came in between), unless one of its own commands
\* failed.
RequestKept ==
    \A v \in vms : epilog[v] # "none" =>
        name[v[1]] \in completed \/ v[1] \in failed

\* The VMs of a job that is over are destroyed, if its commands succeed:
\* another job's failure does not stand in the way.
EventuallyDestroyed ==
    \A v \in VMs : job[v[1]] = "over" ~> v \notin vms \/ v[1] \in failed

-----------------------------------------------------------------------------
(* What the documentation says and the code does not do *)

\* cleanup.sh:17: "copy the slurmd daemon logs, and job output logs to
\* controller and login node": a VM that ended its job is not destroyed before.
LogsBeforeDestroy ==
    \A v \in VMs : job[v[1]] = "over" /\ v \notin vms => v \in logs

=============================================================================

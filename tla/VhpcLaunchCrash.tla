-------------------------- MODULE VhpcLaunchCrash --------------------------
(***************************************************************************)
(* VhpcLaunch with a daemon that may die anywhere.  vhpcLaunch.service     *)
(* restarts it (Restart=on-failure) after killing what is left of its      *)
(* control group, the launch scripts included.  The flocks go with the     *)
(* processes; the files stay as the last completed command left them.      *)
(***************************************************************************)
EXTENDS VhpcLaunchInv

CONSTANT MaxCrashes   \* bound: crashes in one behaviour
ASSUME CrashAssumption == MaxCrashes \in Nat

VARIABLES
    crashes,
    doubled,   \* history: jobs whose VM a crash has left with two claims on it
    deserted   \* history: jobs whose launch a crash has cut short

pastVars == <<crashes, doubled, deserted>>
crashVars == <<vars, pastVars>>

\* (mutant: a lock outlives its holder)
BadFreedBy(owner, lock) == lock

FreedBy(owner, lock) == IF lock = owner THEN "free" ELSE lock

\* The line at hand has been copied to spawning_jobs ("echo >>"), and is or is
\* not in the file it comes from any more ("sed -i").
Copied == dpc \in {"dequeue", "unpend", "launch", "launchpending"}
StillQueued == \E f \in {queued, pending} : HasLine(f, cur)

\* The line is in both files, or it is still in spawning_jobs although the VM
\* of a job that slurmctld has not cancelled is destroyed.
Doubling ==
    \/ Copied /\ StillQueued
    \/ dpc \in {"ipcancel", "ipdrop"} /\ job[cur.job] # "cancelled"

\* The line is in spawning_jobs only and its script is about to be started.
Deserting == Copied /\ ~StillQueued

Crash ==
    /\ crashes < MaxCrashes
    /\ crashes' = crashes + 1
    /\ doubled' = doubled \cup IF Doubling THEN {cur.job} ELSE {}
    /\ deserted' = deserted
         \cup {j \in Jobs : \E r \in Runs : ~At(j, r, "idle")}
         \cup IF Deserting THEN {cur.job} ELSE {}
    /\ dpc' = "window" /\ todo' = EmptyFile /\ cur' = NoLine /\ rate' = 0
    /\ vmlock' = FreedBy("daemon", vmlock)
    /\ pendinglock' = FreedBy("daemon", pendinglock)
    /\ inode' = IF inode = "old" THEN "gone" ELSE inode
    /\ script' = [j \in Jobs |-> [r \in Runs |-> "idle"]]
    /\ UNCHANGED <<fileVars, ppc, pjob, status, cloudVars, slurmVars>>

CrashInit == Init /\ crashes = 0 /\ doubled = {} /\ deserted = {}
CrashNext == Crash \/ (Next /\ UNCHANGED pastVars)
CrashSpec == CrashInit /\ [][CrashNext]_crashVars

-----------------------------------------------------------------------------
(* Properties *)

\* A crash loses at most the line that is in the daemon's memory alone, and
\* the one that is only in the inode its queue loop has open: the launch loops
\* write spawning_jobs before they shorten the file they read
\* (vhpcLaunch.sh:216-217, 254-255), and run_job releases the job before it
\* drops the line (lines 72-74).  (What an earlier crash has left with two
\* lines may be taken for two jobs.)
CrashForgetsOnlyInMemory ==
    [][\A j \in Jobs \ doubled :
         crashes' # crashes /\ Recorded(j) /\ ~Settled(j) /\ ~Recorded(j)' =>
           dpc \in InMemoryOnly \/ (Unread(j, QueueLoop) /\ ~Filed(j))]_crashVars

\* After a restart as before it a job runs only while its VM is up, unless the
\* crash has come between "echo >> spawning_jobs" and "sed -i" of the file the
\* line comes from (vhpcLaunch.sh:216-217, 254-255), so that the job is launched
\* twice, or between the destruction of its VM and the "sed -i" of ip_fix (lines
\* 96-98) while slurmctld has not cancelled the job.  A crash between scontrol
\* release and its "sed -i" (lines 72-74) does no harm: the job is released a
\* second time.
CrashReleaseSafe ==
    \A j \in Jobs \ doubled : job[j] = "released" => vm[j] = "ready"

\* The main loop skips a line whose status is empty (vhpcLaunch.sh:170).  Such
\* a line is never waited for in vain: a script is at work on it or still to be
\* started, unless a crash has killed its script.
NoVainWait ==
    \A j \in Jobs \ deserted :
        HasLine(spawning, Line(j)) /\ status[j] = NoStatus =>
            \/ \E r \in Runs : ~At(j, r, "idle")
            \/ HasLine(queued, Line(j)) \/ HasLine(pending, Line(j))
            \/ cur = Line(j)

\* flock is given back by the kernel, so after a crash as before it the
\* daemon never finds a lock held by its own former self.
NeverLockedOut ==
    /\ dpc \in {"window", "vmlock"} => vmlock # "daemon" /\ pendinglock # "daemon"
    /\ dpc = "pendinglock" => pendinglock # "daemon"
-----------------------------------------------------------------------------
(* Why: what a crash leaves of the invariants of VhpcLaunchInv *)

\* A line whose status is empty, with no script at work on it, is still to be
\* launched.
Waited(j) ==
    /\ HasLine(spawning, Line(j)) /\ status[j] = NoStatus
    /\ \A r \in Runs : At(j, r, "idle")
    => \/ HasLine(queued, Line(j)) \/ HasLine(pending, Line(j))
       \/ InHand(j, {"dequeue", "launch", "unpend", "launchpending"})

\* Types, locks and nodes are as they were for every job, places and VMs for
\* those that no crash has left with two claims on their VM.
CrashInv ==
    /\ TypeInv /\ LockInv /\ NodeInv
    /\ \A j \in Jobs \ doubled : OnePlace(j) /\ OneLine(j) /\ VmKnown(j)

\* Where no id and no name occurs in another, a line is in its file too, and is
\* not waited for in vain.
CrashKeptInv ==
    Collisionless =>
        /\ \A j \in Jobs \ doubled : Kept(j)
        /\ \A j \in Jobs \ deserted : Waited(j)

=============================================================================

---------------------------- MODULE HoldPlugin ----------------------------
(***************************************************************************)
(* sched/hold: slurm_sched_p_initial_priority, called by slurmctld under   *)
(* its job write lock, so for one job at a time.  /etc/slurm.hold is in    *)
(* place, so a call that goes past the priority test holds the job.        *)
(* slurmctld is "idle" when it is not in the plugin, and "down" when the   *)
(* plugin has taken it down.                                               *)
(***************************************************************************)
EXTENDS LaunchState

pluginFrame == <<spawning, spawned, running, todo, cur, rate, dpc, scriptVars,
                 cloudVars, nodes>>

\* (mutant: every call records its job)
BadRecordsJob(priority) == TRUE

\* A job whose priority is 0 is left alone: it is being released or recovered.
RecordsJob(priority) == priority # 0

\* slurmctld calls the plugin for a job it has just accepted.
Submit(j) ==
    /\ ppc = "idle"
    /\ job[j] = "new"
    /\ RecordsJob(NewPriority)
    /\ ppc' = "vmlock"
    /\ pjob' = j
    /\ job' = [job EXCEPT ![j] = "submitting"]
    /\ UNCHANGED <<pluginFrame, queued, pending, lockVars, inode, todo>>

\* open(2) of either lock file fails: the job is held and written nowhere.
PluginCannotOpen ==
    /\ ppc \in {"vmlock", "pendinglock"}
    /\ "open" \in Faults
    /\ ppc' = "return"
    /\ UNCHANGED <<pluginFrame, queued, pending, lockVars, pjob, inode, job>>

PluginTryVmLock ==
    /\ ppc = "vmlock"
    /\ IF vmlock = "free"
       THEN vmlock' = "plugin" /\ ppc' = "queue"
       ELSE ppc' = "pendinglock" /\ UNCHANGED vmlock
    /\ UNCHANGED <<pluginFrame, queued, pending, pendinglock, pjob, inode, job>>

\* The line is printed into the stream's buffer and the lock is released
\* before fclose writes the buffer.
PluginQueue ==
    /\ ppc = "queue"
    /\ inode' = "file"
    /\ vmlock' = "free"
    /\ ppc' = "flush"
    /\ UNCHANGED <<pluginFrame, queued, pending, pendinglock, pjob, job>>

\* fclose appends the line to the inode that was opened: still the file, or
\* the one sed -i replaced and the daemon's loop is still reading, or neither.
PluginFlush ==
    /\ ppc = "flush"
    /\ queued' = IF inode = "file" THEN AddLine(queued, Line(pjob)) ELSE queued
    /\ todo' = IF dpc \in {"queued", "dequeue", "launch"} /\ inode # "gone"
               THEN AddLine(todo, Line(pjob))
               ELSE todo
    /\ inode' = "none"
    /\ ppc' = "return"
    /\ UNCHANGED <<spawning, spawned, running, pending, lockVars, pjob, dpc,
                   cur, rate, scriptVars, cloudVars, slurmVars>>

\* When neither lock is free the job is only logged.
PluginTryPendingLock ==
    /\ ppc = "pendinglock"
    /\ IF pendinglock = "free"
       THEN pendinglock' = "plugin" /\ ppc' = "append"
       ELSE ppc' = "return" /\ UNCHANGED pendinglock
    /\ UNCHANGED <<pluginFrame, queued, pending, vmlock, pjob, inode, job>>

\* Here fclose comes before the unlock.
PluginAppend ==
    /\ ppc = "append"
    /\ pending' = AddLine(pending, Line(pjob))
    /\ pendinglock' = "free"
    /\ ppc' = "return"
    /\ UNCHANGED <<pluginFrame, queued, vmlock, pjob, inode, job>>

\* "f >= 0" holds of NULL too: fprintf takes slurmctld down.  Its locks go with
\* it, and so does the job, which it has not saved yet.
PluginNoFile ==
    /\ ppc \in {"queue", "append"}
    /\ "nofile" \in Faults
    /\ vmlock' = IF ppc = "queue" THEN "free" ELSE vmlock
    /\ pendinglock' = IF ppc = "append" THEN "free" ELSE pendinglock
    /\ job' = [job EXCEPT ![pjob] = "cancelled"]
    /\ ppc' = "down"
    /\ pjob' = NoJob
    /\ UNCHANGED <<pluginFrame, queued, pending, inode>>

\* return 0: slurmctld stores the priority and lets go of its job lock.
PluginReturn ==
    /\ ppc = "return"
    /\ job' = [job EXCEPT ![pjob] = "held"]
    /\ ppc' = "idle"
    /\ pjob' = NoJob
    /\ UNCHANGED <<pluginFrame, queued, pending, lockVars, inode>>

PluginStep ==
    \/ PluginCannotOpen
    \/ PluginTryVmLock
    \/ PluginQueue
    \/ PluginFlush
    \/ PluginTryPendingLock
    \/ PluginAppend
    \/ PluginNoFile
    \/ PluginReturn

\* The user takes a held job back; only slurmctld is told.
UserCancel(j) ==
    /\ ppc = "idle"
    /\ job[j] = "held"
    /\ job' = [job EXCEPT ![j] = "cancelled"]
    /\ UNCHANGED <<fileVars, lockVars, pluginVars, daemonVars, scriptVars,
                   cloudVars, nodes>>

=============================================================================

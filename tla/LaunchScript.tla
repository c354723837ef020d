---------------------------- MODULE LaunchScript ----------------------------
(***************************************************************************)
(* pending_slave_vm_launch.sh, one process per launch.  Its exit status is *)
(* what it leaves in lock/<jobid>; nothing makes the daemon wait for it,   *)
(* and the lock it takes on that file is not asked for by anybody else.    *)
(***************************************************************************)
EXTENDS LaunchState

scriptFrame == <<fileVars, lockVars, pluginVars, daemonVars, slurmVars>>

\* exec 8>$lock truncates the status that an earlier launch has left.
OpenStatus(j, r) ==
    /\ At(j, r, "start")
    /\ status' = [status EXCEPT ![j] = NoStatus]
    /\ Goto(j, r, "opened")
    /\ UNCHANGED <<scriptFrame, cloudVars>>

\* The three answers of get_compatible_host, asked for under admCtrlLock.
\* (mutant: the script ends without writing its status)
BadHostBusy(j, r) ==
    /\ At(j, r, "opened")
    /\ "busy" \in Faults
    /\ Goto(j, r, "idle")
    /\ UNCHANGED <<scriptFrame, cloudVars, status>>

HostBusy(j, r) ==
    /\ At(j, r, "opened")
    /\ "busy" \in Faults
    /\ status' = [status EXCEPT ![j] = NoHost]
    /\ Goto(j, r, "idle")
    /\ UNCHANGED <<scriptFrame, cloudVars>>

HostInvalid(j, r) ==
    /\ At(j, r, "opened")
    /\ "invalid" \in Faults
    /\ status' = [status EXCEPT ![j] = Incompatible]
    /\ Goto(j, r, "idle")
    /\ UNCHANGED <<scriptFrame, cloudVars>>

HostFound(j, r) ==
    /\ At(j, r, "opened")
    /\ Goto(j, r, "reserved")
    /\ UNCHANGED <<scriptFrame, cloudVars, status>>

\* vhpc cluster --create makes all of a job's VMs, some of them or none; those
\* that are there stay.
Made(vms, created) ==
    IF created = "none" \/ vms \in {"cloned", "ready"} THEN vms ELSE created

\* "view | grep s_$jobid" is content with any of them, and also with those of a
\* job whose id merely begins with this one's.
Clone(j, r) ==
    \E created \in {"cloned"} \cup (IF "noclone" \in Faults THEN {"none", "partial"} ELSE {}) :
        LET exists(q) == vm[q] # "none" \/ (q = j /\ created # "none")
            found == \E q \in Jobs : <<j, q>> \in IdPrefix /\ exists(q)
        IN  /\ At(j, r, "reserved")
            /\ vm' = [vm EXCEPT ![j] = Made(@, created)]
            /\ IF found
               THEN Goto(j, r, "cloned") /\ UNCHANGED status
               ELSE Goto(j, r, "idle") /\ status' = [status EXCEPT ![j] = NoClone]
            /\ UNCHANGED <<scriptFrame, conf>>

\* power --on and getip, VM by VM; slave_list is written on the way.  All of
\* them have to be there.
AddressFound(j, r) ==
    /\ At(j, r, "cloned")
    /\ vm[j] \in {"cloned", "ready"}
    /\ Goto(j, r, "addressed")
    /\ UNCHANGED <<scriptFrame, cloudVars, status>>

\* (mutant: the script goes on without an address and reports success)
BadAddressMissing(j, r) ==
    /\ At(j, r, "cloned")
    /\ vm[j] \in {"none", "partial"} \/ "noip" \in Faults
    /\ status' = [status EXCEPT ![j] = Ready]
    /\ Goto(j, r, "idle")
    /\ UNCHANGED <<scriptFrame, cloudVars>>

AddressMissing(j, r) ==
    /\ At(j, r, "cloned")
    /\ vm[j] \in {"none", "partial"} \/ "noip" \in Faults
    /\ status' = [status EXCEPT ![j] = NoAddress]
    /\ Goto(j, r, "idle")
    /\ UNCHANGED <<scriptFrame, cloudVars>>

\* (mutant: success is reported before the VM is set up)
BadCustomise(j, r) ==
    /\ At(j, r, "addressed")
    /\ status' = [status EXCEPT ![j] = Ready]
    /\ conf' = conf \cup {j}
    /\ Goto(j, r, "ready")
    /\ UNCHANGED <<scriptFrame, vm>>

\* Under configlock the node goes into slurm_slaves.conf, then it is set up.
\* No command's failure is noticed, so a VM destroyed meanwhile stays away.
Customise(j, r) ==
    /\ At(j, r, "addressed")
    /\ conf' = conf \cup {j}
    /\ vm' = IF vm[j] = "cloned" THEN [vm EXCEPT ![j] = "ready"] ELSE vm
    /\ Goto(j, r, "ready")
    /\ UNCHANGED <<scriptFrame, status>>

ReportReady(j, r) ==
    /\ At(j, r, "ready")
    /\ status' = [status EXCEPT ![j] = Ready]
    /\ Goto(j, r, "idle")
    /\ UNCHANGED <<scriptFrame, cloudVars>>

ScriptStep(j, r) ==
    \/ OpenStatus(j, r)
    \/ HostBusy(j, r)
    \/ HostInvalid(j, r)
    \/ HostFound(j, r)
    \/ Clone(j, r)
    \/ AddressFound(j, r)
    \/ AddressMissing(j, r)
    \/ Customise(j, r)
    \/ ReportReady(j, r)

=============================================================================

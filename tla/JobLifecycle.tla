---------------------------- MODULE JobLifecycle ----------------------------
(***************************************************************************)
(* What the VM-per-job model promises of one job after another: a job that *)
(* is accepted waits on hold; it runs only once a VM of its own has been   *)
(* provisioned; and it keeps that VM for as long as it runs.  A VM may be  *)
(* taken back from a job that waits, and a job that waits may be given up. *)
(***************************************************************************)
CONSTANT Jobs
VARIABLE phase

Phases == {"new", "waiting", "provisioned", "running", "cancelled"}

Change(j, from, to) ==
    /\ phase[j] \in from
    /\ phase' = [phase EXCEPT ![j] = to]

Accept(j)      == Change(j, {"new"}, "waiting")
Provision(j)   == Change(j, {"waiting"}, "provisioned")
Deprovision(j) == Change(j, {"provisioned"}, "waiting")
Run(j)         == Change(j, {"provisioned"}, "running")
Cancel(j)      == Change(j, {"waiting", "provisioned"}, "cancelled")

Init == phase = [j \in Jobs |-> "new"]

Next ==
    \E j \in Jobs :
        Accept(j) \/ Provision(j) \/ Deprovision(j) \/ Run(j) \/ Cancel(j)

Spec == Init /\ [][Next]_phase

=============================================================================

\* A job of two VMs and a job of one, with names of their own; the daemon dies once.
CONSTANTS
    j1 = j1
    j2 = j2
    a = a
    b = b
    Jobs = {j1, j2}
    None = None
    Labels = {a, b}
    Label <- OwnLabel
    Nodes <- TwoAndOne
    Faults = {"scp", "destroy"}
    MaxTime = 1
    MaxCrashes = 1
SPECIFICATION FairSpec
INVARIANTS
    DestroyedOnlyWhenOver
    RequestKept
PROPERTY
    EventuallyDestroyed
\* Every job may be over and its VMs gone.
CHECK_DEADLOCK FALSE

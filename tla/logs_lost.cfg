\* One job, nothing fails.
CONSTANTS
    j1 = j1
    j2 = j2
    a = a
    b = b
    Jobs = {j1}
    None = None
    Labels = {a, b}
    Label <- OneLabel
    Nodes <- One
    Faults = {}
    MaxTime = 1
    MaxCrashes = 0
SPECIFICATION Spec
INVARIANT
    LogsBeforeDestroy
\* Every job may be over and its VMs gone.
CHECK_DEADLOCK FALSE

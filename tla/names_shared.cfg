\* Two jobs that their users call the same.
CONSTANTS
    j1 = j1
    j2 = j2
    a = a
    b = b
    Jobs = {j1, j2}
    None = None
    Labels = {a, b}
    Label <- SameLabel
    Nodes <- OneEach
    Faults = {}
    MaxTime = 1
    MaxCrashes = 0
SPECIFICATION Spec
INVARIANT
    DestroyedOnlyWhenOver
\* Every job may be over and its VMs gone.
CHECK_DEADLOCK FALSE

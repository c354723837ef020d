SPECIFICATION CrashSpec
CONSTANTS
    j1 = j1
    Jobs = {j1}
    NoJob = NoJob
    r1 = r1
    r2 = r2
    Runs = {r1, r2}
    Faults = {"busy", "invalid", "noip", "noclone", "scontrol"}
    Limit = 1
    MaxCopies = 2
    IdInId <- Distinct
    IdPrefix <- Distinct
    NameInName <- Distinct
    IdInName <- Never
    MaxCrashes = 2
SYMMETRY RunSymmetry
INVARIANTS
    ReleasedNodeKnown
    NeverLockedOut
    CrashReleaseSafe
    NoVainWait
PROPERTY
    CrashForgetsOnlyInMemory

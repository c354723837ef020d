SPECIFICATION Spec
CONSTANTS
    j1 = j1
    j2 = j2
    Jobs = {j1, j2}
    NoJob = NoJob
    r1 = r1
    r2 = r2
    Runs = {r1}
    Faults = {"busy", "invalid", "noip", "open", "nofile"}
    Limit = 0
    MaxCopies = 2
    IdInId <- Distinct
    IdPrefix <- Distinct
    NameInName <- Distinct
    IdInName <- Never
SYMMETRY Symmetry
INVARIANTS
    TypeOK
    ReleaseOnlyReady
    ReleasedNodeKnown
    ReleasedNeverRelaunched
    RecordedOnce
PROPERTY
    NeverForgotten

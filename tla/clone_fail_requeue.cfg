SPECIFICATION Spec
CONSTANTS
    j1 = j1
    j2 = j2
    Jobs = {j1}
    NoJob = NoJob
    r1 = r1
    r2 = r2
    Runs = {r1}
    Faults = {"noclone"}
    Limit = 1
    MaxCopies = 2
    IdInId <- Distinct
    IdPrefix <- Distinct
    NameInName <- Distinct
    IdInName <- Never
PROPERTY
    NeverForgotten

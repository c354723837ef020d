\* Three jobs in two partitions one inside the other; j2 is exclusive.
CONSTANTS
    j1 = j1
    j2 = j2
    j3 = j3
    n1 = n1
    n2 = n2
    p = p
    q = q
    Jobs = {j1, j2, j3}
    Nodes = {n1, n2}
    Parts = {p, q}
    Part <- TwoParts
    PartNodes <- Overlap
    MaxShare <- OneOrTwo
    Exclusive = {j2}
    MinNodes <- OneNode
    Mem <- SmallMem
    RealMemory <- NodeMem
    NoBooks = NoBooks
    MaxSuspends = 1
    Requeued = {j1, j3}
SPECIFICATION Spec
INVARIANTS
    TypeOK
    BooksAsRebuilt
    NeverUnderflows
    ExclusiveAlone
    MemoryFits
    ShareLimit
    PreemptionLeadsOn
    WillRunKept
    WillRunFindsTime

\* A job with two scripts, one of them started on a stale refusal, another job
\* that takes its room at times, two unequal hosts, and an operator.
CONSTANTS
    s1 = s1
    s2 = s2
    s3 = s3
    h1 = h1
    h2 = h2
    Scripts = {s1, s2, s3}
    Hosts = {h1, h2}
    NoScript = NoScript
    NoHost = NoHost
    JobOf <- PairJobOf
    CpuAvail <- PairCpuAvail
    MemAvail <- PairMemAvail
    Cpu <- PairCpu
    Mem <- PairMem
    Nodes <- PairNodes
    Gigabyte = 1
SPECIFICATION FairSpec
INVARIANTS
    TypeOK
    NeverOversold
    BooksBalance
    CountedOnce
    InvalidForGood
PROPERTY
    LockComesBack
\* Every job may be over.
CHECK_DEADLOCK FALSE

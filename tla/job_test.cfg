\* The calls of MCJobTest, on five nodes, with and without switches.
CONSTANTS
    N = 5
    Requests <- Calls
SPECIFICATION CubeSpec
INVARIANTS
    CubeTypeOK
    GetsWhatItAsked
    NeverTurnedAway
    SmallestSet
    InARow
    LowestSwitch
    FewSwitches
PROPERTY
    Answers
\* Every call ends.
CHECK_DEADLOCK FALSE

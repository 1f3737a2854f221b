SPECIFICATION FairSpec
CHECK_DEADLOCK FALSE
CONSTANTS
    Callers = {c1, c2}
    MaxLeases = 1
    MaxVersion = 4
    MaxRechecks = 4
    Expiring = {1}
INVARIANTS
    TypeOK
    DecisionIsWhole
PROPERTIES
    EndedRunIsQuiet
    NothingComesBack
    RegisterSpec
    GarbageIsCollected

SPECIFICATION FairSpec
CONSTANTS
    Segments = {s1, s2}
    None = None
    MaxQueueSize = 1
    LeaseDuration = 2
    CommitHoldDuration = 1
    MaxDeadline = 3
    Evictions = TRUE
    MaxTime = 3
    MaxUuids = 3
INVARIANTS
    TypeOK
    PromisesAreKept
    LineIsInOrder
    IdentitiesAreOrdered
PROPERTIES
    LockSpec
    EverybodyLeaves

SPECIFICATION FairSpec
CONSTANTS
    MaxJobs = 3
    MaxThreads = 2
INVARIANTS
    TypeOK
    WorkIsOrderly
PROPERTIES
    CancelIsKept
    SlotSpec
    CapacityRecovers

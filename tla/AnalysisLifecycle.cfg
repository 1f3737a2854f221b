CONSTANTS
    MaxClients = 2
    Commands = {k1}
    MaxRequests = 3
    MaxWorkflows = 2
    MaxTries = 0
    MaxGaps = 1
    MaxFaults = 1
SPECIFICATION FairSpec
CHECK_DEADLOCK FALSE
INVARIANTS
    TypeOK
    MediaAreThere
PROPERTIES
    UsesReadySource
    MediaGo
    AnalysisSettles

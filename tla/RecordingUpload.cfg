SPECIFICATION FairSpec
CHECK_DEADLOCK FALSE
CONSTANTS
    Clients = {c1, c2}
    Cron = Cron
    Parts = {1, 2}
    MaxRecordings = 1
    MaxClaims = 2
    MaxFaults = 1
INVARIANTS
    TypeOK
    StatusMatchesStorage
PROPERTIES
    OffersReadySource
    LaterClaimStays
    UploadEnds

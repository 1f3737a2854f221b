CONSTANTS
    MaxClients = 1
    Commands = {k1}
    MaxRequests = 2
    MaxWorkflows = 1
    MaxTries = 0
    MaxGaps = 1
    MaxFaults = 1
SPECIFICATION PersistentSpec
PROPERTY CorrectionResumes
CHECK_DEADLOCK FALSE

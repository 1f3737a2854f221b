SPECIFICATION FairSpec
CHECK_DEADLOCK FALSE   \* every workflow ends
CONSTANTS
    s1 = s1
    s2 = s2
    Segments = {s1, s2}
    None = None
    Patient = {s1}
    Cancelling = {s2}
    MaxLosses = 2
    MaxFaults = 2
INVARIANTS
    TypeOK
    StoresAgree
PROPERTIES
    NobodyWaitsForEver

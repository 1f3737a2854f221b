SPECIFICATION Spec
CONSTANTS
    MaxRequests = 2
    Commands = {c1}
    MaxTries = 2
    First = first
    Fields = {f1, f2}
    None = None
    MaxBegun = 3
    Note = note
    MaxCalls = 2
INVARIANTS
    TypeOK
    OutcomesAreTrue
PROPERTIES
    SavesAreCoherent
    VoiceIsSavedOnce
    CommandsSettle
CHECK_DEADLOCK FALSE

SPECIFICATION FairSpec
CHECK_DEADLOCK FALSE
CONSTANTS
    Devices = {d1, d2}
    Fields <- AField
    Edits <- OneEdit
    NewCars <- SomeCars
    Values = {"blank", "new", "bad"}
    Blank = "blank"
    Bad = "bad"
    NoCar = NoCar
    MaxOperations = 3
    Flaky = {d1}
    MaxTries = 1
INVARIANTS
    TypeOK
    QueueIsSound
    StateFollowsCar
PROPERTIES
    SerialSpec
    QueuedWorkIsSettled

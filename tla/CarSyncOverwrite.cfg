SPECIFICATION Spec
CHECK_DEADLOCK FALSE
CONSTANTS
    Devices = {d1, d2}
    Fields <- AField
    Edits <- TwoEdits
    NewCars <- NoCars
    Values = {"blank", "new", "bad"}
    Blank = "blank"
    Bad = "bad"
    NoCar = NoCar
    MaxOperations = 3
    Flaky = {}
    MaxTries = 1
PROPERTIES
    NothingUnseenIsOverwritten

CONSTANTS
    Buffer = {b1, b2, b3}
    NoPicture = NoPicture
    SetupMayFail = TRUE
    DeviceMayFail = TRUE
    MaxUnits = 5
    MaxTime = 2
SPECIFICATION FairSpec
INVARIANTS
    TypeOK
    BuffersReturned
    ShowsNewest
    PtsIncreasing
    ReleasedInOrder
PROPERTIES
    PicturesTaken
    CleanupReturns

CONSTANTS
    Capacity = 1
    WarmupMs = 1
    kMaxFat32Size = 3
    KeyBytes = 2
    DeltaBytes = 1
    FixedTarget = FALSE
    Existing <- TwoFiles
    FaultyDisk = TRUE
    FaultyMemory = TRUE
    LastIndex = 4
    MaxFrames = 5
    MaxCommands = 2
    MaxCrashes = 1
SPECIFICATION FairSpec
INVARIANTS
    ClosedAtExit
PROPERTIES
    ShutdownCompletes
    RecordingsPreserved

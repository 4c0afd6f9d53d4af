CONSTANTS
    Capacity = 1
    WarmupMs = 1
    kMaxFat32Size = 3
    KeyBytes = 2
    DeltaBytes = 1
    FixedTarget = FALSE
    Existing <- NoFiles
    FaultyDisk = TRUE
    FaultyMemory = FALSE
    LastIndex = 3
    MaxFrames = 6
    MaxCommands = 3
    MaxCrashes = 0
SPECIFICATION Spec
INVARIANTS
    WriteFailureStops

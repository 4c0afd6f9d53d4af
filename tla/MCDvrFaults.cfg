CONSTANTS
    Capacity = 1
    WarmupMs = 1
    kMaxFat32Size = 3
    KeyBytes = 2
    DeltaBytes = 1
    FixedTarget = FALSE
    Existing <- NoFiles
    FaultyDisk = TRUE
    FaultyMemory = TRUE
    LastIndex = 3
    MaxFrames = 6
    MaxCommands = 3
    MaxCrashes = 0
SPECIFICATION Spec
INVARIANTS
    TypeOK
    OpenFileIsTheWriters
    WriterOnlyWhileRecording
    RotatesAtLimit
    StartsWithKey
    NoGapInSession
    InOrderOnce

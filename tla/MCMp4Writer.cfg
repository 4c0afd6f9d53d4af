CONSTANTS
    AvcUnits <- MCAvcUnits
    HevcUnits <- MCHevcUnits
    Durations = {1, 2}
    MaxUnits = 3
    MaxFaults = 2
    FaultyDisk = TRUE
    FaultyMemory = TRUE
SPECIFICATION Spec
INVARIANTS
    TypeOK
    SamplesOnDisk
    IndexReadsBack
    StartsDecodable
    WholeFrames
    IndexFits
CHECK_DEADLOCK FALSE

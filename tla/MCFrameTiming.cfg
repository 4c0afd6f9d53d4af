CONSTANTS
    Intervals = {3, 5, 12}
    Hints = {0, 300}
    Gaps = {7, 3000}
    WindowMs = 10
    WarmupMs = 20
    MaxFrames = 13
    MaxLag = 2
    MaxCommands = 3
    MaxRotations = 1
    MaxGaps = 1
SPECIFICATION Spec
INVARIANTS
    TypeOK
    PlaysAtCaptureSpeed
CHECK_DEADLOCK FALSE

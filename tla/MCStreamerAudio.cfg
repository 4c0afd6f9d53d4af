CONSTANTS
    PoolSize = 1
    SetupMayFail = FALSE
    MaxPackets = 2
    MaxSwitches = 3
    MaxCommands = 2
    QuietExit = TRUE
SPECIFICATION Spec
INVARIANT AudioUsedAlive

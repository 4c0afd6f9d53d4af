CONSTANTS
    PoolSize = 1
    SetupMayFail = TRUE
    MaxPackets = 2
    MaxSwitches = 3
    MaxCommands = 2
    QuietExit = TRUE
SPECIFICATION FairSpec
INVARIANTS
    TypeOK
    AllDecoded
    AudioMatchesMode
PROPERTIES
    ImplementsReceiver
    ExitCompletes

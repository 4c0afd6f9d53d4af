CONSTANTS
    Caller = {command}
    PoolSize = 2
    SetupMayFail = TRUE
    MaxPackets = 4
    MaxSwitches = 3
SPECIFICATION FairSpec
INVARIANTS
    TypeOK
    PoolConserved
    ThreadsUseLiveObjects
    QuietWhenStopped
PROPERTY StopReturns

SPECIFICATION FairSpec
CONSTANTS
    NrProcs = 2
    MaxThread = 3
    IdlePl = 1
    TaskPl = 2
    IrqThreads <- MCIrqThreads
INVARIANTS
    TypeOK
    CpuRunsRunnable
PROPERTIES
    NoEarlyReload
    TickPicksLargest
    ImplementsDispatch
    NoStarvation

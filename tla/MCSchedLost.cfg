SPECIFICATION Spec
CONSTANTS
    NrProcs = 2
    MaxThread = 3
    IdlePl = 1
    TaskPl = 2
    IrqThreads <- MCIrqThreads
INVARIANTS
    LiveThreadsEnumerated

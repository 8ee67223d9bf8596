SPECIFICATION FairSpec
CHECK_DEADLOCK FALSE
CONSTANTS
    MaxSects = 2
INVARIANTS
    TypeOK
    NoLostWakeup
PROPERTIES
    WaitEnds

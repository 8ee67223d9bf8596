SPECIFICATION FairSpec
CONSTANTS
    Thread <- MCSiblings
    NoPost <- MCNoPost
    NrSys = 1
    NrUsr = 2
    Msg = {m1, m2}
    Any = Any
    None = None
INVARIANTS
    TypeOK
    CountsMatchSlots
    NoLostWakeup
PROPERTIES
    WakesOnlyAddressee
    ImplementsDelivery
    WaiterGetsMail

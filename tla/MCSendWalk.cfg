SPECIFICATION SendSpec
CHECK_DEADLOCK FALSE
CONSTANTS
    Thread <- MCAdded
    NoPost <- MCNoPost
    NrSys = 0
    NrUsr = 1
    Msg = {m1}
    Any = Any
    None = None
    Taken <- MCAdded
    CountWrap = 2
INVARIANTS
    SendTypeOK
    WalkEnds

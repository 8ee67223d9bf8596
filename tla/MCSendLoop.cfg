SPECIFICATION SendSpec
CHECK_DEADLOCK FALSE
CONSTANTS
    Thread <- MCMain
    NoPost <- MCNoPost
    NrSys = 0
    NrUsr = 1
    Msg = {m1}
    Any = Any
    None = None
    Taken <- MCTask0
    CountWrap = 256
INVARIANTS
    NoSendLoop

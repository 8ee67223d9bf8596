CONSTANTS
    a = a
    bb = bb
    cc = cc
    dot = dot
    dotdot = dotdot
    slash = slash
    none = none
    Name    <- MCName
    NameLen <- MCNameLen
    Paths   <- MCPaths
    Dot = dot
    DotDot = dotdot
    Slash = slash
    NoName = none
    Handle = {h1}
    Modes = {"reg"}
    MaxCnt = 2
    NrInode = 2
    InodeBits = 5
    NrZones = 5
    ZoneBits = 5
    ByteBits = 2
    Direct = 3
    PerInd = 1
    BlkSize = 3
    NrLinks = 3
    PerBlk = 3
SPECIFICATION Spec
INVARIANT CountsRight
CHECK_DEADLOCK FALSE

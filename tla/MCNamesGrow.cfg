CONSTANTS
    a = a
    bb = bb
    cc = cc
    dot = dot
    dotdot = dotdot
    slash = slash
    none = none
    Name    <- MCName
    NameLen <- MCNameLen
    Paths   <- MCGrowPaths
    Dot = dot
    DotDot = dotdot
    Slash = slash
    NoName = none
    Handle = {h1}
    Modes = {"reg"}
    MaxCnt = 2
    NrInode = 6
    InodeBits = 6
    NrZones = 7
    ZoneBits = 7
    ByteBits = 2
    Direct = 2
    PerInd = 2
    BlkSize = 3
    NrLinks = 10
    PerBlk = 3
SPECIFICATION Spec
INVARIANT NamesEntered
CHECK_DEADLOCK FALSE

CONSTANTS
    a = a
    bb = bb
    cc = cc
    dot = dot
    dotdot = dotdot
    slash = slash
    none = none
    Name    <- MCName
    NameLen <- MCNameLen
    Paths   <- MCPaths
    Dot = dot
    DotDot = dotdot
    Slash = slash
    NoName = none
    Handle = {h1}
    Modes = {"reg"}
    MaxCnt = 2
    NrInode = 4
    InodeBits = 5
    NrZones = 4
    ZoneBits = 4
    ByteBits = 2
    Direct = 2
    PerInd = 1
    BlkSize = 3
    NrLinks = 4
    PerBlk = 3
SPECIFICATION Spec
INVARIANT FilesApart
CHECK_DEADLOCK FALSE

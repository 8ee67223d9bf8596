CONSTANTS
    p = p
    q = q
    x = x
    Proc = {p, q}
    MaxFilps = 1
    MaxOpen = 2
    FileNr = 1
    OtherNr = 2
    Byte = {x}
    Counts = {4}
    Seeks <- MCSeeks
    Word = 64
    MaxPos = 3
    NrInode = 2
    InodeBits = 3
    NrZones = 6
    ZoneBits = 6
    ByteBits = 2
    Direct = 1
    PerInd = 1
    BlkSize = 2
    NrLinks = 4
CHECK_DEADLOCK FALSE
SYMMETRY Symmetry
SPECIFICATION Spec
PROPERTIES
    FlatAlways

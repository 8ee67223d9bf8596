SPECIFICATION Spec
CONSTANTS
    m = m
    a = a
    b = b
    c = c
    NrBuffers = 3
    Block <- MCBlock
    Row <- MCApart
    Bitmaps <- MCBitmaps
    Data = {zero, one}
    Zero = zero
    MaxPins = 1
    SyncNr = 1
    None = None
INVARIANTS
    RowClearedWhenLast

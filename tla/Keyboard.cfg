SPECIFICATION FairSpec
CONSTANTS
    Char = {a}
    KbLen = 3
    ChLen = 3
    Chunk = 1
    NoKey = NoKey
INVARIANTS
    TypeOK
    NoLostWakeup
PROPERTIES
    SlotStableTillRead
    ImplementsTerminal
    KeysGetDecoded

CONSTANTS
    m1 = m1
    m2 = m2
    Msg <- MCMsg
    Size = 4
    NULL = NULL
SPECIFICATION FairSpec
INVARIANTS
    TypeOK
    NoSlotRace
    DrainNeverBreaks
PROPERTIES
    ImplementsFifo
    PushCompletes

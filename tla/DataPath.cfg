SPECIFICATION Spec
CONSTANTS
    Base = 7
    TicksPerSec = 2
    EtherLen = 14
    TagLen = 4
    RecordLen = 18
    LabelLen = 4
    BatchHdr = 24
    MaxBatch = 110
    MaxNum = 3
    MaxFrame = 28
    FlushDur = 1
    FileInterval = 2
    Setups <- MCSetups
    MaxLag = 1
    Packets <- MCPackets
    Wrap = 4
    DropStatDur = 2
    MaxPackets = 3
    MaxDrops = 4
    MaxNow = 9
INVARIANTS
    TypeOK
    
    RateBounded
    Timely
    FileWindow

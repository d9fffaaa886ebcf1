CONSTANTS
    a = a
    b = b
    Fp <- MCFp
    NoFp = NoFp
    Configs <- PipelineConfigs
    Bad = Bad
    Pipeline = TRUE
    RingCap = 2
    MaxDeploys = 2
    NULL = NULL
SPECIFICATION Spec
INVARIANTS
    TypeOK
    MessageTasksLive
    PointersValid
    Committed
    PingPong
    OldStopsFirst
    ExitDrained
PROPERTIES
    TxNotInUse
    ReuseContinues

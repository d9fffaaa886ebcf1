CONSTANTS
    a = a
    b = b
    Fp <- MCFp
    NoFp = NoFp
    Configs <- RtcConfigs
    Bad = Bad
    Pipeline = FALSE
    RingCap = 2
    MaxDeploys = 2
    NULL = NULL
SPECIFICATION Spec
INVARIANTS
    PointersValid
    Committed
    OldStopsFirst

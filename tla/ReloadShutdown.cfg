CONSTANTS
    a = a
    b = b
    Fp <- MCFp
    NoFp = NoFp
    Configs <- ReplaceConfigs
    Bad = Bad
    Pipeline = TRUE
    RingCap = 2
    MaxDeploys = 1
    NULL = NULL
SPECIFICATION Spec
INVARIANT DrainedBeforeReclaim

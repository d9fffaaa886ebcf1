CONSTANTS
    a = a
    b = b
    Fp <- MCFp
    NoFp = NoFp
    Configs <- ReplaceConfigs
    Bad = Bad
    Pipeline = TRUE
    RingCap = 1
    MaxDeploys = 2
    NULL = NULL
SPECIFICATION FairSpec
PROPERTIES
    ReloadCompletes
    LastDeployRead
    CaptureProceeds
    QuitCompletes

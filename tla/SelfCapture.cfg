CONSTANTS
    None = None
    HostValues = {"a", "b"}
    PortValues = {"80", "81"}
    Ipv4Addresses = {"a", "b"}
    Containers = {"c1"}
    WritableDirs = {"dumps"}
    DaemonUuid = "uuid"
    BufferSizeMb = 8
    WorkerCfg <- RtcCfg
    Compiles <- MCCompiles
    InstanceNics <- MCInstanceNics
    Rounds <- TwoRounds
SPECIFICATION Spec
INVARIANT OutputHostsExcluded

CONSTANTS
    None = None
    HostValues = {"a", "b"}
    PortValues = {"80", "81"}
    Ipv4Addresses = {"a", "b"}
    Containers = {"c1"}
    WritableDirs = {"dumps"}
    DaemonUuid = "uuid"
    BufferSizeMb = 8
    WorkerCfg <- PipelineCfg
    Compiles <- MCCompiles
    InstanceNics <- MCInstanceNics
    Rounds <- MCRounds
SPECIFICATION Spec
INVARIANTS DeployedAsAsked NoLeak

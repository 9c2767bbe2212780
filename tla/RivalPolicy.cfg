SPECIFICATION Spec
CONSTANTS
    None = None
    Namespaces = {"n1"}
    Excluded = {}
    Names = {"l1"}
    Specs = {"s1", "s2"}
    Settings <- L1
    Configs <- UnenforcedL1
    InitialTemplates <- AllDeployed
    Replicas = {"r1"}
    Home <- SingleReplica
    NsWorkers = {"ns1"}
    NpWorkers = {"np1"}
    Environment = {"CreatePolicy"}
    MaxChanges = 1
    Faulty = {}
    MaxFaults = 0
INVARIANTS
    LevelWhenQuiescent
CHECK_DEADLOCK FALSE

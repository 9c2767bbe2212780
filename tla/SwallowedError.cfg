SPECIFICATION Spec
CONSTANTS
    None = None
    Namespaces = {"n1"}
    Excluded = {}
    Names = {"l1"}
    Specs = {"s1", "s2"}
    Settings <- L1
    Configs <- UnenforcedL1
    InitialTemplates <- AllDeployed
    Replicas = {"r1"}
    Home <- SingleReplica
    NsWorkers = {"ns1"}
    NpWorkers = {"np1"}
    Environment = {"CreateNamespace"}
    MaxChanges = 1
    Faulty = {"Create"}
    MaxFaults = 1
INVARIANTS
    CoveredWhenQuiescent
CHECK_DEADLOCK FALSE

SPECIFICATION Spec
CONSTANTS
    None = None
    Namespaces = {"n1"}
    Excluded = {}
    Names = {"l1", "l2"}
    Specs = {"s1", "s2"}
    Settings <- L2orBoth
    Configs <- UnenforcedBoth
    InitialTemplates <- AllDeployed
    Replicas = {"r1"}
    Home <- SingleReplica
    NsWorkers = {"ns1"}
    NpWorkers = {"np1"}
    Environment = {"AnnotateNamespace", "DeletePolicy"}
    MaxChanges = 2
    Faulty = {}
    MaxFaults = 0
INVARIANTS
    LevelWhenQuiescent
CHECK_DEADLOCK FALSE

SPECIFICATION Spec
CONSTANTS
    None = None
    Namespaces = {"n1"}
    Excluded = {}
    Names = {"l1", "l2"}
    Specs = {"s1", "s2"}
    Settings <- L1orL2
    Configs <- UnenforcedL1
    InitialTemplates <- AllDeployed
    Replicas = {"r1"}
    Home <- SingleReplica
    NsWorkers = {"ns1"}
    NpWorkers = {"np1"}
    Environment = {"AnnotateNamespace"}
    MaxChanges = 2
    Faulty = {}
    MaxFaults = 0
PROPERTIES
    NeverUnprotected
CHECK_DEADLOCK FALSE

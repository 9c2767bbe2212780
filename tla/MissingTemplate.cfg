SPECIFICATION Spec
CONSTANTS
    None = None
    Namespaces = {"n1"}
    Excluded = {}
    Names = {"l1", "typo"}
    Specs = {"s1", "s2"}
    Settings <- L1orTypo
    Configs <- UnenforcedL1
    InitialTemplates <- AllButTypo
    Replicas = {"r1"}
    Home <- SingleReplica
    NsWorkers = {"ns1"}
    NpWorkers = {"np1"}
    Environment = {"AnnotateNamespace", "DeletePolicy"}
    MaxChanges = 2
    Faulty = {}
    MaxFaults = 0
INVARIANTS
    CoveredWhenQuiescent
CHECK_DEADLOCK FALSE

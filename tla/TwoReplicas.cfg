SPECIFICATION Spec
CONSTANTS
    None = None
    Namespaces = {"n1", "kube-system"}
    Excluded = {"kube-system"}
    Names = {"l1"}
    Specs = {"s1", "s2"}
    Settings <- L1
    Configs <- UnenforcedL1
    InitialTemplates <- AllDeployed
    Replicas = {"r1", "r2"}
    Home <- TwoReplicas
    NsWorkers = {"ns1", "ns2"}
    NpWorkers = {"np1", "np2"}
    Environment = {"CreateNamespace", "DeletePolicy", "ModifyPolicy"}
    MaxChanges = 1
    Faulty = {}
    MaxFaults = 0
INVARIANTS
    LevelWhenQuiescent
    ExcludedStayEmpty
CHECK_DEADLOCK FALSE

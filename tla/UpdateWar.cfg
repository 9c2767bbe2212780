SPECIFICATION FairSpec
CONSTANTS
    None = None
    Namespaces = {"n1"}
    Excluded = {}
    Names = {"l1"}
    Specs = {"s1", "s2"}
    Settings <- L1
    Configs <- UnenforcedL1
    InitialTemplates <- AllDeployed
    Replicas = {"r1", "r2"}
    Home <- TwoReplicas
    NsWorkers = {"ns1", "ns2"}
    NpWorkers = {"np1", "np2"}
    Environment = {"ChangeTemplate"}
    MaxChanges = 1
    Faulty = {}
    MaxFaults = 0
PROPERTIES
    ComesToRest
CHECK_DEADLOCK FALSE

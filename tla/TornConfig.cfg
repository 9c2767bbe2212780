SPECIFICATION Spec
CONSTANTS
    None = None
    Namespaces = {"n1"}
    Excluded = {}
    Names = {"l1", "l2", "l3"}
    Specs = {"s1", "s2"}
    Settings <- AnyOne
    Configs <- L1thenEnforcedL2
    InitialTemplates <- AllDeployed
    Replicas = {"r1"}
    Home <- SingleReplica
    NsWorkers = {"ns1"}
    NpWorkers = {"np1"}
    Environment = {"CreateNamespace", "ChangeConfig"}
    MaxChanges = 2
    Faulty = {}
    MaxFaults = 0
PROPERTIES
    CreatedAsPrescribed
CHECK_DEADLOCK FALSE

SPECIFICATION FairSpec
CONSTANTS
    None = None
    Namespaces = {"n1"}
    Excluded = {}
    Names = {"l1", "l2"}
    Specs = {"s1", "s2"}
    Settings <- L1orL2
    Configs <- DefaultL1
    InitialTemplates <- AllDeployed
    Replicas = {"r1"}
    Home <- SingleReplica
    NsWorkers = {"ns1"}
    NpWorkers = {"np1"}
    Environment = {"AnnotateNamespace", "CreateNamespace", "TerminateNamespace", "DeletePolicy", "ModifyPolicy", "Crash"}
    MaxChanges = 2
    Faulty = {"Delete"}
    MaxFaults = 1
INVARIANTS
    LevelWhenQuiescent
PROPERTIES
    EventuallyLevel
CHECK_DEADLOCK FALSE

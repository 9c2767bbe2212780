SPECIFICATION Spec
CONSTANTS
    None = None
    Namespaces = {"n1"}
    Excluded = {}
    Names = {"l1", "typo"}
    Specs = {"s1", "s2"}
    Settings <- L1orTypo
    Configs <- L1thenEnforcedTypo
    InitialTemplates <- AllButTypo
    Replicas = {"r1"}
    Home <- SingleReplica
    NsWorkers = {"ns1"}
    NpWorkers = {"np1", "np2"}
    Environment = {"AnnotateNamespace", "CreatePolicy", "ChangeConfig", "ModifyPolicy", "DeletePolicy", "ChangeTemplate", "BreakWatch"}
    MaxChanges = 3
    Faulty = {"GetNamespace", "GetTemplate", "Create", "Update", "GetPolicy", "Delete"}
    MaxFaults = 1
INVARIANTS
    TypeOK
    NoNilDereference
    OneWorkerPerItem
PROPERTIES
    ForeignUntouched
CHECK_DEADLOCK FALSE

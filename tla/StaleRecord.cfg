SPECIFICATION Spec
CONSTANTS
    None = None
    Replicas = {"r1"}
    Namespaces = {"n1"}
    Values = {"", "p1", "p2", "nobody", "none", "change-default", "change-all", "no-change"}
    Configs <- TwoConfigs
    Annotations <- SomeAnnotations
    Objects <- PlainPod
    Indices <- TwoIndices
    Keys <- SomeKeys
    MaxRequests = 2
    MaxChanges = 0
    MaxFaults = 0
INVARIANT RecordTellsTheTruth
CHECK_DEADLOCK FALSE

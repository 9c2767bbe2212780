SPECIFICATION Spec
CONSTANTS
    None = None
    Replicas = {"r1"}
    Namespaces = {"n1"}
    Values = {"", "p1", "p2", "nobody", "none", "change-default", "change-all", "no-change"}
    Configs <- TwoConfigs
    Annotations <- SomeAnnotations
    Objects <- PlainPod
    Indices <- TwoIndices
    Keys <- SomeKeys
    MaxRequests = 1
    MaxChanges = 1
    MaxFaults = 0
INVARIANT ValidAtItsTime
CHECK_DEADLOCK FALSE

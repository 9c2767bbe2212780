SPECIFICATION Spec
CONSTANTS
    None = None
    Replicas = {"r1"}
    Namespaces = {"n1"}
    Values = {"", "p1", "p2", "nobody", "none", "change-default", "change-all", "no-change"}
    Configs <- ThreeConfigs
    Annotations <- SomeAnnotations
    Objects <- ExplicitPod
    Indices <- TwoIndices
    Keys <- SomeKeys
    MaxRequests = 1
    MaxChanges = 0
    MaxFaults = 0
INVARIANT ChangesAreRecorded
CHECK_DEADLOCK FALSE

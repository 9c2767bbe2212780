SPECIFICATION Spec
CONSTANTS
    None = None
    Replicas = {"r1", "r2"}
    Namespaces = {"n1", "kube-system"}
    Values = {"", "p1", "p2", "nobody", "none", "change-default", "change-all", "no-change"}
    Configs <- ThreeConfigs
    Annotations <- SomeAnnotations
    Objects <- SomeObjects
    Indices <- TwoIndices
    Keys <- SomeKeys
    MaxRequests = 2
    MaxChanges = 1
    MaxFaults = 1
INVARIANTS
    TypeOK
    PatchesApply
    MutatedIsValid
    MutatedIsHardened
    OwnChoicesKept
    SettledIsLeftAlone
    EnforcedCannotOptOut
    RecordsItsChanges
PROPERTIES
    DeletionIsNotHeld
CHECK_DEADLOCK FALSE

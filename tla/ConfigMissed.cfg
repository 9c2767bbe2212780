SPECIFICATION Spec
CONSTANTS
    None = None
    Specs = {"s1", "s2"}
    Replicas = {"r1"}
    Workers = {"a1"}
    Home <- OneReplica
    MaxChanges = 1
INVARIANTS
    ConfigTakesEffect
CHECK_DEADLOCK FALSE

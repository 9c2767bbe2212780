SPECIFICATION FairSpec
CONSTANTS
    None = None
    Specs = {"s1", "s2"}
    Replicas = {"r1", "r2"}
    Workers = {"a1", "a2", "b1"}
    Home <- Pairs
    MaxChanges = 3
INVARIANTS
    TypeOK
    AgreesWhenQuiet
PROPERTIES
    NeverGoesBack
    EventuallyAgrees
CHECK_DEADLOCK FALSE

SPECIFICATION FairSpec
CONSTANTS
    None = None
    Patches = {p1}
    Requests = {r1}
    Shapes <- SomeShapes
    Plugins = 2
    MaxSignals = 2
INVARIANTS
    TypeOK
    AnswerIsTheirs
PROPERTIES
    ImplementsServing
    SignalledEnds
    DeadServerIsReplaced
    ControllersGetGoing
CHECK_DEADLOCK FALSE

SPECIFICATION FairSpec
CONSTANTS
    None = None
    Keys = {k1, k2}
    Workers = {w1, w2}
    Capacity = 1
    MaxAdds = 3
    MaxFailures = 2
INVARIANTS
    TypeOK
    QueueHoldsWhatIsDue
    ProcessingIsHeld
    FailuresAreForgotten
PROPERTIES
    DueIsProcessed
    DelayedIsProcessed
    ImplementsWorkSet
CHECK_DEADLOCK FALSE

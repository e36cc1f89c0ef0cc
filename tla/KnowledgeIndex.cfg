SPECIFICATION FairSpec
CONSTANTS
    d1 = d1
    d2 = d2
    s1 = s1
    s2 = s2
    None = None
    Docs <- OneDoc
    Spaces <- OneSpace
    MaxContents = 1
    MaxIndexes = 3
    MaxAttempts = 2
    Batches = 1
    Slots = 2
    Faults <- EveryFault
INVARIANTS PaidOnce
PROPERTY IndexJobEnds
CHECK_DEADLOCK FALSE

SPECIFICATION FairSpec
CONSTANTS
    m1 = m1
    w1 = w1
    w2 = w2
    t1 = t1
    t2 = t2
    None = None
    Messages <- OneMessage
    Workers <- TwoWorkers
    Tasks <- TwoTasks
    WorkerOf <- Separate
    MaxAttempts = 2
    AttemptCeiling = 3
INVARIANT NoUnexcusedDuplicate
PROPERTY OnlyHolderSettles
PROPERTY ImplementsDelivery
PROPERTY EventuallySettled

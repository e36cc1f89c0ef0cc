SPECIFICATION RecoverySpec
CONSTANTS
    j1 = j1
    j2 = j2
    f0 = f0
    f1 = f1
    f2 = f2
    t1 = t1
    t2 = t2
    seed = seed
    None = None
    Seed = seed
    SeedFile = f0
    Jobs <- TwoJobs
    Files <- OneFile
    Tasks <- OneTask
    Kinds <- EveryKind
    Revisers <- OneJob
    MaxAttempts = 2
    MaxManualRetries = 1
    MaxActive = 1
    MaxOwn <- TwoOfKind
    MaxPending <- TwoOfKind
PROPERTY AdmittedEnds
CHECK_DEADLOCK FALSE

SPECIFICATION MCSpec
CONSTANTS
    j1 = j1
    j2 = j2
    f0 = f0
    f1 = f1
    f2 = f2
    t1 = t1
    t2 = t2
    seed = seed
    None = None
    Seed = seed
    SeedFile = f0
    Jobs <- TwoJobs
    Files <- TwoFiles
    Tasks <- TwoTasks
    Kinds <- EveryKind
    Revisers <- TwoJobs
    MaxAttempts = 2
    MaxManualRetries = 1
    MaxActive = 1
    MaxOwn <- OwnOfKind
    MaxPending <- PendingOfKind
SYMMETRY Symmetry
INVARIANTS SourceRetention AdmissionBound
PROPERTIES CancellationWins LeaseIsRespected ReviewedSurvives
CHECK_DEADLOCK FALSE

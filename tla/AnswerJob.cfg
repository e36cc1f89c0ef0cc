SPECIFICATION FairSpec
CONSTANTS
    j1 = j1
    th1 = th1
    k1 = k1
    k2 = k2
    s1 = s1
    t1 = t1
    t2 = t2
    None = None
    Jobs <- OneJob
    Keys <- TwoKeys
    Sessions <- OneSession
    Tasks <- TwoTasks
    Threads <- OneThread
    MaxAttempts = 2
    MaxManualRetries = 1
    MaxActive = 1
    MaxQueued = 1
    MaxDaily = 2
    MaxThreads = 1
    MaxMessages = 2
    MaxCorpus = 1
    Worlds <- MCWorlds
INVARIANTS NothingAskedTwice UnknownCostMarked EvidenceCurrent
PROPERTIES GuardAccepts StaleWritesNothing AnswerEnds
CHECK_DEADLOCK FALSE

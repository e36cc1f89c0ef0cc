SPECIFICATION MCSpec
CONSTANTS
    None = None
    Docs <- Documents
    Target = 4
    CardsPerRequest = 2
    RequestTarget = 12
    RefillRounds = 1
    Concurrency = 2
    GroupSize = 2
    MaxInput = 87
    MaxOutput = 25
    InputPrice = 1
    OutputPrice = 2
    MaxCost = 137
    ContextWindow = 23
    SummaryOutput = 1
    CallOutput = 5
    CardOutput = 2
    BaseOutput = 1
    Instructions = 4
    RefillReserve = 1
    CallRetries = 1
    Drift <- Drifts
    Offers <- UpToTwo
INVARIANTS SpendingBounded NothingOutlivesRun CardsExact SummariesAsEstimated

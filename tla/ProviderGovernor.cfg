SPECIFICATION FairSpec
CONSTANTS
    Absent = Absent
    c1 = c1
    c2 = c2
    c3 = c3
    Callers <- ThreeCallers
    Embedders <- OneEmbedder
    RequestsPerMinute = 3
    TokensPerMinute = 4
    SafetyPercent = 80
    Window = 2
    MaxRetries = 1
    RetryBase = 1
    RetryMax = 2
    Estimates <- Two
    Usages <- OneOrFour
    Hints <- LongHint
PROPERTY AdmissionsFit EveryoneServed

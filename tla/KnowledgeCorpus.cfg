SPECIFICATION Spec
CONSTANTS
    d1 = d1
    d2 = d2
    s1 = s1
    s2 = s2
    None = None
    Docs <- TwoDocs
    Spaces <- TwoSpaces
    MaxContents = 2
    MaxIndexes = 4
    MaxAttempts = 1
    Batches = 1
    Slots = 2
    Faults <- Errors
INVARIANTS CorpusFence
PROPERTY CutoverKeepsCorpus
SYMMETRY SpaceSymmetry
CHECK_DEADLOCK FALSE

SPECIFICATION Spec
CONSTANTS
    f1 = f1
    f2 = f2
    m = m
    w1 = w1
    w2 = w2
    Files <- MCFiles
    Models = {m}
    Model <- MCModel
    MaxVersion = 2
    Size <- MCSize
    Workers = {w1, w2}
    Idle = Idle
    Exited = Exited
    Requests <- MCRequests
    MaxPulls = 2
    MaxChanges = 1
INVARIANTS
    TypeOK IngestedAgrees SavedIsLinked CleanMeansPublished NobodyWaits
PROPERTIES
    ImplementsBatch
SYMMETRY Symmetry
CHECK_DEADLOCK FALSE

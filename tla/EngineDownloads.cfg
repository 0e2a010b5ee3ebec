SPECIFICATION Spec
CONSTANTS
    Callers = {c1, c2}
    Jobs = {j1, j2}
    Models = {m1, m2}
    Infohashes = {safe, unsafe}
    UnsafeNames = {unsafe}
    MaxDL = 1
    MetaTimeout = 1
    NoJob = NoJob
SYMMETRY Symmetry
INVARIANTS
    TypeOK
    SeedingIsComplete
    NoSilentExit
    OvershootBounded
    ShutdownDrains
    TorrentsKept
PROPERTY
    CompletionIsFinal
CHECK_DEADLOCK FALSE

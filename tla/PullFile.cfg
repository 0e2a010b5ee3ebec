SPECIFICATION Spec
CONSTANTS
    Versions = {a, b}
    Size = 2
    MaxRetries = 1
    Absent = Absent
    Torn = Torn
    NoHash = NoHash
    MiB = 2
    MaxPulls = 2
    MaxRestarts = 1
INVARIANTS
    TypeOK
    RecordDescribesFile
PROPERTIES
    PullEnds
CHECK_DEADLOCK FALSE

SPECIFICATION Spec
CONSTANTS
    Callers = {c1}
    Jobs = {j1, j2}
    Models = {m1}
    Infohashes = {safe}
    UnsafeNames = {}
    MaxDL = 2
    MetaTimeout = 1
    NoJob = NoJob
PROPERTIES
    MetadataWaitEnds
    ShutdownStops
CHECK_DEADLOCK FALSE

SPECIFICATION Spec
CONSTANTS
    NumEvents = 2
    h1 = h1
    h2 = h2
    Hashes = {h1}
    Infohash <- MCInfohash
    MaxAttempts = 2
    SendAttempts = 2
    MaxLate = 1
    HeadSupported = TRUE
INVARIANTS
    TypeOK
    NoLoss
    DuplicatesExplained
    OptOutCoversNewEvents
PROPERTY
    StopTerminates
CHECK_DEADLOCK FALSE

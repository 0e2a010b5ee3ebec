SPECIFICATION RecoveringSpec
CONSTANTS
    NumEvents = 2
    h1 = h1
    h2 = h2
    Hashes = {h1}
    Infohash <- MCInfohash
    MaxAttempts = 2
    SendAttempts = 1
    MaxLate = 0
    HeadSupported = TRUE
PROPERTY
    QueueDrains
CHECK_DEADLOCK FALSE

SPECIFICATION Spec
CONSTANTS
    n1 = n1
    n2 = n2
    a = a
    b = b
    Torrents <- MCTorrents
    Nodes = {n1, n2}
    Trusted = {n1, n2}
    Legacy = {n1}
    Skew <- MCSkew
    Models = {m}
    Contents = {a, b}
    NoV2 = NoV2
    Nothing = Nothing
    Window = 1
    Future = 0
    SoftTTL = 0
    HardTTL = 1
    Cap = 1
    RateLimit = 1
    RateWindow = 0
    MaxAir = 2
INVARIANTS
    TypeOK
    HintsBounded
    AnswersAreRecent
PROPERTIES
    LiveNodesAreFound

SPECIFICATION Spec
CONSTANTS
    shard1 = shard1
    shard2 = shard2
    coll = coll
    quant = quant
    set = set
    Items = {shard1, shard2, coll}
    Collections = {coll}
    Models = {quant, set}
    Model <- MCModel
    SeedJobs = {j1, j2}
    MaxAdds = 2
    NoItem = NoItem
    NoEntry = NoEntry
    Infohashes = {shard1, shard2, coll}
    Dirs = {"holder", "parent"}
    NoDir = NoDir
    QBRequests = {q1, q2}
    TXRequests = {t1, t2}
    Configured = {{}, {"qbittorrent"}, {"transmission"}}
    MaxSessions = 2
    MaxPolls = 2
    MaxStarts = 2
SYMMETRY Symmetry
INVARIANTS
    ContentIsWhereSeeded
CHECK_DEADLOCK FALSE

SPECIFICATION FairSpec
CONSTANTS
    Pools = {"A", "B"}
    Tracked = {"A", "B"}
    Chain <- TwoPools
    WsUrls = {FALSE}
    Syncs = {s1, s2}
    Maintenance = {m}
    Watcher = w
    StartBlock = 1
    Batch = 2
    IdChunk = 1
    MaxTasks = 2
    MaxEvents = 0
PROPERTIES
    SwapsAreStored

SPECIFICATION Spec
CONSTANTS
    Pools = {"A", "B"}
    Tracked = {"A", "B"}
    Chain <- TwoPools
    WsUrls = {TRUE}
    Syncs = {s1, s2}
    Maintenance = {m}
    Watcher = w
    StartBlock = 1
    Batch = 2
    IdChunk = 1
    MaxTasks = 2
    MaxEvents = 0
INVARIANT CursorMeansScanned

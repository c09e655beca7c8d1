SPECIFICATION FairSpec
CONSTANTS
    worker = worker
    cli = cli
    d1 = d1
    Proc = {worker, cli}
    Scheduled = {worker}
    Doc = {d1}
    Chunk = {1, 2, 3, 4, 5, 6}
    MaxVersion = 2
    ChunkCount <- TwoThenOne
    NotArticle = {}
    BatchSize = 1
    RunOptions <- CacheRuns
    TargetSets <- AllTargets
    Faults = {"fetch", "document", "index", "crash", "session"}
    MaxFaults = 2
    Free = Free
ACTION_CONSTRAINT LowestFree
PROPERTIES
    Recovers
INVARIANTS
    HandledIsStored
    KeywordsMatchContent

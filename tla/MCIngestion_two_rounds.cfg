SPECIFICATION Spec
CONSTANTS
    worker = worker
    cli = cli
    d1 = d1
    Proc = {worker, cli}
    Scheduled = {worker}
    Doc = {d1}
    Chunk = {1, 2, 3, 4, 5}
    MaxVersion = 2
    ChunkCount <- OneChunkEach
    NotArticle = {}
    BatchSize = 1
    RunOptions <- FullRuns
    TargetSets <- AllTargets
    Faults = {"session"}
    MaxFaults = 1
    Free = Free
ACTION_CONSTRAINT LowestFree
INVARIANTS
    IndexedHasVector

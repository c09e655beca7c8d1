SPECIFICATION Spec
CONSTANTS
    worker = worker
    cli = cli
    d1 = d1
    d2 = d2
    Proc = {worker, cli}
    Scheduled = {worker}
    Doc = {d1, d2}
    Chunk = {1, 2, 3, 4, 5, 6}
    MaxVersion = 2
    ChunkCount <- OneChunkEach
    NotArticle = {}
    BatchSize = 1
    RunOptions <- UnforcedRuns
    TargetSets <- AllTargets
    Faults = {"fetch", "document", "index", "crash"}
    MaxFaults = 1
    Free = Free
SYMMETRY Symmetry
ACTION_CONSTRAINT LowestFree
INVARIANTS
    TypeOK
    OneRound
    IndexedHasVector
PROPERTIES
    CompletedMeansPublished
    CorpusSpec
    NoContentRegression

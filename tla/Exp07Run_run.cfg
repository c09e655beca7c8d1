CONSTANTS
    Rounds = 2
    QuestionCount = 2
    MaxAttempts = 2
    Threshold = 3
    MaxVersion = 2
    MaxDay = 2
SPECIFICATION RunSpec
INVARIANTS TypeOK OneCorpus FailuresCutTheRun CompletedPassesTheGate
CHECK_DEADLOCK FALSE

SPECIFICATION AnsweringSpec
CONSTANTS
    NoPin = NoPin
    NoChunk = NoChunk
    SemanticWeight = 7
    Bm25Weight = 3
    TopK = 4
    MaxCandidates = 2
    Bm25TopN = 2
    Chunks <- MCChunks
    QuestionSet <- MCQuestions
    SemanticHits <- MCSemanticHits
    KeywordRows <- MCKeywordRows
    Drafts <- MCDrafts
INVARIANTS
    FusionIsFair
    TablesFollowTheirHeadings
    EvidenceIsInOrder
    AnswerRestsOnEvidence
CHECK_DEADLOCK FALSE

CONSTANTS
    q1 = q1
    q2 = q2
    q3 = q3
    None = None
    Corrupt = Corrupt
    Questions <- MCQuestions
    KeyOf <- MCKeyOf
    MaxRequests = 2
    MaxVersion = 2
    PoolSize = 1
SPECIFICATION FreshSpec
INVARIANTS TypeOK LogMatchesStream
PROPERTIES ContractKept AnswersStartTheirOwnTtl
CHECK_DEADLOCK FALSE

SPECIFICATION FairSpec
CONSTANTS
    d1 = d1
    d2 = d2
    notice = notice
    tuition = tuition
    All = All
    q1 = q1
    Doc = {d1, d2}
    Category = {notice, tuition}
    CategoryOf <- OneEach
    Query = {}
    KeywordGeneration = TRUE
    EmptyReparse = TRUE
    MaxTime = 2
    MaxDisturbances = 2
PROPERTIES
    FilesCatchUp

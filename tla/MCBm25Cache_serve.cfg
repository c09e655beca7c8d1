SPECIFICATION Spec
CONSTANTS
    d1 = d1
    d2 = d2
    notice = notice
    tuition = tuition
    All = All
    q1 = q1
    q2 = q2
    Doc = {d1, d2}
    Category = {notice}
    CategoryOf <- SameCategory
    Query = {q1, q2}
    KeywordGeneration = FALSE
    EmptyReparse = FALSE
    MaxTime = 2
    MaxDisturbances = 1
SYMMETRY Symmetry
INVARIANTS
    TypeOK
    ServedIsCurrent

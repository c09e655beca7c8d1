CONSTANTS
    q1 = q1
    q2 = q2
    q3 = q3
    None = None
    Waiting = Waiting
    Fallback = Fallback
    Questions <- MCQuestions
    KeyOf <- MCKeyOf
    MaxRequests = 2
    MaxVersion = 2
SPECIFICATION Spec
INVARIANTS TypeOK PrintStatusIsOurs
PROPERTIES PromiseKept ReturnsToMain

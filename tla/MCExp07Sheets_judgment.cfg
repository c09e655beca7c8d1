CONSTANTS
    BehaviorChoices <- MCBehaviors
    AxesChoices <- MCAxes
    RevisedAxes <- MCRevisedAxes
    Markers = TRUE
    MaxClock = 3
    MaxFiles = 3
    MaxRevisions = 1
SPECIFICATION Spec
INVARIANTS RevealedBehaviorIsBlind RevisionsTellTheStory HashesMeanOnePublication
CHECK_DEADLOCK FALSE

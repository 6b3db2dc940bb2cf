SPECIFICATION Spec
CONSTANTS
    r1 = r1
    r2 = r2
    e5 = e5
    other = other
    Claims <- MCClaims
    Flagged <- MCFlagged
    Blank = {}
    Models <- MCModels
    Runs <- MCRuns
    CommitEvery = 2
SYMMETRY Symmetry
INVARIANTS
    TypeOK
    BatchesSurvive
PROPERTIES
    FinishedRunReached
    OnlyForceReplaces

SPECIFICATION Spec
CONSTANTS
    r1 = r1
    r2 = r2
    e5 = e5
    other = other
    Claims <- MCFourClaims
    Flagged <- MCSecondFlagged
    Blank = {}
    Models <- MCModels
    Runs <- MCRun
    CommitEvery = 2
PROPERTIES
    ForceReembedsEverything

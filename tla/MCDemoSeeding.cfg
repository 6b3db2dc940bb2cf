SPECIFICATION Spec
CONSTANTS
    Corpus <- MCCorpus
    Limit = 2
    Phases <- MCPhases
    Runs <- MCRuns
    FixtureSets <- MCFixtureSets
    MaxFaults = 2
INVARIANTS
    ReportIsTrue
    
CHECK_DEADLOCK FALSE

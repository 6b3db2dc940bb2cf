SPECIFICATION Spec
CONSTANTS
    m1 = m1
    m2 = m2
    NoMsg = NoMsg
    Msgs <- MCMsgs
    Injured <- MCInjured
    Personal <- MCMsgs
    Verdicts <- MCVerdicts
    Extractions <- MCExtractions
    SanityEnabled = TRUE
    ApproveEnabled = TRUE
    MaxFaults = 1
INVARIANTS
    StepFailureKeepsClaim
CHECK_DEADLOCK FALSE

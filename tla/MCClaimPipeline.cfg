SPECIFICATION Spec
CONSTANTS
    m1 = m1
    m2 = m2
    NoMsg = NoMsg
    Msgs <- MCMsgs
    Injured <- MCInjured
    Personal <- MCMsgs
    Verdicts <- MCVerdicts
    Extractions <- MCExtractions
    SanityEnabled = TRUE
    ApproveEnabled = TRUE
    MaxFaults = 2
INVARIANTS
    TypeOK
    CommittedTogether
    ExtractionIsUnmasked
    InjuryReachesAPerson
    ApprovedWasChecked
    AuditMatchesClaim
    LossNeedsAFault
PROPERTIES
    AcceptedIsProcessed
    ImplementsLifecycle
CHECK_DEADLOCK FALSE

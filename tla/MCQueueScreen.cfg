SPECIFICATION Spec
CONSTANTS
    c1 = c1
    c2 = c2
    c3 = c3
    Claims = {c1, c2, c3}
    Urgent = {c3}
    Waiting <- MCWaiting
    Limit = 2
    None = None
    MaxFaults = 1
INVARIANTS
    EditsOfThisClaim
    OwnDecisionsLeave
PROPERTIES
    RejectAnnounced
    EditsOutlastFailures
    EveryClaimIsDecided
CHECK_DEADLOCK FALSE

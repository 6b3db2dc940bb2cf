SPECIFICATION Spec
CONSTANTS
    k1 = k1
    k2 = k2
    k3 = k3
    k4 = k4
    plates = plates
    counts = counts
    short = short
    vq = vq
    vrow = vrow
    vclaim = vclaim
    vraw = vraw
    NoQuestion = NoQuestion
    NoClaim = NoClaim
    Real <- MCReal
    AllowedTables <- MCTables
    MaxLimit = 2
    MaxCalls = 2
    Questions <- MCQuestions
    Wording <- MCWording
    TooShort <- MCTooShort
    Claims <- MCClaims
    Urgency <- MCUrgency
    Closest <- MCClosest
    Sentences <- MCSentences
    SearchLimit = 2
    NarrateLimit = 1
    Shared = TRUE
    Drafts <- MCDrafts
    Results <- MCResults
    Invented <- MCInvented
    MaxFaults = 1
INVARIANT AuditHoldsNoRealValue
CHECK_DEADLOCK FALSE

SPECIFICATION Spec
CONSTANTS
    c1 = c1
    c2 = c2
    r1 = r1
    r2 = r2
    r3 = r3
    plate = plate
    amount = amount
    v0 = v0
    v1 = v1
    v2 = v2
    Claims <- MCClaims
    Requests <- MCRequests
    Fields <- MCFields
    Values <- MCValues
    Extracted <- MCExtracted
    Written <- MCWritten
    Edits <- MCEdits
SYMMETRY Symmetry
INVARIANTS
    TypeOK
    StatusIsExplained
    EditsAreTraceable
    TrailReplays
    GaugesCoverTheQueue
PROPERTIES
    ImplementsLifecycle

SPECIFICATION Spec
CONSTANTS
    Width <- MCWidth
    Lower <- MCLower
    PiiOf <- MCPiiOf
    CommonNames <- MCNames
    Ambiguous <- MCAmbiguous
    Surnames <- MCSurnames
    Markers <- MCMarkers
    InjuryTerms <- MCTerms
    ContextTerms <- MCContext
    Negations <- MCNegations
    NegationSuffixes <- MCSuffixes
    Questions <- MCQuestions
    CareActions <- MCCareActions
    Texts <- MCTexts
    InventedPlate <- MCInventedPlate
    InventedQuote <- MCInventedQuote
    SanityEnabled = TRUE
    ApproveEnabled = TRUE
INVARIANTS
    RoundTrip
    SignalsMoveOnlyByMasking
    EvidenceHolds
    
    ApprovedRestsOnTheText

    
CHECK_DEADLOCK FALSE

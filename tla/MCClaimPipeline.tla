--------------------------- MODULE MCClaimPipeline ---------------------------
(* Two messages, the first one reporting an injury, both naming a person, and  *)
(* the model answers that differ in what the later steps do with them: one that *)
(* leaves the urgency alone and one that overrides it and skips the extraction; *)
(* an extraction the gate accepts, one that alone sees an injury, and one that  *)
(* the gate refuses.                                                            *)
EXTENDS ClaimPipeline

CONSTANTS m1, m2

MCMsgs     == {m1, m2}
MCInjured  == {m1}

Verdict(content, urgency, injury) ==
    [content |-> content, urgency |-> urgency, injury_mentioned |-> injury]

MCVerdicts == {Verdict("claim", "high", FALSE), Verdict("irrelevant", "normal", TRUE)}

Answer(injury, malformed, unverified) ==
    [injury |-> injury, malformed |-> malformed, unverified |-> unverified]

MCExtractions == {Answer(FALSE, FALSE, FALSE), Answer(TRUE, FALSE, FALSE),
                  Answer(FALSE, TRUE, TRUE)}
=============================================================================

---------------------------- MODULE MessageContent ----------------------------
(***************************************************************************)
(* What one run of process_message makes of a message's text: ClaimPipeline *)
(* keeps the transaction and leaves the data out, this module keeps the     *)
(* data and leaves the transaction out.                                     *)
(*                                                                          *)
(* The models are free in what they answer.  Of the extraction's fields two *)
(* are kept, one whose value is text and one that is a truth value, and the *)
(* validation rules about these two.                                        *)
(***************************************************************************)
EXTENDS MessageText

CONSTANTS
    Texts,          \* raw texts
    InventedPlate,  \* a plate no text mentions
    InventedQuote,  \* words no text holds
    SanityEnabled, ApproveEnabled

ASSUME SettingsAssumption == SanityEnabled \in BOOLEAN /\ ApproveEnabled \in BOOLEAN

\* A sender may write what looks like a placeholder, and a model may make one up.
ASSUME TextsAssumption ==
    Texts \subseteq Seq(Tokens) /\ {InventedPlate, InventedQuote} \subseteq Seq(Tokens)

VARIABLES
    step,
    raw,     \* raw_messages.raw_text
    masked,  \* the text the later steps are given, claim.data.masked_text
    mappings,
    flags,   \* masking_sanity_flags
    check,   \* history: how the sanity check ended
    verdict,
    data,    \* the claim's extraction, its references, unverified_fields and validation flags
    status

vars == <<step, raw, masked, mappings, flags, check, verdict, data, status>>

Fields == {"plate", "injury"}

NoVerdict == [content |-> "claim", urgency |-> "normal", source |-> "none"]
NoData    == [extracted |-> FALSE, plate |-> <<>>, injury |-> "null", refs |-> [f \in Fields |-> {}],
              unverified |-> {}, blocking |-> {}]

Init == /\ step = "mask"
        /\ raw \in Texts
        /\ masked = <<>> /\ mappings = <<>> /\ flags = <<>> /\ check = "none"
        /\ verdict = NoVerdict /\ data = NoData /\ status = "in_human_review"

-----------------------------------------------------------------------------
(* Masking and its sanity check.                                            *)

StepMask ==
    /\ step = "mask" /\ step' = "sanity"
    /\ masked'   = MaskAll(raw).text
    /\ mappings' = MaskAll(raw).mappings
    /\ UNCHANGED <<raw, flags, check, verdict, data, status>>

\* mask_all raised: the raw text goes on.
StepMaskFails ==
    /\ step = "mask" /\ step' = "sanity"
    /\ masked' = raw
    /\ UNCHANGED <<raw, mappings, flags, check, verdict, data, status>>

\* Mutant: any span the model gave is kept.
ClampSpanNot(span, length) == span

\* _clamp_span.
ClampSpan(span, length) ==
    IF 0 <= span.from /\ span.from < span.to /\ span.to <= length THEN span ELSE NoSpan

\* What a model may guess: no span, the whole text, one that ends behind it, an
\* empty one.
Guesses(length) ==
    {NoSpan, Span(0, length), Span(1, length + 1), Span(2, 2)}

Flagged(leak_found, spans) ==
    IF leak_found THEN [i \in DOMAIN spans |-> ClampSpan(spans[i], Chars(masked))] ELSE <<>>

\* Mutant: a failed check says there is a leak and flags nothing.
CheckFailedUnflagged == <<>>

CheckFailed == <<NoSpan>>

StepMaskSanity ==
    /\ step = "sanity" /\ step' = "classify"
    /\ \/ /\ SanityEnabled /\ check' = "answered"
          /\ \E leak_found \in BOOLEAN, guess \in Guesses(Chars(masked)) :
                flags' = Flagged(leak_found, <<guess>>)
       \/ SanityEnabled /\ check' = "failed" /\ flags' = CheckFailed
       \/ ~SanityEnabled /\ check' = "off" /\ flags' = <<>>
    /\ UNCHANGED <<raw, masked, mappings, verdict, data, status>>

-----------------------------------------------------------------------------
(* Classification.                                                          *)

StepClassify ==
    /\ step = "classify" /\ step' = "extract"
    /\ \E content \in {"claim", "irrelevant"}, urgency \in {"critical", "normal"}, injury \in BOOLEAN :
         verdict' = IF InjurySignals(masked) # {} \/ injury
                    THEN [content |-> content, urgency |-> "critical", source |-> "injury"]
                    ELSE [content |-> content, urgency |-> urgency, source |-> "llm"]
    /\ UNCHANGED <<raw, masked, mappings, flags, check, data, status>>

\* fallback_classification.
StepClassifyFails ==
    /\ step = "classify" /\ step' = "extract"
    /\ verdict' = [content |-> "claim", source |-> "fallback",
                   urgency |-> IF InjurySignals(masked) # {} THEN "critical" ELSE "normal"]
    /\ UNCHANGED <<raw, masked, mappings, flags, check, data, status>>

-----------------------------------------------------------------------------
(* Extraction.                                                              *)

ExtractionSkipped ==
    /\ step = "extract" /\ step' = "approve"
    /\ verdict.content # "claim"
    /\ UNCHANGED <<raw, masked, mappings, flags, check, verdict, data, status>>

ExtractionFails ==
    /\ step = "extract" /\ step' = "approve"
    /\ verdict.content = "claim"
    /\ UNCHANGED <<raw, masked, mappings, flags, check, verdict, data, status>>

\* What the model may fill in: a plate it was shown in either form, or one it
\* made up.
PlateValues ==
    {<<>>, InventedPlate} \cup {<<masked[i]>> : i \in {k \in DOMAIN masked : masked[k].word = "PLATE"}}

Quotes ==
    LET words == SplitWords(masked)
    IN  {<<>>, InventedQuote, masked, Lowered(masked)} \cup {words[i] : i \in DOMAIN words}

\* Mutant: the quote is looked for in what the operator is shown.
ReferenceInRaw(quote) == [quote |-> quote, span |-> SpanAt(raw, Located(quote, raw))]

\* A reference to the quote where it was found, or to nothing.
Reference(quote) == [quote |-> quote, span |-> SpanAt(masked, Located(quote, masked))]

\* A reference to what stands there.
Excerpt(p) == [quote |-> SubSeq(masked, p[1], p[2]), span |-> SpanOf(masked, p)]

\* resolve_references: the model's quote where it gave one (given holds at most
\* one); for a filled field without one, where its value stands.  A truth value
\* is in no text.
Resolve(given, value) ==
    IF given # {} THEN {Reference(quote) : quote \in given}
    ELSE {Excerpt(p) : p \in {Located(v, masked) : v \in {value} \ {<<>>}} \ {Nowhere}}

Filled(plate, injury) ==
    (IF plate # <<>> THEN {"plate"} ELSE {}) \cup (IF injury # "null" THEN {"injury"} ELSE {})

Unverified(refs, filled) ==
    {f \in filled : refs[f] = {}} \cup {f \in Fields : \E r \in refs[f] : r.span = NoSpan}

\* unmask_data walks the whole payload, the quotes of the references included;
\* the spans stay those in the masked text.
Unmasked(refs) ==
    [f \in Fields |-> {[quote |-> Unmask(r.quote, mappings), span |-> r.span] : r \in refs[f]}]

\* validate, its blocking rules.
Blocking(plate, injury) ==
    {rule \in {"invalid_plate_format", "injury_keyword_mismatch", "injury_not_critical"} :
       CASE rule = "invalid_plate_format"    -> plate # <<>> /\ ~(plate \in DOMAIN PiiOf /\ PiiOf[plate] = "PLATE")
         [] rule = "injury_keyword_mismatch" -> injury # "true" /\ InjurySignals(masked) # {}
         [] OTHER                            -> injury = "true" /\ verdict.urgency # "critical"}

Evidence(plate, shown, hurt) ==
    [f \in Fields |-> IF f = "plate" THEN Resolve(shown, plate) ELSE Resolve(hurt, <<>>)]

Extracted(plate, injury, refs) ==
    [extracted  |-> TRUE,
     plate      |-> Unmask(plate, mappings),
     injury     |-> injury,
     refs       |-> Unmasked(refs),
     unverified |-> Unverified(refs, Filled(plate, injury)),
     blocking   |-> Blocking(Unmask(plate, mappings), injury)]

StepExtract ==
    /\ step = "extract" /\ step' = "approve"
    /\ verdict.content = "claim"
    /\ \E plate \in PlateValues, injury \in {"null", "true", "false"},
          shown \in {{}} \cup {{quote} : quote \in Quotes}, hurt \in {{}, {masked}} :
         data' = Extracted(plate, injury, Evidence(plate, shown, hurt))
    /\ UNCHANGED <<raw, masked, mappings, flags, check, verdict, status>>

-----------------------------------------------------------------------------
(* The gate.                                                                *)

\* Mutant: the fields whose evidence failed are not looked at.
ApprovableUnverified ==
    /\ ApproveEnabled /\ verdict.content = "claim" /\ verdict.urgency # "critical"
    /\ data.extracted /\ data.blocking = {}

Approvable ==
    /\ ApproveEnabled /\ verdict.content = "claim" /\ verdict.urgency # "critical"
    /\ data.extracted /\ data.blocking = {} /\ data.unverified = {}

StepAutoApprove ==
    /\ step = "approve" /\ step' = "done"
    /\ status' = IF Approvable THEN "approved" ELSE status
    /\ UNCHANGED <<raw, masked, mappings, flags, check, verdict, data>>

Next == \/ StepMask \/ StepMaskFails \/ StepMaskSanity
        \/ StepClassify \/ StepClassifyFails
        \/ ExtractionSkipped \/ ExtractionFails \/ StepExtract
        \/ StepAutoApprove

Spec == Init /\ [][Next]_vars

-----------------------------------------------------------------------------
(* Properties.                                                              *)

\* The same words, whatever the white space and the case.
SameWords(a, b) == JoinWords(SplitWords(Lowered(a))) = JoinWords(SplitWords(Lowered(b)))

IsPartOf(part, text) ==
    Find(JoinWords(SplitWords(Lowered(part))), JoinWords(SplitWords(Lowered(text)))) # 0

\* Nothing in the raw text looks like a placeholder.
PlainText == raw \in Seq(Written)

\* What the mappings put back is the text the sender wrote, white space aside,
\* also where one value is part of another or a name occurs twice (regex_rules.py,
\* name_dict.py, unmask.py).
RoundTrip ==
    step # "mask" /\ PlainText =>
      JoinWords(SplitWords(Unmask(masked, mappings))) = JoinWords(SplitWords(raw))

\* No word the sender wrote that is a value of a pattern, punctuation aside, is in
\* the masked text, and no word of that is an unambiguous name.
NothingKnown ==
    /\ \A i \in DOMAIN SplitWords(raw) :
         LET value == Strip(SplitWords(raw)[i])
         IN  value \in DOMAIN PiiOf => Find(value, masked) = 0
    /\ \A i \in DOMAIN SplitWords(masked) :
         ~Spells(SplitWords(masked), i, CommonNames \ Ambiguous)

\* Masking, where it did not fail, leaves a value of a pattern nowhere in the text,
\* inside a longer word neither, and no unambiguous name, whatever stands around
\* it (regex_rules.py, name_dict.py).
NothingKnownLeft == [][StepMask => NothingKnown']_vars

FarWords   == Atoms(Negations \cup CareActions)
GuardWords == FarWords \cup Atoms(Questions)

Between(j, i, k) == (i < j /\ j < k) \/ (k < j /\ j < i)

\* A placeholder touches the term, or stands between it and a negation or a care verb.
ReplacedBeside(term) ==
    \E i, j \in DOMAIN masked :
      /\ masked[i] = Atom(term) /\ masked[j].nr > 0
      /\ j \in {i - 1, i + 1} \/ \E k \in DOMAIN masked : masked[k] \in FarWords /\ Between(j, i, k)

\* A value that was replaced held one of these words.
ReplacedWith(words) == \E m \in ToSet(mappings) : ToSet(m.value) \cap words # {}

\* A run of white space stood between the term and a word its guards look for.
EvenedOut(term) ==
    \E i, j, k \in DOMAIN raw :
      /\ raw[i] = Atom(term) /\ raw[k] \in GuardWords /\ Between(j, i, k)
      /\ {raw[j], raw[j + 1]} \subseteq White

\* Masking changes what the injury terms say only where it changed the text next
\* to a term or the distance between the term and a word its guards look for, where
\* it hid the term or such a word, or where the end of a blank form field was lost
\* (injury_terms.py, regex_rules.py, name_dict.py).
SignalsMoveOnlyByMasking ==
    step = "sanity" /\ PlainText =>
      \A term \in InjuryTerms :
        \/ term \in InjurySignals(raw) <=> term \in InjurySignals(masked)
        \/ ReplacedBeside(term) \/ EvenedOut(term)
        \/ ReplacedWith(GuardWords \cup {Atom(term)})
        \/ \E i \in DOMAIN raw : raw[i] = Atom(term) /\ EmptyField(raw, i)

\* A sanity check that failed leaves a flag, and every span that is stored lies
\* in the text it is shown in.
SanityFailsClosed ==
    /\ check = "failed" => flags # <<>>
    /\ \A i \in DOMAIN flags :
         flags[i] # NoSpan =>
           0 <= flags[i].from /\ flags[i].from < flags[i].to /\ flags[i].to <= Chars(masked)

\* A field that is not marked unverified has a place in the masked text, and
\* what stands there, unmasked, is the quote the operator is shown.  An empty
\* quote is the exception: it is found everywhere.
EvidenceHolds ==
    data.extracted =>
      \A f \in Filled(data.plate, data.injury) \ data.unverified :
        /\ data.refs[f] # {}
        /\ \A r \in data.refs[f] : r.quote # <<>> =>
             \E i, k \in DOMAIN masked :
               /\ i <= k /\ SpanOf(masked, <<i, k>>) = r.span
               /\ SameWords(Unmask(SubSeq(masked, i, k), mappings), r.quote)

\* What the gate approves rests on the sender's own words: every quote shown
\* for a filled field is part of the raw text (unless that looks like a placeholder,
\* which unmasking then replaces too), and a text that reports an injury is approved
\* only if masking changed what the injury terms say.
ApprovedRestsOnTheText ==
    status = "approved" =>
      /\ \A f \in Filled(data.plate, data.injury) :
           data.refs[f] # {} /\ \A r \in data.refs[f] : PlainText => IsPartOf(r.quote, raw)
      /\ InjurySignals(raw) # {} => InjurySignals(masked) = {}
      /\ data.plate \in {<<>>} \cup {value \in DOMAIN PiiOf : PiiOf[value] = "PLATE"}

\* worker/pipeline.py, step_classify: "The fallback still runs the injury terms,
\* so a critical claim stays critical with no model involved."
InjuryStaysCritical ==
    verdict.source = "fallback" /\ InjurySignals(raw) # {} => verdict.urgency = "critical"

===============================================================================

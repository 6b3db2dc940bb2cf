---------------------------- MODULE ClaimPipeline ----------------------------
(***************************************************************************)
(* The intake path of the cockpit: POST /ingest writes a raw_messages row   *)
(* and pushes its id onto the Redis list; the single worker pops ids and    *)
(* runs process_message, one database transaction per message.              *)
(*                                                                          *)
(* Two kinds of state are kept apart.  rows, mappings, claims and audit are *)
(* what PostgreSQL has committed.  tx and draft are the worker's open       *)
(* session: what the steps have added and nobody else can see until the     *)
(* commit.                                                                  *)
(*                                                                          *)
(* A failed LLM call, a masking error and an encoder error are ordinary     *)
(* outcomes of a step and happen any number of times.  A fault is a failure *)
(* of the platform (Redis, PostgreSQL, the process); MaxFaults bounds them. *)
(***************************************************************************)
EXTENDS Naturals, Sequences, FiniteSets

CONSTANTS
    Msgs,           \* raw_messages ids
    NoMsg,          \* "no message in hand"
    Injured,        \* messages whose text, masked or raw, matches the injury terms
    Personal,       \* messages in whose text masking finds something to mask
    Verdicts,       \* answers the classification model may give
    Extractions,    \* what the extraction model's answer may amount to
    SanityEnabled,  \* MASKING_SANITY_ENABLED
    ApproveEnabled, \* AUTO_APPROVE_ENABLED
    MaxFaults       \* bound on platform faults

ContentTypes == {"claim", "info_request", "irrelevant"}
Urgencies    == {"critical", "high", "normal"}

ASSUME MsgsAssumption == NoMsg \notin Msgs /\ Injured \subseteq Msgs /\ Personal \subseteq Msgs

ASSUME AnswersAssumption ==
    /\ Verdicts \subseteq [content : ContentTypes, urgency : Urgencies, injury_mentioned : BOOLEAN]
    /\ Extractions \subseteq [injury : BOOLEAN, malformed : BOOLEAN, unverified : BOOLEAN]

ASSUME FlagsAssumption ==
    SanityEnabled \in BOOLEAN /\ ApproveEnabled \in BOOLEAN /\ MaxFaults \in Nat

VARIABLES
    rows,     \* raw_messages.status, "absent" before the row exists
    mappings, \* messages with committed mask_mappings rows
    claims,   \* the committed claim of a message, status "none" before it exists
    audit,    \* committed audit_trail steps of a message
    unacked,  \* history: messages whose COMMIT applied but was reported failed
    ingest,   \* where the POST /ingest request of a message stands
    queue,    \* the Redis list claims:incoming, oldest first
    worker,   \* what the worker runs next
    cur,      \* the message in the worker's hand
    tx,       \* the worker's open session, but for
    draft,    \* the Claim in it, with what the steps before step_route know
    faults    \* platform faults so far

db   == <<rows, mappings, claims, audit, unacked>>
vars == <<rows, mappings, claims, audit, unacked, ingest, queue, worker, cur, tx, draft, faults>>

-----------------------------------------------------------------------------
(* Rows and sessions.                                                       *)

MessageStatus == {"absent", "received", "classified", "dead_letter"}
Terminal      == {"classified", "dead_letter"}

AuditSteps == {"masking_error", "masking", "masking_sanity", "classification_error",
               "classification", "routing", "extraction_skipped", "extraction", "validation",
               "extraction_error", "embedding", "embedding_error", "auto_approve",
               "pipeline_error"}

Claim == [status     : {"none", "in_human_review", "approved"},
          text       : {"masked", "raw"},                 \* claim.data.masked_text
          flagged    : BOOLEAN,                           \* masking_sanity_flags not empty
          content    : ContentTypes,
          urgency    : Urgencies,
          extraction : {"none", "placeholders", "real"},  \* whose values are these
          injury     : BOOLEAN,                           \* extraction.injury is true
          unverified : BOOLEAN,                           \* unverified_fields not empty
          blocked    : BOOLEAN,                           \* a blocking validation flag
          vector     : BOOLEAN]                           \* a claim_embeddings row

NoClaim == [status |-> "none", text |-> "masked", flagged |-> FALSE, content |-> "claim",
            urgency |-> "normal", extraction |-> "none", injury |-> FALSE,
            unverified |-> FALSE, blocked |-> FALSE, vector |-> FALSE]

Session == [row     : {"received", "masked", "classified"},
            mapped  : BOOLEAN,       \* MaskMapping objects were added
            flushed : BOOLEAN,       \* and sent to the database, inside the transaction
            audit   : SUBSET AuditSteps,
            broken  : {"none", "extract", "embed"}]  \* the step whose SQL aborted it

NewSession == [row |-> "received", mapped |-> FALSE, flushed |-> FALSE,
               audit |-> {}, broken |-> "none"]

Phases == {"idle", "load", "mask", "sanity", "classify", "route", "extract", "embed",
           "gate", "commit", "handler", "down"}

Stranded(m) == /\ rows[m] = "received"
               /\ ingest[m] \in {"accepted", "failed"}
               /\ cur # m
               /\ \A i \in 1..Len(queue) : queue[i] # m

Init == /\ rows     = [m \in Msgs |-> "absent"]
        /\ mappings = {}
        /\ claims   = [m \in Msgs |-> NoClaim]
        /\ audit    = [m \in Msgs |-> {}]
        /\ unacked  = {}
        /\ ingest   = [m \in Msgs |-> "idle"]
        /\ queue    = <<>>
        /\ worker   = "idle"
        /\ cur      = NoMsg
        /\ tx       = NewSession
        /\ draft    = NoClaim
        /\ faults   = 0

Fault == faults < MaxFaults /\ faults' = faults + 1

-----------------------------------------------------------------------------
(* POST /ingest: commit the row, then push its id, then answer 202.  The    *)
(* push is not part of the transaction.                                     *)

IngestCommit(m) ==
    /\ ingest[m] = "idle"
    /\ rows'   = [rows EXCEPT ![m] = "received"]
    /\ ingest' = [ingest EXCEPT ![m] = "committed"]
    /\ UNCHANGED <<mappings, claims, audit, unacked, queue, worker, cur, tx, draft, faults>>

\* Mutant: the request answers without pushing.
IngestEnqueueForgotten(m) ==
    /\ ingest[m] = "committed"
    /\ ingest' = [ingest EXCEPT ![m] = "accepted"]
    /\ UNCHANGED <<db, queue, worker, cur, tx, draft, faults>>

IngestEnqueue(m) ==
    /\ ingest[m] = "committed"
    /\ queue'  = Append(queue, m)
    /\ ingest' = [ingest EXCEPT ![m] = "accepted"]
    /\ UNCHANGED <<db, worker, cur, tx, draft, faults>>

\* Redis refuses the push, loses its reply, or the api process dies: the
\* caller is not answered 202 although the row is committed.
IngestFails(m) ==
    /\ ingest[m] = "committed"
    /\ Fault
    /\ queue'  \in {queue, Append(queue, m)}
    /\ ingest' = [ingest EXCEPT ![m] = "failed"]
    /\ UNCHANGED <<db, worker, cur, tx, draft>>

-----------------------------------------------------------------------------
(* The worker's loop: BRPOP, a session, process_message, close.             *)

Take ==
    /\ worker = "idle" /\ queue # <<>>
    /\ cur'    = Head(queue)
    /\ queue'  = Tail(queue)
    /\ worker' = "load"
    /\ UNCHANGED <<db, ingest, tx, draft, faults>>

\* The list lost its element but the reply never reached the worker.
PopLost ==
    /\ worker = "idle" /\ queue # <<>>
    /\ Fault
    /\ queue' = Tail(queue)
    /\ UNCHANGED <<db, ingest, worker, cur, tx, draft>>

Load ==
    /\ worker = "load"
    /\ tx'     = NewSession
    /\ draft'  = NoClaim
    /\ worker' = "mask"
    /\ UNCHANGED <<db, ingest, queue, cur, faults>>

\* The session is closed and the loop goes on; nothing puts the id back.
Abandon ==
    /\ worker' = "idle"
    /\ cur'    = NoMsg
    /\ tx'     = NewSession
    /\ draft'  = NoClaim

\* db.get stands before the try block, so its error leaves process_message.
LoadFails ==
    /\ worker = "load"
    /\ Fault
    /\ Abandon
    /\ UNCHANGED <<db, ingest, queue>>

-----------------------------------------------------------------------------
(* The steps of process_message, up to the commit.  Step writes the session *)
(* and moves on; what it leaves alone is the same for all of them.          *)

Step(from, to, session, claim) ==
    /\ worker = from
    /\ worker' = to
    /\ tx'     = session
    /\ draft'  = claim
    /\ UNCHANGED <<db, ingest, queue, cur>>

\* The session with audit rows added.
Logged(steps) == [tx EXCEPT !.audit = @ \cup steps]

StepMask ==
    \/ /\ Step("mask", "sanity",
               [tx EXCEPT !.row = "masked", !.mapped = cur \in Personal,
                          !.audit = @ \cup {"masking"}],
               draft)
       /\ UNCHANGED faults
    \/ \* mask_all raised: the raw text goes on, with no mappings
       /\ Step("mask", "sanity",
               [tx EXCEPT !.row = "masked", !.audit = @ \cup {"masking_error", "masking"}],
               [draft EXCEPT !.text = "raw"])
       /\ UNCHANGED faults

\* A leak is kept only when the answer also lists flags; a failed check
\* answers with one flag.
SanityFlags(leak_found, flags) == leak_found /\ flags

StepMaskSanity ==
    \E leak_found, flags \in IF SanityEnabled THEN BOOLEAN ELSE {FALSE} :
        /\ Step("sanity", "classify", Logged({"masking_sanity"}),
                [draft EXCEPT !.flagged = SanityFlags(leak_found, flags)])
        /\ UNCHANGED faults

\* classify: the injury terms, or the model's own flag, override its urgency.
Urgency(m, v) == IF m \in Injured \/ v.injury_mentioned THEN "critical" ELSE v.urgency

\* Mutants: a fallback that ignores the injury terms, and one with a tier of its own.
FallbackUrgencyFlat(m)    == "normal"
FallbackUrgencyUnknown(m) == IF m \in Injured THEN "critical" ELSE "low"

\* fallback_classification: the injury terms and nothing else.
FallbackUrgency(m) == IF m \in Injured THEN "critical" ELSE "normal"

Classified(content, urgency, step) ==
    /\ Step("classify", "route",
            [tx EXCEPT !.row = "classified", !.audit = @ \cup {step}],
            [draft EXCEPT !.content = content, !.urgency = urgency])
    /\ UNCHANGED faults

StepClassify ==
    \/ \E v \in Verdicts : Classified(v.content, Urgency(cur, v), "classification")
    \/ Classified("claim", FallbackUrgency(cur), "classification_error")

\* Mutant: db.add without db.flush.
StepRouteUnflushed ==
    /\ Step("route", "extract", Logged({"routing"}),
            [draft EXCEPT !.status = "in_human_review"])
    /\ UNCHANGED faults

StepRoute ==
    /\ Step("route", "extract",
            [tx EXCEPT !.flushed = TRUE, !.audit = @ \cup {"routing"}],
            [draft EXCEPT !.status = "in_human_review"])
    /\ UNCHANGED faults

RouteFails == Step("route", "handler", tx, draft) /\ Fault

\* The rows db.query(MaskMapping) returns: the session does not flush by
\* itself before a query, so only what step_route's flush has sent is there.
MappingsVisible(m) == m \in mappings \/ (tx.mapped /\ tx.flushed)

ExtractionValues(m) ==
    IF draft.text = "masked" /\ m \in Personal /\ ~MappingsVisible(m)
    THEN "placeholders" ELSE "real"

\* The two injury rules of validate; malformed stands for its other
\* blocking rules, which look at the extraction alone.
Blocked(m, x) ==
    \/ x.malformed
    \/ m \in Injured /\ ~x.injury
    \/ x.injury /\ draft.urgency # "critical"

StepExtract ==
    \/ /\ draft.content # "claim"
       /\ Step("extract", "embed", Logged({"extraction_skipped"}), draft)
       /\ UNCHANGED faults
    \/ /\ draft.content = "claim"
       /\ \E x \in Extractions :
            Step("extract", "embed", Logged({"extraction", "validation"}),
                 [draft EXCEPT !.extraction = ExtractionValues(cur),
                               !.injury     = x.injury,
                               !.unverified = x.unverified,
                               !.blocked    = Blocked(cur, x)])
       /\ UNCHANGED faults
    \/ \* the model call failed
       /\ draft.content = "claim"
       /\ Step("extract", "embed", Logged({"extraction_error"}), draft)
       /\ UNCHANGED faults
    \/ \* the mappings query failed: same handler, but the transaction is gone
       /\ draft.content = "claim"
       /\ Step("extract", "embed",
               [tx EXCEPT !.audit = @ \cup {"extraction_error"}, !.broken = "extract"], draft)
       /\ Fault

\* Mutant: the audit row is written before the vector is.
StepEmbedAuditedFirst ==
    /\ \/ Step("embed", "gate", Logged({"embedding"}), [draft EXCEPT !.vector = TRUE])
       \/ Step("embed", "gate", Logged({"embedding", "embedding_error"}), draft)
    /\ UNCHANGED faults

StepEmbed ==
    \/ /\ tx.broken = "none"
       /\ Step("embed", "gate", Logged({"embedding"}), [draft EXCEPT !.vector = TRUE])
       /\ UNCHANGED faults
    \/ \* the encoder failed, or the aborted transaction refuses db.get
       /\ Step("embed", "gate", Logged({"embedding_error"}), draft)
       /\ UNCHANGED faults
    \/ /\ tx.broken = "none"
       /\ Step("embed", "gate",
               [tx EXCEPT !.audit = @ \cup {"embedding_error"}, !.broken = "embed"], draft)
       /\ Fault

\* Mutant: the gate without its no_extraction reason.
ApprovableUnextracted(c) ==
    /\ ApproveEnabled
    /\ c.content = "claim"
    /\ c.urgency # "critical"
    /\ ~c.blocked
    /\ ~c.unverified

\* evaluate: every condition that keeps a claim with a person.  The sanity
\* flag is not one of them.
Approvable(c) ==
    /\ ApproveEnabled
    /\ c.content = "claim"
    /\ c.urgency # "critical"
    /\ c.extraction # "none"
    /\ ~c.blocked
    /\ ~c.unverified

StepAutoApprove ==
    /\ Step("gate", "commit", Logged({"auto_approve"}),
            [draft EXCEPT !.status = IF Approvable(draft) THEN "approved" ELSE @])
    /\ UNCHANGED faults

-----------------------------------------------------------------------------
(* The end of process_message: one commit, or rollback and dead letter.     *)

Applied ==
    /\ rows'     = [rows EXCEPT ![cur] = tx.row]
    /\ mappings' = IF tx.mapped THEN mappings \cup {cur} ELSE mappings
    /\ claims'   = [claims EXCEPT ![cur] = draft]
    /\ audit'    = [audit EXCEPT ![cur] = @ \cup tx.audit]

Commit ==
    /\ worker = "commit" /\ tx.broken = "none"
    /\ Applied
    /\ Abandon
    /\ UNCHANGED <<unacked, ingest, queue, faults>>

\* An aborted transaction refuses the flush; a healthy one may lose the
\* server before it applies.
CommitFails ==
    /\ worker = "commit"
    /\ \/ tx.broken # "none" /\ UNCHANGED faults
       \/ tx.broken = "none" /\ Fault
    /\ worker' = "handler"
    /\ UNCHANGED <<db, ingest, queue, cur, tx, draft>>

\* The server applied the commit and the connection died before it said so.
CommitUnacked ==
    /\ worker = "commit" /\ tx.broken = "none"
    /\ Fault
    /\ Applied
    /\ unacked' = unacked \cup {cur}
    /\ worker'  = "handler"
    /\ UNCHANGED <<ingest, queue, cur, tx, draft>>

\* Mutants: the handler commits without the rollback, or deletes the claim.
DeadLetterWithoutRollback ==
    /\ worker = "handler"
    /\ rows'   = [rows EXCEPT ![cur] = "dead_letter"]
    /\ claims' = [claims EXCEPT ![cur] = draft]
    /\ audit'  = [audit EXCEPT ![cur] = @ \cup tx.audit \cup {"pipeline_error"}]
    /\ Abandon
    /\ UNCHANGED <<mappings, unacked, ingest, queue, faults>>
DeadLetterDeletesClaim ==
    /\ worker = "handler"
    /\ rows'   = [rows EXCEPT ![cur] = "dead_letter"]
    /\ claims' = [claims EXCEPT ![cur] = NoClaim]
    /\ audit'  = [audit EXCEPT ![cur] = @ \cup {"pipeline_error"}]
    /\ Abandon
    /\ UNCHANGED <<mappings, unacked, ingest, queue, faults>>

DeadLetter ==
    /\ worker = "handler"
    /\ rows'  = [rows EXCEPT ![cur] = "dead_letter"]
    /\ audit' = [audit EXCEPT ![cur] = @ \cup {"pipeline_error"}]
    /\ Abandon
    /\ UNCHANGED <<mappings, claims, unacked, ingest, queue, faults>>

DeadLetterFails ==
    /\ worker = "handler"
    /\ Fault
    /\ Abandon
    /\ UNCHANGED <<db, ingest, queue>>

\* The process dies with its session.
Crash ==
    /\ worker # "down"
    /\ Fault
    /\ worker' = "down"
    /\ cur'    = NoMsg
    /\ tx'     = NewSession
    /\ draft'  = NoClaim
    /\ UNCHANGED <<db, ingest, queue>>

\* Mutant: no restart policy.
RestartNever == worker = "down" /\ UNCHANGED vars

\* compose: restart: always.
Restart ==
    /\ worker = "down"
    /\ worker' = "idle"
    /\ UNCHANGED <<db, ingest, queue, cur, tx, draft, faults>>

-----------------------------------------------------------------------------
Ingest(m) == IngestCommit(m) \/ IngestEnqueue(m) \/ IngestFails(m)

ProcessMessage ==
    \/ Load \/ LoadFails
    \/ StepMask \/ StepMaskSanity \/ StepClassify
    \/ StepRoute \/ RouteFails
    \/ StepExtract \/ StepEmbed \/ StepAutoApprove
    \/ Commit \/ CommitFails \/ CommitUnacked
    \/ DeadLetter \/ DeadLetterFails

Worker == Take \/ PopLost \/ ProcessMessage \/ Restart

Next == (\E m \in Msgs : Ingest(m)) \/ Worker \/ Crash

\* A request that committed its row goes on to answer; the worker is a loop
\* that never waits for anything but the queue, and compose restarts it.
Fairness == /\ \A m \in Msgs : WF_vars(IngestEnqueue(m) \/ IngestFails(m))
            /\ WF_vars(Worker)

Spec == Init /\ [][Next]_vars /\ Fairness
-----------------------------------------------------------------------------
(* Properties.                                                              *)

\* Every variable stays in its declared range.
TypeOK ==
    /\ rows     \in [Msgs -> MessageStatus]
    /\ mappings \subseteq Msgs
    /\ claims   \in [Msgs -> Claim]
    /\ audit    \in [Msgs -> SUBSET AuditSteps]
    /\ unacked  \subseteq Msgs
    /\ ingest   \in [Msgs -> {"idle", "committed", "accepted", "failed"}]
    /\ queue    \in Seq(Msgs)
    /\ worker   \in Phases
    /\ cur      \in Msgs \cup {NoMsg}
    /\ tx       \in Session
    /\ draft    \in Claim
    /\ faults   \in Nat

\* process_message commits everything or nothing: a message still received has
\* left no trace, a classified one has its claim and its whole trail, and a
\* dead letter has only its error row, unless the server applied a commit
\* whose acknowledgement was lost.
CommittedTogether ==
    \A m \in Msgs :
        /\ rows[m] \in {"absent", "received"} =>
               claims[m] = NoClaim /\ audit[m] = {} /\ m \notin mappings
        /\ rows[m] = "classified" =>
               claims[m].status # "none" /\ {"routing", "auto_approve"} \subseteq audit[m]
        /\ rows[m] = "dead_letter" /\ m \notin unacked =>
               claims[m] = NoClaim /\ audit[m] = {"pipeline_error"} /\ m \notin mappings

\* The fields of a committed claim hold real values, never the placeholders
\* the model was shown: the mapping rows step_extract queries must have been
\* flushed by then, because the session does not flush by itself.
ExtractionIsUnmasked ==
    \A m \in Msgs : claims[m].extraction # "placeholders"

\* An injury reaches a person whichever layer noticed it: a message with an
\* injury term is critical and queued even when every model call failed, and a
\* claim whose extraction says injury is never approved by the gate.
InjuryReachesAPerson ==
    \A m \in Msgs : claims[m].status # "none" =>
        /\ m \in Injured => claims[m].urgency = "critical"
        /\ m \in Injured \/ claims[m].injury => claims[m].status = "in_human_review"

\* A claim the gate approved was extracted and validated in the same run, with
\* no failed step hidden behind the verdict.
ApprovedWasChecked ==
    \A m \in Msgs : claims[m].status = "approved" =>
        /\ {"extraction", "validation", "auto_approve"} \subseteq audit[m]
        /\ audit[m] \cap {"extraction_error", "extraction_skipped"} = {}

\* What the trail says is what the claim holds: exactly one extraction outcome,
\* a vector exactly when the embedding row says so, and mapping rows exactly
\* when masking worked and found something.
AuditMatchesClaim ==
    \A m \in Msgs : claims[m].status # "none" =>
        /\ \E outcome \in {"extraction", "extraction_error", "extraction_skipped"} :
               audit[m] \cap {"extraction", "extraction_error", "extraction_skipped"} = {outcome}
        /\ "extraction" \in audit[m] <=> claims[m].extraction # "none"
        /\ "extraction_skipped" \in audit[m] <=> claims[m].content # "claim"
        /\ "embedding" \in audit[m] <=> claims[m].vector
        /\ "masking_error" \in audit[m] <=> claims[m].text = "raw"
        /\ m \in mappings <=> (m \in Personal /\ claims[m].text = "masked")

\* A message that ends in the dead letter status, or is left in received with
\* nothing that will ever pick it up, has cost a platform fault of its own:
\* masking, model and encoder failures never lose a message (ADR-004).
LossNeedsAFault ==
    Cardinality({m \in Msgs : Stranded(m) \/ rows[m] = "dead_letter"}) <= faults

\* The pipeline never rewrites a claim it has committed, and never takes back a
\* row of its audit trail.
CommittedClaimIsFinal ==
    [][\A m \in Msgs : /\ claims[m].status # "none" => claims'[m] = claims[m]
                       /\ audit[m] \subseteq audit'[m]]_<<claims, audit>>

\* An accepted message is finished or given up on, unless a fault stranded it:
\* the loop survives every exception and the container is restarted.
AcceptedIsProcessed ==
    \A m \in Msgs :
        ingest[m] = "accepted" ~> (rows[m] \in Terminal \/ Stranded(m))

\* Seen from outside a report is what its row says until it has a claim, and
\* what the claim says from then on, and moves only as ClaimLifecycle allows,
\* across crashes, a lost commit acknowledgement and the dead letter handler.
Stage == [m \in Msgs |-> IF claims[m].status = "none" THEN rows[m] ELSE claims[m].status]

Lifecycle == INSTANCE ClaimLifecycle
             WITH Reports <- Msgs, MustBeSeen <- Injured, stage <- Stage, contested <- {}

ImplementsLifecycle == Lifecycle!Spec

-----------------------------------------------------------------------------
(* What comments in the code say of the pipeline; see the README.           *)

\* worker/pipeline.py: an extraction failure must not send the claim to
\* dead_letter, and the same rule holds for embedding.
StepFailureKeepsClaim ==
    worker = "handler" => tx.broken = "none"

=============================================================================

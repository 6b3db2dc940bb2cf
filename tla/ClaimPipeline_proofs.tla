------------------------ MODULE ClaimPipeline_proofs ------------------------
(***************************************************************************)
(* Theorems about ClaimPipeline, for every set of messages, every set of    *)
(* model answers and every bound on faults.                                 *)
(***************************************************************************)
EXTENDS ClaimPipeline, FiniteSetTheorems, TLAPS

-----------------------------------------------------------------------------
(* The inductive invariant.                                                 *)

AfterMask     == {"sanity", "classify", "route", "extract", "embed", "gate", "commit"}
AfterClassify == {"route", "extract", "embed", "gate", "commit"}
AfterRoute    == {"extract", "embed", "gate", "commit"}
AfterExtract  == {"embed", "gate", "commit"}
AfterEmbed    == {"gate", "commit"}

Outcomes == {"extraction", "extraction_error", "extraction_skipped"}

\* Nothing of this message has been committed but its row.
Untouched(m) == /\ rows[m] = "received"
                /\ claims[m] = NoClaim
                /\ audit[m] = {}
                /\ m \notin mappings

\* Every id on the list, and the one in the worker's hand, belongs to a
\* different message that nobody has processed: the list delivers at most once.
DeliveryInv ==
    /\ \A i \in 1..Len(queue) :
          /\ Untouched(queue[i])
          /\ ingest[queue[i]] \in {"accepted", "failed"}
          /\ queue[i] # cur
    /\ \A i, j \in 1..Len(queue) : queue[i] = queue[j] => i = j
    /\ \A m \in Msgs : ingest[m] = "idle" => rows[m] = "absent"
    /\ \A m \in Msgs : ingest[m] = "committed" => Untouched(m)
    /\ \A m \in Msgs : rows[m] \in {"absent", "received"} =>
          claims[m] = NoClaim /\ audit[m] = {} /\ m \notin mappings

\* The message in hand was pushed, and is untouched until the commit.
HandInv ==
    /\ worker \in {"idle", "down"} <=> cur = NoMsg
    /\ cur # NoMsg => ingest[cur] \in {"accepted", "failed"}
    /\ worker \notin {"idle", "down", "handler"} => Untouched(cur)
    /\ worker = "handler" => Untouched(cur) \/ cur \in unacked

\* What the session holds after each step.
SessionInv ==
    /\ worker \in {"idle", "load", "down", "mask"} => tx = NewSession /\ draft = NoClaim
    /\ worker \in {"mask", "sanity", "classify", "route"} => draft.status = "none"
    /\ worker \in {"mask", "sanity", "classify", "route", "extract"} =>
          /\ draft.extraction = "none" /\ ~draft.injury
          /\ tx.audit \cap ({"validation"} \cup Outcomes) = {}
    /\ worker \in {"mask", "sanity", "classify", "route", "extract", "embed"} =>
          ~draft.vector /\ "embedding" \notin tx.audit
    /\ worker \in AfterMask =>
          /\ tx.mapped <=> (cur \in Personal /\ draft.text = "masked")
          /\ "masking_error" \in tx.audit <=> draft.text = "raw"
          /\ "pipeline_error" \notin tx.audit
    /\ worker \in AfterClassify =>
          /\ tx.row = "classified"
          /\ cur \in Injured => draft.urgency = "critical"
    /\ worker \in AfterRoute => tx.flushed /\ "routing" \in tx.audit
    /\ worker \in {"extract", "embed", "gate"} => draft.status = "in_human_review"
    /\ worker \in AfterExtract =>
          /\ draft.extraction # "placeholders"
          /\ \E outcome \in Outcomes : tx.audit \cap Outcomes = {outcome}
          /\ "extraction" \in tx.audit <=> draft.extraction # "none"
          /\ "extraction" \in tx.audit => "validation" \in tx.audit
          /\ "extraction_skipped" \in tx.audit <=> draft.content # "claim"
          /\ draft.injury /\ draft.urgency # "critical" => draft.blocked
    /\ worker \in AfterEmbed => ("embedding" \in tx.audit <=> draft.vector)
    /\ worker = "commit" =>
          /\ draft.status \in {"in_human_review", "approved"}
          /\ "auto_approve" \in tx.audit
          /\ draft.status = "approved" => Approvable(draft)

Safety == /\ CommittedTogether
          /\ ExtractionIsUnmasked
          /\ InjuryReachesAPerson
          /\ ApprovedWasChecked
          /\ AuditMatchesClaim

\* A message is in hand whenever the worker is inside process_message.
InHand == worker \notin {"idle", "down"} => cur \in Msgs

\* The 'masked' row status exists in the session only: it is overwritten before
\* anything commits it.
RowClassified == worker \in AfterClassify => tx.row = "classified"

TypeInv == TypeOK /\ InHand /\ RowClassified

IInv == TypeInv /\ DeliveryInv /\ HandInv /\ SessionInv /\ Safety
-----------------------------------------------------------------------------
(* Type correctness.                                                        *)

LEMMA NewSessionType == NewSession \in Session /\ NoClaim \in Claim
BY DEF NewSession, Session, NoClaim, Claim, ContentTypes, Urgencies, AuditSteps

LEMMA InitType == Init => TypeInv
BY NewSessionType, FlagsAssumption
   DEF Init, TypeInv, TypeOK, InHand, RowClassified, AfterClassify, MessageStatus, Phases

\* A step of process_message keeps the session well typed and touches nothing
\* the database has committed.
LEMMA StepType ==
  ASSUME TypeInv,
         NEW from \in Phases \ {"idle", "down"}, NEW to \in Phases,
         NEW session \in Session, NEW claim \in Claim,
         Step(from, to, session, claim), UNCHANGED faults \/ Fault,
         to \in AfterClassify => session.row = "classified"
  PROVE  TypeInv'
BY FlagsAssumption DEF TypeInv, TypeOK, InHand, RowClassified, Step, Fault, db

LEMMA NextType == TypeInv /\ [Next]_vars => TypeInv'
<1> SUFFICES ASSUME TypeInv, [Next]_vars PROVE TypeInv'
  OBVIOUS
<1> USE FlagsAssumption
<1>1. CASE UNCHANGED vars
  BY <1>1 DEF TypeInv, TypeOK, InHand, RowClassified, AfterClassify, vars
<1>2. ASSUME NEW m \in Msgs, Ingest(m) PROVE TypeInv'
  <2>1. CASE IngestCommit(m)
    BY <2>1 DEF TypeInv, TypeOK, InHand, RowClassified, AfterClassify, IngestCommit, MessageStatus
  <2>2. CASE IngestEnqueue(m)
    BY <2>2 DEF TypeInv, TypeOK, InHand, RowClassified, AfterClassify, IngestEnqueue, db
  <2>3. CASE IngestFails(m)
    BY <2>3 DEF TypeInv, TypeOK, InHand, RowClassified, AfterClassify, IngestFails, Fault, db
  <2>. QED BY <1>2, <2>1, <2>2, <2>3 DEF Ingest
<1>3. CASE Take
  BY <1>3 DEF TypeInv, TypeOK, InHand, RowClassified, AfterClassify, Take, db, Phases
<1>4. CASE PopLost
  BY <1>4 DEF TypeInv, TypeOK, InHand, RowClassified, AfterClassify, PopLost, Fault, db
<1>5. CASE Load
  BY <1>5, NewSessionType DEF TypeInv, TypeOK, InHand, RowClassified, AfterClassify, Load, db, Phases
<1>6. CASE LoadFails
  BY <1>6, NewSessionType DEF TypeInv, TypeOK, InHand, RowClassified, AfterClassify, LoadFails, Abandon, Fault, db, Phases
<1>7. CASE StepMask
  <2>1. [draft EXCEPT !.text = "raw"] \in Claim /\ draft \in Claim /\ tx \in Session
    BY DEF TypeInv, TypeOK, Claim
  <2>2. /\ [tx EXCEPT !.row = "masked", !.mapped = cur \in Personal,
                      !.audit = @ \cup {"masking"}] \in Session
        /\ [tx EXCEPT !.row = "masked", !.audit = @ \cup {"masking_error", "masking"}] \in Session
    <3> DEFINE mapped == cur \in Personal
    <3>1. mapped \in BOOLEAN
      OBVIOUS
    <3> HIDE DEF mapped
    <3>2. [tx EXCEPT !.row = "masked", !.mapped = mapped, !.audit = @ \cup {"masking"}] \in Session
      BY <2>1, <3>1 DEF Session, AuditSteps
    <3>. QED BY <2>1, <3>2 DEF Session, AuditSteps, mapped
  <2>3. "mask" \in Phases \ {"idle", "down"} /\ "sanity" \in Phases \ AfterClassify
    BY DEF Phases, AfterClassify
  <2>. QED BY <1>7, <2>1, <2>2, <2>3, StepType DEF StepMask
<1>8. CASE StepMaskSanity
  <2>1. ASSUME NEW flagged \in BOOLEAN
        PROVE  [draft EXCEPT !.flagged = flagged] \in Claim
    BY DEF TypeInv, TypeOK, Claim
  <2>2. PICK leak \in BOOLEAN, flags \in BOOLEAN :
           /\ Step("sanity", "classify", Logged({"masking_sanity"}),
                   [draft EXCEPT !.flagged = SanityFlags(leak, flags)])
           /\ UNCHANGED faults
    BY <1>8 DEF StepMaskSanity
  <2>3. SanityFlags(leak, flags) \in BOOLEAN
    BY DEF SanityFlags
  <2>4. Logged({"masking_sanity"}) \in Session
    BY DEF Session, Logged, AuditSteps, TypeInv, TypeOK
  <2>. QED BY <2>1, <2>2, <2>3, <2>4, StepType DEF Phases, AfterClassify
<1>9. CASE StepClassify
  <2>1. ASSUME NEW content \in ContentTypes, NEW urgency \in Urgencies, NEW step \in AuditSteps,
               Classified(content, urgency, step)
        PROVE  TypeInv'
    <3>1. [draft EXCEPT !.content = content, !.urgency = urgency] \in Claim
      BY DEF TypeInv, TypeOK, Claim
    <3>2. LET session == [tx EXCEPT !.row = "classified", !.audit = @ \cup {step}]
          IN  session \in Session /\ session.row = "classified"
      BY DEF Session, TypeInv, TypeOK
    <3>. QED BY <2>1, <3>1, <3>2, StepType DEF Classified, Phases
  <2>2. CASE \E v \in Verdicts : Classified(v.content, Urgency(cur, v), "classification")
    <3>1. PICK v \in Verdicts : Classified(v.content, Urgency(cur, v), "classification")
      BY <2>2
    <3>2. v.content \in ContentTypes /\ Urgency(cur, v) \in Urgencies
      BY AnswersAssumption DEF Urgency, Urgencies
    <3>. QED BY <2>1, <3>1, <3>2 DEF AuditSteps
  <2>3. CASE Classified("claim", FallbackUrgency(cur), "classification_error")
    BY <2>1, <2>3 DEF FallbackUrgency, Urgencies, ContentTypes, AuditSteps
  <2>. QED BY <1>9, <2>2, <2>3 DEF StepClassify
<1>10. CASE StepRoute
  <2>1. LET session == [tx EXCEPT !.flushed = TRUE, !.audit = @ \cup {"routing"}]
        IN  session \in Session /\ session.row = tx.row
    BY DEF Session, TypeInv, TypeOK, AuditSteps
  <2>2. [draft EXCEPT !.status = "in_human_review"] \in Claim
    BY DEF TypeInv, TypeOK, Claim
  <2>3. worker = "route" => tx.row = "classified"
    BY DEF TypeInv, RowClassified, AfterClassify
  <2>. QED BY <1>10, <2>1, <2>2, <2>3, StepType DEF StepRoute, Step, Phases
<1>11. CASE RouteFails
  BY <1>11, StepType DEF RouteFails, TypeInv, TypeOK, Phases, AfterClassify
<1>12. CASE StepExtract
  <2>1. ASSUME NEW step \in AuditSteps
        PROVE  /\ Logged({step}) \in Session /\ Logged({step}).row = tx.row
               /\ LET session == [tx EXCEPT !.audit = @ \cup {step}, !.broken = "extract"]
                  IN  session \in Session /\ session.row = tx.row
    BY DEF Session, TypeInv, TypeOK, Logged
  <2>2. LET session == Logged({"extraction", "validation"})
        IN  session \in Session /\ session.row = tx.row
    BY DEF Session, TypeInv, TypeOK, Logged, AuditSteps
  <2>3. ASSUME NEW x \in Extractions
        PROVE  [draft EXCEPT !.extraction = ExtractionValues(cur),
                             !.injury     = x.injury,
                             !.unverified = x.unverified,
                             !.blocked    = Blocked(cur, x)] \in Claim
    <3>1. /\ x.injury \in BOOLEAN /\ x.unverified \in BOOLEAN /\ Blocked(cur, x) \in BOOLEAN
          /\ ExtractionValues(cur) \in {"none", "placeholders", "real"}
      BY AnswersAssumption DEF Blocked, ExtractionValues
    <3>2. ASSUME NEW values \in {"none", "placeholders", "real"}, NEW injury \in BOOLEAN,
                 NEW unverified \in BOOLEAN, NEW blocked \in BOOLEAN
          PROVE  [draft EXCEPT !.extraction = values, !.injury = injury,
                               !.unverified = unverified, !.blocked = blocked] \in Claim
      BY DEF TypeInv, TypeOK, Claim
    <3>. QED BY <3>1, <3>2
  <2>4. draft \in Claim /\ (worker = "extract" => tx.row = "classified")
    BY DEF TypeInv, TypeOK, RowClassified, AfterClassify
  <2>5. CASE \E x \in Extractions :
               /\ Step("extract", "embed", Logged({"extraction", "validation"}),
                       [draft EXCEPT !.extraction = ExtractionValues(cur),
                                     !.injury     = x.injury,
                                     !.unverified = x.unverified,
                                     !.blocked    = Blocked(cur, x)])
               /\ UNCHANGED faults
    BY <2>2, <2>3, <2>4, <2>5, StepType DEF Step, Phases
  <2>6. CASE \E step \in AuditSteps :
               /\ Step("extract", "embed", Logged({step}), draft)
               /\ UNCHANGED faults
    BY <2>1, <2>4, <2>6, StepType DEF Step, Phases
  <2>7. CASE /\ Step("extract", "embed",
                     [tx EXCEPT !.audit = @ \cup {"extraction_error"}, !.broken = "extract"], draft)
             /\ Fault
    BY <2>1, <2>4, <2>7, StepType DEF Step, Phases, AuditSteps
  <2>. QED BY <1>12, <2>5, <2>6, <2>7 DEF StepExtract, AuditSteps
<1>13. CASE StepEmbed
  <2>1. /\ Logged({"embedding"}) \in Session /\ Logged({"embedding"}).row = tx.row
        /\ Logged({"embedding_error"}) \in Session /\ Logged({"embedding_error"}).row = tx.row
        /\ LET session == [tx EXCEPT !.audit = @ \cup {"embedding_error"}, !.broken = "embed"]
           IN  session \in Session /\ session.row = tx.row
    BY DEF Session, TypeInv, TypeOK, Logged, AuditSteps
  <2>2. draft \in Claim /\ [draft EXCEPT !.vector = TRUE] \in Claim
    BY DEF TypeInv, TypeOK, Claim
  <2>3. worker = "embed" => tx.row = "classified"
    BY DEF TypeInv, RowClassified, AfterClassify
  <2>. QED BY <1>13, <2>1, <2>2, <2>3, StepType DEF StepEmbed, Step, Phases
<1>14. CASE StepAutoApprove
  <2>1. Logged({"auto_approve"}) \in Session /\ Logged({"auto_approve"}).row = tx.row
    BY DEF Session, TypeInv, TypeOK, Logged, AuditSteps
  <2>2. [draft EXCEPT !.status = IF Approvable(draft) THEN "approved" ELSE @] \in Claim
    BY DEF TypeInv, TypeOK, Claim
  <2>3. worker = "gate" => tx.row = "classified"
    BY DEF TypeInv, RowClassified, AfterClassify
  <2>. QED BY <1>14, <2>1, <2>2, <2>3, StepType DEF StepAutoApprove, Step, Phases
<1>15. ASSUME Applied, cur \in Msgs, worker = "commit"
       PROVE  /\ rows' \in [Msgs -> MessageStatus] /\ mappings' \subseteq Msgs
              /\ claims' \in [Msgs -> Claim] /\ audit' \in [Msgs -> SUBSET AuditSteps]
  <2>1. tx.row \in MessageStatus /\ tx.audit \in SUBSET AuditSteps
    BY <1>15 DEF TypeInv, TypeOK, RowClassified, AfterClassify, Session, MessageStatus
  <2>. QED BY <1>15, <2>1 DEF Applied, TypeInv, TypeOK
<1>16. CASE Commit
  BY <1>15, <1>16, NewSessionType DEF Commit, Abandon, TypeInv, TypeOK, InHand, RowClassified, AfterClassify, Phases
<1>17. CASE CommitFails
  BY <1>17 DEF CommitFails, Fault, TypeInv, TypeOK, InHand, RowClassified, AfterClassify, Phases, db
<1>18. CASE CommitUnacked
  BY <1>15, <1>18 DEF CommitUnacked, Fault, TypeInv, TypeOK, InHand, RowClassified, AfterClassify, Phases
<1>19. CASE DeadLetter
  BY <1>19, NewSessionType
     DEF DeadLetter, Abandon, TypeInv, TypeOK, InHand, RowClassified, AfterClassify, Phases, MessageStatus, AuditSteps
<1>20. CASE DeadLetterFails
  BY <1>20, NewSessionType DEF DeadLetterFails, Abandon, Fault, TypeInv, TypeOK, InHand, RowClassified, AfterClassify, Phases, db
<1>21. CASE Crash
  BY <1>21, NewSessionType DEF Crash, Fault, TypeInv, TypeOK, InHand, RowClassified, AfterClassify, Phases, db
<1>22. CASE Restart
  BY <1>22 DEF Restart, TypeInv, TypeOK, InHand, RowClassified, AfterClassify, Phases, db
<1>. QED
  BY <1>1, <1>2, <1>3, <1>4, <1>5, <1>6, <1>7, <1>8, <1>9, <1>10, <1>11, <1>12, <1>13,
     <1>14, <1>16, <1>17, <1>18, <1>19, <1>20, <1>21, <1>22
     DEF Next, Worker, ProcessMessage

\* Type correctness of the intake path: every variable stays in its range in
\* every reachable state.
THEOREM TypeCorrect == Spec => []TypeOK
<1>1. TypeInv => TypeOK
  BY DEF TypeInv
<1>. QED BY InitType, NextType, <1>1, PTL DEF Spec

-----------------------------------------------------------------------------
(* The inductive invariant: each part, one step per action.                 *)

LEMMA InitInv == Init => IInv
<1> SUFFICES ASSUME Init PROVE IInv
  OBVIOUS
<1>1. TypeInv
  BY InitType
<1>2. DeliveryInv /\ HandInv /\ SessionInv
  BY MsgsAssumption
     DEF Init, DeliveryInv, HandInv, SessionInv, Untouched, AfterMask, AfterClassify,
         AfterRoute, AfterExtract, AfterEmbed
<1>3. Safety
  BY DEF Init, Safety, CommittedTogether, ExtractionIsUnmasked, InjuryReachesAPerson,
         ApprovedWasChecked, AuditMatchesClaim, NoClaim
<1>. QED BY <1>1, <1>2, <1>3 DEF IInv

\* What the safety properties say concerns committed rows only.
LEMMA SafetyStable == Safety /\ UNCHANGED db => Safety'
BY DEF Safety, CommittedTogether, ExtractionIsUnmasked, InjuryReachesAPerson,
       ApprovedWasChecked, AuditMatchesClaim, db

\* A step of process_message leaves the database, the list and the message in
\* hand alone.
LEMMA StepKeeps ==
  ASSUME IInv,
         NEW from \in Phases \ {"idle", "down", "handler"},
         NEW to \in Phases \ {"idle", "down"},
         NEW session, NEW claim, Step(from, to, session, claim)
  PROVE  DeliveryInv' /\ HandInv' /\ Safety'
<1>1. UNCHANGED db /\ UNCHANGED <<ingest, queue, cur>> /\ worker = from /\ worker' = to
  BY DEF Step
<1>2. DeliveryInv'
  BY <1>1 DEF IInv, DeliveryInv, Untouched, db
<1>3. HandInv'
  BY <1>1 DEF IInv, HandInv, Untouched, db
<1>. QED BY <1>1, <1>2, <1>3, SafetyStable DEF IInv

\* Putting the message down: the list, the rows and the requests are as they were.
LEMMA AbandonKeeps ==
  ASSUME IInv, worker' \in {"idle", "down"}, cur' = NoMsg, tx' = NewSession, draft' = NoClaim,
         UNCHANGED <<db, ingest, queue>>
  PROVE  DeliveryInv' /\ HandInv' /\ SessionInv' /\ Safety'
<1>1. DeliveryInv'
  BY MsgsAssumption DEF IInv, TypeInv, TypeOK, DeliveryInv, Untouched, db
<1>2. HandInv'
  BY DEF IInv, HandInv
<1>3. SessionInv'
  BY DEF SessionInv, AfterMask, AfterClassify, AfterRoute, AfterExtract, AfterEmbed
<1>. QED BY <1>1, <1>2, <1>3, SafetyStable DEF IInv

LEMMA SessionStep == IInv /\ ProcessMessage /\ worker' \notin {"idle", "down"} => SessionInv'
<1> SUFFICES ASSUME IInv, ProcessMessage, worker' \notin {"idle", "down"} PROVE SessionInv'
  OBVIOUS
<1> USE DEF AfterMask, AfterClassify, AfterRoute, AfterExtract, AfterEmbed
<1>0. tx \in Session /\ draft \in Claim /\ SessionInv
  BY DEF IInv, TypeInv, TypeOK
<1>1. CASE Load
  BY <1>1 DEF Load, SessionInv, NewSession, NoClaim, Outcomes
<1>2. CASE StepMask
  <2>1. CASE Step("mask", "sanity",
                  [tx EXCEPT !.row = "masked", !.mapped = cur \in Personal,
                             !.audit = @ \cup {"masking"}], draft)
    <3>1. /\ tx'.mapped <=> cur \in Personal
          /\ tx'.audit = tx.audit \cup {"masking"} /\ draft' = draft
      BY <1>0, <2>1 DEF Step, Session
    <3>2. tx.audit = {} /\ draft = NoClaim
      BY <1>0, <2>1 DEF Step, SessionInv, NewSession
    <3>. QED BY <2>1, <3>1, <3>2 DEF Step, SessionInv, NoClaim, Outcomes
  <2>2. CASE Step("mask", "sanity",
                  [tx EXCEPT !.row = "masked", !.audit = @ \cup {"masking_error", "masking"}],
                  [draft EXCEPT !.text = "raw"])
    <3>1. /\ tx'.mapped = tx.mapped /\ tx'.audit = tx.audit \cup {"masking_error", "masking"}
          /\ draft'.text = "raw" /\ draft'.status = draft.status
          /\ draft'.extraction = draft.extraction /\ draft'.injury = draft.injury
          /\ draft'.vector = draft.vector
      BY <1>0, <2>2 DEF Step, Session, Claim
    <3>2. ~tx.mapped /\ tx.audit = {} /\ draft = NoClaim
      BY <1>0, <2>2 DEF Step, SessionInv, NewSession
    <3>. QED BY <2>2, <3>1, <3>2 DEF Step, SessionInv, NoClaim, Outcomes
  <2>. QED BY <1>2, <2>1, <2>2 DEF StepMask
<1>3. CASE StepMaskSanity
  <2>1. PICK flagged :
           Step("sanity", "classify", Logged({"masking_sanity"}), [draft EXCEPT !.flagged = flagged])
    BY <1>3 DEF StepMaskSanity
  <2>2. /\ tx'.mapped = tx.mapped /\ tx'.audit = tx.audit \cup {"masking_sanity"}
        /\ draft'.text = draft.text /\ draft'.status = draft.status
        /\ draft'.extraction = draft.extraction /\ draft'.injury = draft.injury
        /\ draft'.vector = draft.vector
    BY <1>0, <2>1 DEF Step, Logged, Session, Claim
  <2>. QED BY <1>0, <2>1, <2>2 DEF Step, SessionInv, Outcomes
<1>4. CASE StepClassify
  <2>1. PICK content \in ContentTypes, urgency \in Urgencies,
             step \in {"classification", "classification_error"} :
           /\ Classified(content, urgency, step)
           /\ cur \in Injured => urgency = "critical"
    <3>1. CASE \E v \in Verdicts : Classified(v.content, Urgency(cur, v), "classification")
      <4>1. PICK v \in Verdicts : Classified(v.content, Urgency(cur, v), "classification")
        BY <3>1
      <4>2. /\ v.content \in ContentTypes /\ Urgency(cur, v) \in Urgencies
            /\ cur \in Injured => Urgency(cur, v) = "critical"
        BY AnswersAssumption DEF Urgency, Urgencies
      <4>. QED BY <4>1, <4>2
    <3>2. CASE Classified("claim", FallbackUrgency(cur), "classification_error")
      <4>1. /\ "claim" \in ContentTypes /\ FallbackUrgency(cur) \in Urgencies
            /\ cur \in Injured => FallbackUrgency(cur) = "critical"
        BY DEF ContentTypes, FallbackUrgency, Urgencies
      <4>. QED BY <3>2, <4>1
    <3>. QED BY <1>4, <3>1, <3>2 DEF StepClassify
  <2>2. /\ tx'.row = "classified" /\ tx'.mapped = tx.mapped /\ tx'.audit = tx.audit \cup {step}
        /\ draft'.urgency = urgency /\ draft'.text = draft.text /\ draft'.status = draft.status
        /\ draft'.extraction = draft.extraction /\ draft'.injury = draft.injury
        /\ draft'.vector = draft.vector
    BY <1>0, <2>1 DEF Classified, Step, Session, Claim
  <2>. QED BY <1>0, <2>1, <2>2 DEF Classified, Step, SessionInv, Outcomes
<1>5. CASE StepRoute
  <2>1. /\ tx'.row = tx.row /\ tx'.mapped = tx.mapped /\ tx'.audit = tx.audit \cup {"routing"}
        /\ tx'.flushed = TRUE
        /\ draft'.urgency = draft.urgency /\ draft'.text = draft.text
        /\ draft'.status = "in_human_review"
        /\ draft'.extraction = draft.extraction /\ draft'.injury = draft.injury
        /\ draft'.vector = draft.vector
    BY <1>0, <1>5 DEF StepRoute, Step, Session, Claim
  <2>. QED BY <1>0, <1>5, <2>1 DEF StepRoute, Step, SessionInv, Outcomes
<1>6. CASE RouteFails
  BY <1>0, <1>6 DEF RouteFails, Step, SessionInv
<1>7. CASE StepExtract
  \* What every branch keeps.
  <2>1. ASSUME NEW steps \in SUBSET AuditSteps, NEW broken,
               tx' = Logged(steps) \/ tx' = [tx EXCEPT !.audit = @ \cup steps, !.broken = broken]
        PROVE  /\ tx'.row = tx.row /\ tx'.mapped = tx.mapped /\ tx'.flushed = tx.flushed
               /\ tx'.audit = tx.audit \cup steps
    BY <1>0, <2>1 DEF Logged, Session
  <2>2. CASE \E x \in Extractions :
               /\ Step("extract", "embed", Logged({"extraction", "validation"}),
                       [draft EXCEPT !.extraction = ExtractionValues(cur),
                                     !.injury     = x.injury,
                                     !.unverified = x.unverified,
                                     !.blocked    = Blocked(cur, x)])
               /\ draft.content = "claim"
    <3>1. PICK x \in Extractions :
               /\ Step("extract", "embed", Logged({"extraction", "validation"}),
                       [draft EXCEPT !.extraction = ExtractionValues(cur),
                                     !.injury     = x.injury,
                                     !.unverified = x.unverified,
                                     !.blocked    = Blocked(cur, x)])
               /\ draft.content = "claim"
      BY <2>2
    <3>2. /\ tx'.row = tx.row /\ tx'.mapped = tx.mapped /\ tx'.flushed = tx.flushed
          /\ tx'.audit = tx.audit \cup {"extraction", "validation"}
      BY <2>1, <3>1 DEF Step, AuditSteps
    <3>3. /\ draft'.urgency = draft.urgency /\ draft'.text = draft.text
          /\ draft'.status = draft.status /\ draft'.content = draft.content
          /\ draft'.vector = draft.vector /\ draft'.extraction = ExtractionValues(cur)
      BY <1>0, <3>1 DEF Step, Claim
    <3>4. draft'.injury /\ draft'.urgency # "critical" => draft'.blocked
      <4>1. ASSUME NEW injury, NEW unverified, NEW blocked, NEW values,
                   draft' = [draft EXCEPT !.extraction = values, !.injury = injury,
                                          !.unverified = unverified, !.blocked = blocked]
            PROVE  draft'.injury = injury /\ draft'.blocked = blocked
        BY <1>0, <4>1 DEF Claim
      <4>2. draft'.injury = x.injury /\ draft'.blocked = Blocked(cur, x)
        BY <3>1, <4>1 DEF Step
      <4>. QED BY <3>3, <4>2 DEF Blocked
    <3>5. ExtractionValues(cur) = "real"
      BY <1>0, <3>1 DEF Step, SessionInv, ExtractionValues, MappingsVisible
    <3>. QED BY <1>0, <3>1, <3>2, <3>3, <3>4, <3>5 DEF Step, SessionInv, Outcomes
  <2>3. CASE \E outcome \in {"extraction_error", "extraction_skipped"}, broken \in {"extract"} :
               /\ Step("extract", "embed", tx', draft)
               /\ outcome = "extraction_skipped" <=> draft.content # "claim"
               /\ \/ tx' = Logged({outcome})
                  \/ tx' = [tx EXCEPT !.audit = @ \cup {outcome}, !.broken = broken]
    <3>1. PICK outcome \in {"extraction_error", "extraction_skipped"}, broken \in {"extract"} :
               /\ Step("extract", "embed", tx', draft)
               /\ outcome = "extraction_skipped" <=> draft.content # "claim"
               /\ \/ tx' = Logged({outcome})
                  \/ tx' = [tx EXCEPT !.audit = @ \cup {outcome}, !.broken = broken]
      BY <2>3
    <3>2. /\ tx'.row = tx.row /\ tx'.mapped = tx.mapped /\ tx'.flushed = tx.flushed
          /\ tx'.audit = tx.audit \cup {outcome}
      BY <2>1, <3>1 DEF AuditSteps
    <3>. QED BY <1>0, <3>1, <3>2 DEF Step, SessionInv, Outcomes
  <2>. QED BY <1>7, <2>2, <2>3 DEF StepExtract, Step
<1>8. CASE StepEmbed
  <2>1. CASE Step("embed", "gate", Logged({"embedding"}), [draft EXCEPT !.vector = TRUE])
    <3>1. /\ tx'.row = tx.row /\ tx'.mapped = tx.mapped /\ tx'.flushed = tx.flushed
          /\ tx'.audit = tx.audit \cup {"embedding"}
      BY <1>0, <2>1 DEF Step, Logged, Session
    <3>2. /\ draft' = [draft EXCEPT !.vector = draft'.vector] /\ draft'.vector = TRUE
          /\ draft'.urgency = draft.urgency /\ draft'.text = draft.text
          /\ draft'.status = draft.status /\ draft'.content = draft.content
          /\ draft'.extraction = draft.extraction /\ draft'.injury = draft.injury
          /\ draft'.blocked = draft.blocked
      BY <1>0, <2>1 DEF Step, Claim
    <3>. QED BY <1>0, <2>1, <3>1, <3>2 DEF Step, SessionInv, Outcomes
  <2>2. CASE /\ Step("embed", "gate", tx', draft)
             /\ \/ tx' = Logged({"embedding_error"})
                \/ tx' = [tx EXCEPT !.audit = @ \cup {"embedding_error"}, !.broken = "embed"]
    <3>1. /\ tx'.row = tx.row /\ tx'.mapped = tx.mapped /\ tx'.flushed = tx.flushed
          /\ tx'.audit = tx.audit \cup {"embedding_error"}
      BY <1>0, <2>2 DEF Step, Logged, Session
    <3>. QED BY <1>0, <2>2, <3>1 DEF Step, SessionInv, Outcomes
  <2>. QED BY <1>8, <2>1, <2>2 DEF StepEmbed, Step
<1>9. CASE StepAutoApprove
  <2>1. /\ tx'.row = tx.row /\ tx'.mapped = tx.mapped /\ tx'.audit = tx.audit \cup {"auto_approve"}
        /\ tx'.flushed = tx.flushed
        /\ draft' = [draft EXCEPT !.status = draft'.status]
        /\ draft'.status = IF Approvable(draft) THEN "approved" ELSE draft.status
    BY <1>0, <1>9 DEF StepAutoApprove, Logged, Step, Session, Claim
  <2>. QED BY <1>0, <1>9, <2>1 DEF StepAutoApprove, Step, SessionInv, Outcomes, Claim, Approvable
<1>10. CASE CommitFails \/ CommitUnacked
  BY <1>0, <1>10 DEF CommitFails, CommitUnacked, SessionInv
<1>. QED
  BY <1>1, <1>2, <1>3, <1>4, <1>5, <1>6, <1>7, <1>8, <1>9, <1>10
     DEF ProcessMessage, LoadFails, Commit, DeadLetter, DeadLetterFails, Abandon

\* A commit of the session, acknowledged or not, gives the message in hand its
\* claim, its trail and its mapping rows at once.
LEMMA AppliedSafe ==
  ASSUME IInv, worker = "commit", Applied, unacked \subseteq unacked'
  PROVE  /\ Safety'
         /\ rows' = [rows EXCEPT ![cur] = "classified"]
         /\ \A m \in Msgs \ {cur} : /\ claims'[m] = claims[m] /\ audit'[m] = audit[m]
                                    /\ m \in mappings' <=> m \in mappings
<1> USE DEF AfterMask, AfterClassify, AfterRoute, AfterExtract, AfterEmbed
<1>1. /\ cur \in Msgs /\ Untouched(cur) /\ tx \in Session /\ draft \in Claim /\ TypeOK
      /\ SessionInv /\ Safety
  BY DEF IInv, TypeInv, TypeOK, InHand, HandInv
<1>2. /\ rows' = [rows EXCEPT ![cur] = "classified"]
      /\ \A m \in Msgs \ {cur} : /\ claims'[m] = claims[m] /\ audit'[m] = audit[m]
                                 /\ rows'[m] = rows[m]
                                 /\ m \in mappings' <=> m \in mappings
  BY <1>1 DEF Applied, SessionInv, TypeOK
<1>3. /\ claims'[cur] = draft /\ audit'[cur] = tx.audit /\ rows'[cur] = "classified"
      /\ cur \in mappings' <=> tx.mapped
  BY <1>1 DEF Applied, SessionInv, TypeOK, Untouched
<1>4. /\ draft.status \in {"in_human_review", "approved"}
      /\ {"routing", "auto_approve"} \subseteq tx.audit
      /\ draft.extraction # "placeholders"
      /\ cur \in Injured => draft.urgency = "critical"
      /\ draft.status = "approved" => Approvable(draft)
      /\ draft.injury /\ draft.urgency # "critical" => draft.blocked
      /\ "extraction" \in tx.audit <=> draft.extraction # "none"
      /\ "extraction_skipped" \in tx.audit <=> draft.content # "claim"
      /\ "extraction" \in tx.audit => "validation" \in tx.audit
      /\ \E outcome \in Outcomes : tx.audit \cap Outcomes = {outcome}
      /\ "embedding" \in tx.audit <=> draft.vector
      /\ "masking_error" \in tx.audit <=> draft.text = "raw"
      /\ tx.mapped <=> (cur \in Personal /\ draft.text = "masked")
  BY <1>1 DEF SessionInv
<1>5. CommittedTogether'
  BY <1>1, <1>2, <1>3, <1>4 DEF Safety, CommittedTogether
<1>6. ExtractionIsUnmasked'
  BY <1>1, <1>2, <1>3, <1>4 DEF Safety, ExtractionIsUnmasked
<1>7. InjuryReachesAPerson'
  BY <1>1, <1>2, <1>3, <1>4 DEF Safety, InjuryReachesAPerson, Approvable
<1>8. ApprovedWasChecked'
  <2>1. draft.status = "approved" =>
           /\ {"extraction", "validation", "auto_approve"} \subseteq tx.audit
           /\ tx.audit \cap {"extraction_error", "extraction_skipped"} = {}
    BY <1>4 DEF Approvable, Outcomes
  <2>. QED BY <1>1, <1>2, <1>3, <2>1 DEF Safety, ApprovedWasChecked
<1>9. AuditMatchesClaim'
  <2>1. ASSUME NEW m \in Msgs, m # cur PROVE AuditMatchesClaim!(m)'
    BY <1>1, <1>2, <2>1 DEF Safety, AuditMatchesClaim
  <2>2. ASSUME NEW m \in Msgs, m = cur PROVE AuditMatchesClaim!(m)'
    BY <1>3, <1>4, <2>2 DEF Outcomes
  <2>. QED BY <2>1, <2>2 DEF AuditMatchesClaim
<1>. QED BY <1>2, <1>5, <1>6, <1>7, <1>8, <1>9 DEF Safety

\* The dead letter handler touches a message that has nothing but its row, or one
\* whose commit was applied without an answer.
LEMMA DeadLetterSafe == IInv /\ DeadLetter => Safety'
<1> SUFFICES ASSUME IInv, DeadLetter PROVE Safety'
  OBVIOUS
<1>1. /\ cur \in Msgs /\ TypeOK /\ Safety /\ (Untouched(cur) \/ cur \in unacked)
  BY DEF IInv, TypeInv, InHand, HandInv, DeadLetter
<1>2. /\ \A m \in Msgs \ {cur} : audit'[m] = audit[m] /\ rows'[m] = rows[m]
      /\ audit'[cur] = audit[cur] \cup {"pipeline_error"} /\ rows'[cur] = "dead_letter"
      /\ claims' = claims /\ mappings' = mappings /\ unacked' = unacked
  BY <1>1 DEF DeadLetter, TypeOK
<1>3. CommittedTogether'
  BY <1>1, <1>2 DEF Safety, CommittedTogether, Untouched
<1>4. ExtractionIsUnmasked' /\ InjuryReachesAPerson'
  BY <1>1, <1>2 DEF Safety, ExtractionIsUnmasked, InjuryReachesAPerson
<1>5. ApprovedWasChecked'
  BY <1>1, <1>2 DEF Safety, ApprovedWasChecked
<1>6. AuditMatchesClaim'
  BY <1>1, <1>2 DEF Safety, AuditMatchesClaim
<1>. QED BY <1>3, <1>4, <1>5, <1>6 DEF Safety

\* POST /ingest: the row first, then the list.
LEMMA IngestKeeps ==
  ASSUME IInv, NEW m \in Msgs, Ingest(m)
  PROVE  DeliveryInv' /\ HandInv' /\ SessionInv' /\ Safety'
<1>0. TypeOK /\ DeliveryInv /\ HandInv /\ SessionInv /\ Safety
  BY DEF IInv, TypeInv
<1>1. CASE IngestCommit(m)
  <2>1. /\ rows[m] = "absent" /\ m # cur /\ \A i \in 1..Len(queue) : queue[i] # m
        /\ claims[m] = NoClaim /\ audit[m] = {} /\ m \notin mappings
    <3>1. ingest[m] = "idle" /\ m # NoMsg /\ \A i \in 1..Len(queue) : queue[i] \in Msgs
      BY <1>0, <1>1, MsgsAssumption DEF IngestCommit, TypeOK
    <3>2. m # cur /\ \A i \in 1..Len(queue) : queue[i] # m
      BY <1>0, <3>1 DEF DeliveryInv, HandInv
    <3>. QED BY <1>0, <3>1, <3>2 DEF DeliveryInv
  <2>2. /\ rows'[m] = "received" /\ ingest'[m] = "committed"
        /\ \A k \in Msgs \ {m} : rows'[k] = rows[k] /\ ingest'[k] = ingest[k]
        /\ UNCHANGED <<mappings, claims, audit, unacked, queue, worker, cur, tx, draft>>
    BY <1>0, <1>1 DEF IngestCommit, TypeOK
  <2>3. DeliveryInv'
    BY <1>0, <2>1, <2>2 DEF DeliveryInv, Untouched, TypeOK
  <2>4. HandInv'
    BY <1>0, <2>1, <2>2 DEF HandInv, Untouched, TypeOK
  <2>5. SessionInv'
    BY <1>0, <2>2 DEF SessionInv
  <2>6. Safety'
    BY <1>0, <2>1, <2>2 DEF Safety, CommittedTogether, ExtractionIsUnmasked,
       InjuryReachesAPerson, ApprovedWasChecked, AuditMatchesClaim
  <2>. QED BY <2>3, <2>4, <2>5, <2>6
<1>2. CASE IngestEnqueue(m) \/ IngestFails(m)
  <2>1. /\ ingest[m] = "committed" /\ ingest'[m] \in {"accepted", "failed"}
        /\ \A k \in Msgs \ {m} : ingest'[k] = ingest[k]
        /\ UNCHANGED <<db, worker, cur, tx, draft>>
        /\ queue' = queue \/ queue' = Append(queue, m)
    BY <1>0, <1>2 DEF IngestEnqueue, IngestFails, TypeOK
  <2>2. m # cur /\ Untouched(m) /\ \A i \in 1..Len(queue) : queue[i] # m
    <3>1. m # NoMsg /\ \A i \in 1..Len(queue) : queue[i] \in Msgs
      BY <1>0, MsgsAssumption DEF TypeOK
    <3>. QED BY <1>0, <2>1, <3>1 DEF DeliveryInv, HandInv
  <2>3. DeliveryInv'
    <3>1. CASE queue' = queue
      BY <1>0, <2>1, <2>2, <3>1 DEF DeliveryInv, Untouched, TypeOK, db
    <3>2. CASE queue' = Append(queue, m)
      <4>1. /\ Len(queue') = Len(queue) + 1 /\ Len(queue) \in Nat
            /\ queue'[Len(queue) + 1] = m
            /\ \A i \in 1..Len(queue) : queue'[i] = queue[i]
        BY <1>0, <3>2 DEF TypeOK
      <4>2. \A i \in 1..Len(queue') : i \in 1..Len(queue) \/ i = Len(queue) + 1
        BY <4>1
      <4>3. \A i \in 1..Len(queue) : queue[i] \in Msgs
        BY <1>0 DEF TypeOK
      <4>4. \A k \in Msgs : Untouched(k) => Untouched(k)'
        BY <2>1 DEF Untouched, db
      <4>5. ASSUME NEW i \in 1..Len(queue'), NEW k, k = queue'[i]
            PROVE  k \in Msgs /\ Untouched(k)' /\ ingest'[k] \in {"accepted", "failed"} /\ k # cur'
        <5>1. CASE i \in 1..Len(queue)
          BY <1>0, <2>1, <2>2, <4>1, <4>3, <4>4, <4>5, <5>1 DEF DeliveryInv
        <5>2. CASE i = Len(queue) + 1
          BY <2>1, <2>2, <4>1, <4>4, <4>5, <5>2
        <5>. QED BY <4>2, <5>1, <5>2
      <4>6. \A i, j \in 1..Len(queue') : queue'[i] = queue'[j] => i = j
        BY <1>0, <2>2, <4>1, <4>2 DEF DeliveryInv
      <4>7. \A k \in Msgs : /\ ingest'[k] = "idle" => rows'[k] = "absent"
                            /\ ingest'[k] = "committed" => Untouched(k)'
                            /\ rows'[k] \in {"absent", "received"} =>
                                  claims'[k] = NoClaim /\ audit'[k] = {} /\ k \notin mappings'
        BY <1>0, <2>1, <4>4 DEF DeliveryInv, db
      <4>. QED BY <4>5, <4>6, <4>7 DEF DeliveryInv, Untouched
    <3>. QED BY <2>1, <3>1, <3>2
  <2>4. HandInv'
    BY <1>0, <2>1, <2>2 DEF HandInv, Untouched, TypeOK, db
  <2>5. SessionInv'
    BY <1>0, <2>1 DEF SessionInv
  <2>6. Safety'
    BY <1>0, <2>1, SafetyStable
  <2>. QED BY <2>3, <2>4, <2>5, <2>6
<1>. QED BY <1>1, <1>2 DEF Ingest

\* BRPOP, answered or not.
LEMMA PopKeeps ==
  ASSUME IInv, Take \/ PopLost
  PROVE  DeliveryInv' /\ HandInv' /\ SessionInv' /\ Safety'
<1>0. TypeOK /\ DeliveryInv /\ HandInv /\ SessionInv /\ Safety
  BY DEF IInv, TypeInv
<1>1. /\ queue' = Tail(queue) /\ worker = "idle" /\ cur = NoMsg
      /\ \/ worker' = "load" /\ cur' = queue[1]
         \/ worker' = "idle" /\ cur' = NoMsg
      /\ UNCHANGED <<db, ingest, tx, draft>>
  BY <1>0 DEF Take, PopLost, HandInv, TypeOK
<1>2. queue # <<>>
  BY DEF Take, PopLost
<1>3. /\ Len(queue) \in Nat /\ 1 \in 1..Len(queue) /\ Len(queue') = Len(queue) - 1
      /\ \A i \in 1..Len(queue') : i + 1 \in 1..Len(queue) /\ queue'[i] = queue[i + 1]
      /\ \A i \in 1..Len(queue) : queue[i] \in Msgs
  BY <1>0, <1>1, <1>2 DEF TypeOK
<1>4. \A k \in Msgs : Untouched(k) => Untouched(k)'
  BY <1>1 DEF Untouched, db
<1>5. ASSUME NEW i \in 1..Len(queue'), NEW k, k = queue'[i]
      PROVE  k \in Msgs /\ Untouched(k)' /\ ingest'[k] \in {"accepted", "failed"} /\ k # cur'
  <2>1. i + 1 \in 1..Len(queue) /\ k = queue[i + 1] /\ k \in Msgs /\ i + 1 # 1
    BY <1>3, <1>5
  <2>2. k # queue[1]
    BY <1>0, <1>3, <2>1 DEF DeliveryInv
  <2>3. Untouched(k) /\ ingest[k] \in {"accepted", "failed"}
    BY <1>0, <2>1 DEF DeliveryInv
  <2>. QED BY <1>1, <1>4, <2>1, <2>2, <2>3, MsgsAssumption
<1>6. \A i, j \in 1..Len(queue') : queue'[i] = queue'[j] => i = j
  BY <1>0, <1>3 DEF DeliveryInv
<1>7. \A k \in Msgs : /\ ingest'[k] = "idle" => rows'[k] = "absent"
                      /\ ingest'[k] = "committed" => Untouched(k)'
                      /\ rows'[k] \in {"absent", "received"} =>
                            claims'[k] = NoClaim /\ audit'[k] = {} /\ k \notin mappings'
  BY <1>0, <1>1, <1>4 DEF DeliveryInv, db
<1>8. DeliveryInv'
  BY <1>5, <1>6, <1>7 DEF DeliveryInv, Untouched
<1>9. HandInv'
  <2>1. queue[1] \in Msgs /\ Untouched(queue[1]) /\ ingest[queue[1]] \in {"accepted", "failed"}
    BY <1>0, <1>3 DEF DeliveryInv
  <2>. QED BY <1>1, <2>1, MsgsAssumption DEF HandInv, Untouched, db
<1>10. SessionInv'
  BY <1>0, <1>1 DEF SessionInv, AfterMask, AfterClassify, AfterRoute, AfterExtract, AfterEmbed
<1>. QED BY <1>0, <1>1, <1>8, <1>9, <1>10, SafetyStable

\* The message in hand is on no list, so giving it a final row disturbs nobody.
LEMMA FinalRowKeeps ==
  ASSUME IInv, cur \in Msgs, UNCHANGED <<ingest, queue>>, cur' \in {cur, NoMsg},
         rows'[cur] \in Terminal, ingest[cur] \in {"accepted", "failed"},
         \A m \in Msgs \ {cur} :
            /\ rows'[m] = rows[m] /\ claims'[m] = claims[m] /\ audit'[m] = audit[m]
            /\ m \in mappings' <=> m \in mappings
  PROVE  DeliveryInv'
<1>0. DeliveryInv /\ NoMsg \notin Msgs
  BY MsgsAssumption DEF IInv
<1>1. \A i \in 1..Len(queue) : queue[i] \in Msgs \ {cur}
  BY <1>0 DEF IInv, TypeInv, TypeOK, DeliveryInv
<1>2. \A m \in Msgs \ {cur} : Untouched(m) => Untouched(m)'
  BY DEF Untouched
<1>3. \A i \in 1..Len(queue) : Untouched(queue[i])'
  BY <1>0, <1>1 DEF DeliveryInv, Untouched
<1>4. \A i \in 1..Len(queue) : ingest[queue[i]] \in {"accepted", "failed"} /\ queue[i] # cur'
  BY <1>0, <1>1 DEF DeliveryInv
<1>5. \A m \in Msgs : /\ ingest'[m] = "idle" => rows'[m] = "absent"
                      /\ ingest'[m] = "committed" => Untouched(m)'
                      /\ rows'[m] \in {"absent", "received"} =>
                            claims'[m] = NoClaim /\ audit'[m] = {} /\ m \notin mappings'
  BY <1>0, <1>2 DEF DeliveryInv, Terminal
<1>. QED BY <1>0, <1>3, <1>4, <1>5 DEF DeliveryInv, Untouched

LEMMA NextInv == IInv /\ [Next]_vars => IInv'
<1> SUFFICES ASSUME IInv, [Next]_vars PROVE DeliveryInv' /\ HandInv' /\ SessionInv' /\ Safety'
  BY NextType DEF IInv
<1>0. TypeOK /\ InHand /\ HandInv /\ SessionInv /\ Safety
  BY DEF IInv, TypeInv
<1>1. CASE UNCHANGED vars
  <2>1. DeliveryInv' /\ HandInv' /\ SessionInv'
    BY <1>1 DEF IInv, DeliveryInv, HandInv, SessionInv, Untouched, vars
  <2>. QED BY <1>1, <2>1, SafetyStable DEF IInv, vars, db
<1>2. CASE \E m \in Msgs : Ingest(m)
  BY <1>2, IngestKeeps
<1>3. CASE Take \/ PopLost
  BY <1>3, PopKeeps
<1>4. CASE Load
  <2>1. DeliveryInv' /\ HandInv'
    BY <1>4 DEF Load, IInv, DeliveryInv, HandInv, Untouched, db
  <2>. QED BY <1>0, <1>4, <2>1, SafetyStable, SessionStep DEF Load, ProcessMessage
<1>5. CASE LoadFails \/ DeadLetterFails \/ Crash
  BY <1>5, AbandonKeeps DEF LoadFails, DeadLetterFails, Crash, Abandon
<1>6. CASE \/ StepMask \/ StepMaskSanity \/ StepClassify \/ StepRoute \/ RouteFails
           \/ StepExtract \/ StepEmbed \/ StepAutoApprove
  <2>1. \E from \in Phases \ {"idle", "down", "handler"}, to \in Phases \ {"idle", "down"} :
           Step(from, to, tx', draft')
    BY <1>6 DEF StepMask, StepMaskSanity, StepClassify, Classified, StepRoute, RouteFails,
                StepExtract, StepEmbed, StepAutoApprove, Step, Phases
  <2>2. DeliveryInv' /\ HandInv' /\ Safety'
    BY <2>1, StepKeeps
  <2>3. worker' \notin {"idle", "down"}
    BY <2>1 DEF Step
  <2>. QED BY <1>6, <2>2, <2>3, SessionStep DEF ProcessMessage
<1>7. CASE Commit
  <2>1. Safety' /\ rows' = [rows EXCEPT ![cur] = "classified"]
        /\ \A m \in Msgs \ {cur} : /\ claims'[m] = claims[m] /\ audit'[m] = audit[m]
                                   /\ m \in mappings' <=> m \in mappings
    BY <1>7, AppliedSafe DEF Commit
  <2>2. cur \in Msgs /\ cur # NoMsg /\ ingest[cur] \in {"accepted", "failed"}
    BY <1>0, <1>7, MsgsAssumption DEF Commit, InHand, HandInv
  <2>3. DeliveryInv'
    BY <1>0, <1>7, <2>1, <2>2, FinalRowKeeps DEF Commit, Abandon, Terminal, TypeOK
  <2>4. HandInv' /\ SessionInv'
    BY <1>7 DEF Commit, Abandon, HandInv, SessionInv, AfterMask, AfterClassify, AfterRoute,
                AfterExtract, AfterEmbed
  <2>. QED BY <2>1, <2>3, <2>4
<1>8. CASE CommitUnacked
  <2>1. Safety' /\ rows' = [rows EXCEPT ![cur] = "classified"]
        /\ \A m \in Msgs \ {cur} : /\ claims'[m] = claims[m] /\ audit'[m] = audit[m]
                                   /\ m \in mappings' <=> m \in mappings
    BY <1>8, AppliedSafe DEF CommitUnacked
  <2>2. cur \in Msgs /\ cur # NoMsg /\ ingest[cur] \in {"accepted", "failed"}
    BY <1>0, <1>8, MsgsAssumption DEF CommitUnacked, InHand, HandInv
  <2>3. DeliveryInv'
    BY <1>0, <1>8, <2>1, <2>2, FinalRowKeeps DEF CommitUnacked, Terminal, TypeOK
  <2>4. HandInv'
    BY <1>8, <2>2 DEF CommitUnacked, HandInv
  <2>. QED BY <1>8, <2>1, <2>3, <2>4, SessionStep DEF CommitUnacked, ProcessMessage
<1>9. CASE CommitFails
  <2>1. DeliveryInv' /\ HandInv'
    BY <1>9 DEF CommitFails, IInv, DeliveryInv, HandInv, Untouched, db
  <2>. QED BY <1>0, <1>9, <2>1, SafetyStable, SessionStep DEF CommitFails, ProcessMessage
<1>10. CASE DeadLetter
  <2>1. cur \in Msgs /\ ingest[cur] \in {"accepted", "failed"}
    BY <1>0, <1>10, MsgsAssumption DEF DeadLetter, InHand, HandInv
  <2>2. DeliveryInv'
    BY <1>0, <1>10, <2>1, FinalRowKeeps DEF DeadLetter, Abandon, Terminal, TypeOK
  <2>3. HandInv' /\ SessionInv'
    BY <1>10 DEF DeadLetter, Abandon, HandInv, SessionInv, AfterMask, AfterClassify, AfterRoute,
                 AfterExtract, AfterEmbed
  <2>. QED BY <1>10, <2>2, <2>3, DeadLetterSafe
<1>11. CASE Restart
  <2>1. DeliveryInv' /\ HandInv' /\ SessionInv'
    BY <1>11 DEF Restart, IInv, DeliveryInv, HandInv, SessionInv, Untouched, db, AfterMask,
                 AfterClassify, AfterRoute, AfterExtract, AfterEmbed
  <2>. QED BY <1>0, <1>11, <2>1, SafetyStable DEF Restart
<1>. QED
  BY <1>1, <1>2, <1>3, <1>4, <1>5, <1>6, <1>7, <1>8, <1>9, <1>10, <1>11
     DEF Next, Worker, ProcessMessage

THEOREM Invariance == Spec => []IInv
BY InitInv, NextInv, PTL DEF Spec

-----------------------------------------------------------------------------
(* The results.                                                             *)

\* process_message commits everything or nothing.
THEOREM CommitIsAtomic == Spec => []CommittedTogether
BY Invariance, PTL DEF IInv, Safety

\* The fields of a committed claim are real values: step_extract's query sees
\* the mapping rows because step_route has flushed them.
THEOREM UnmaskedBeforeStored == Spec => []ExtractionIsUnmasked
BY Invariance, PTL DEF IInv, Safety

\* A reported injury is critical and waits for a person, whatever failed.
THEOREM InjuryReaches == Spec => []InjuryReachesAPerson
BY Invariance, PTL DEF IInv, Safety

\* The gate approves nothing that was not extracted and validated.
THEOREM ApprovalIsEarned == Spec => []ApprovedWasChecked
BY Invariance, PTL DEF IInv, Safety

\* The trail of a claim is the trail of what the claim holds.
THEOREM TrailIsTrue == Spec => []AuditMatchesClaim
BY Invariance, PTL DEF IInv, Safety

\* Only an untouched message reaches the commit, so no claim is written twice,
\* and no step removes an audit row.
THEOREM ClaimsAreFinal == Spec => CommittedClaimIsFinal
<1> DEFINE Final == \A m \in Msgs : /\ claims[m].status # "none" => claims'[m] = claims[m]
                                    /\ audit[m] \subseteq audit'[m]
<1>1. IInv /\ [Next]_vars => [Final]_<<claims, audit>>
  <2> SUFFICES ASSUME IInv, Next PROVE Final \/ UNCHANGED <<claims, audit>>
    BY DEF vars
  <2>0. TypeOK /\ (worker \notin {"idle", "down"} => cur \in Msgs)
    BY DEF IInv, TypeInv, InHand
  <2>1. CASE Commit \/ CommitUnacked
    <3>1. claims[cur] = NoClaim /\ audit[cur] = {}
      BY <2>1 DEF IInv, HandInv, Untouched, Commit, CommitUnacked
    <3>2. claims[cur].status = "none"
      BY <3>1 DEF NoClaim
    <3>. QED BY <2>0, <2>1, <3>1, <3>2 DEF Commit, CommitUnacked, Applied, TypeOK
  <2>2. CASE DeadLetter
    BY <2>0, <2>2 DEF DeadLetter, TypeOK
  <2>3. CASE ~(Commit \/ CommitUnacked \/ DeadLetter)
    BY <2>3 DEF Next, Worker, ProcessMessage, Ingest, IngestCommit, IngestEnqueue, IngestFails,
       Take, PopLost, Load, LoadFails, StepMask, StepMaskSanity, StepClassify, Classified,
       StepRoute, RouteFails, StepExtract, StepEmbed, StepAutoApprove, Step, CommitFails,
       DeadLetterFails, Crash, Restart, db
  <2>. QED BY <2>1, <2>2, <2>3
<1>. QED BY <1>1, Invariance, PTL DEF Spec, CommittedClaimIsFinal

-----------------------------------------------------------------------------
(* The refinement.                                                          *)

\* A message that nobody has processed is in the stage its row says.
LEMMA StageOfUntouched == ASSUME NEW m \in Msgs, Untouched(m) PROVE Stage[m] = "received"
BY DEF Untouched, Stage, NoClaim

\* A step that leaves the rows and the claims alone is no step of the lifecycle.
LEMMA StageStutters == UNCHANGED <<rows, claims>> => UNCHANGED Lifecycle!vars
BY DEF Stage, Lifecycle!vars

\* A commit of the session, acknowledged or not, is the triage of its message.
LEMMA AppliedTriages ==
  ASSUME IInv, worker = "commit", Applied PROVE Lifecycle!Triage(cur)
<1>1. /\ cur \in Msgs /\ TypeOK /\ Untouched(cur) /\ SessionInv
  BY DEF IInv, TypeInv, InHand, HandInv
<1>2. /\ draft.status \in {"in_human_review", "approved"}
      /\ cur \in Injured => draft.status = "in_human_review"
  BY <1>1 DEF SessionInv, Approvable, AfterClassify
<1>3. Stage' = [Stage EXCEPT ![cur] = draft.status]
  <2>1. claims'[cur] = draft /\ \A m \in Msgs \ {cur} : claims'[m] = claims[m] /\ rows'[m] = rows[m]
    BY <1>1 DEF Applied, TypeOK
  <2>. QED BY <1>1, <1>2, <2>1 DEF Stage
<1>. QED BY <1>1, <1>2, <1>3, StageOfUntouched DEF Lifecycle!Triage, Lifecycle!Move

\* A commit that was applied unacknowledged has left a claim.
UnackedInv == \A m \in unacked : claims[m].status # "none"

LEMMA UnackedStep == IInv /\ UnackedInv /\ [Next]_vars => UnackedInv'
<1> SUFFICES ASSUME IInv, UnackedInv, [Next]_vars PROVE UnackedInv'
  OBVIOUS
<1>0. TypeOK /\ (worker \notin {"idle", "down"} => cur \in Msgs)
  BY DEF IInv, TypeInv, InHand
<1>1. CASE Commit \/ CommitUnacked
  <2>1. draft.status # "none"
    BY <1>1 DEF IInv, SessionInv, Commit, CommitUnacked
  <2>2. /\ claims'[cur] = draft /\ \A m \in Msgs \ {cur} : claims'[m] = claims[m]
        /\ unacked' \subseteq unacked \cup {cur}
    BY <1>0, <1>1 DEF Commit, CommitUnacked, Applied, TypeOK
  <2>. QED BY <1>0, <2>1, <2>2 DEF UnackedInv, TypeOK
<1>2. CASE ~(Commit \/ CommitUnacked)
  <2>1. UNCHANGED <<claims, unacked>>
    BY <1>2 DEF vars, Next, Worker, ProcessMessage, Ingest, IngestCommit, IngestEnqueue, IngestFails,
       Take, PopLost, Load, LoadFails, StepMask, StepMaskSanity, StepClassify, Classified,
       StepRoute, RouteFails, StepExtract, StepEmbed, StepAutoApprove, Step, CommitFails,
       DeadLetter, DeadLetterFails, Crash, Restart, db
  <2>. QED BY <2>1 DEF UnackedInv
<1>. QED BY <1>1, <1>2

\* The handler gives an untouched message up; a message whose commit was applied
\* keeps the stage of its claim.
LEMMA DeadLetterDiscards ==
  ASSUME IInv, UnackedInv, DeadLetter PROVE Lifecycle!Discard(cur) \/ UNCHANGED Lifecycle!vars
<1>1. cur \in Msgs /\ TypeOK /\ (Untouched(cur) \/ cur \in unacked)
  BY DEF IInv, TypeInv, InHand, HandInv, DeadLetter
<1>2. claims' = claims /\ rows' = [rows EXCEPT ![cur] = "dead_letter"]
  BY DEF DeadLetter
<1>3. CASE claims[cur].status = "none"
  <2>1. Untouched(cur)
    BY <1>1, <1>3 DEF UnackedInv
  <2>2. Stage' = [Stage EXCEPT ![cur] = "dead_letter"]
    BY <1>1, <1>2, <1>3 DEF Stage, TypeOK
  <2>. QED BY <1>1, <2>1, <2>2, StageOfUntouched DEF Lifecycle!Discard, Lifecycle!Move
<1>4. CASE claims[cur].status # "none"
  <2>1. Stage' = Stage
    BY <1>1, <1>2, <1>4 DEF Stage, TypeOK
  <2>. QED BY <2>1 DEF Lifecycle!vars
<1>. QED BY <1>3, <1>4

\* Every message lives as the lifecycle allows: whatever fails or crashes, it is
\* brought in or given up once, and never taken back.
THEOREM PipelineImplementsLifecycle == Spec => ImplementsLifecycle
<1>1. Init => Lifecycle!Init /\ UnackedInv
  BY DEF Init, Lifecycle!Init, Stage, NoClaim, UnackedInv
<1>2. IInv /\ UnackedInv /\ [Next]_vars => [Lifecycle!Next]_(Lifecycle!vars)
  <2> SUFFICES ASSUME IInv, UnackedInv, [Next]_vars
               PROVE  Lifecycle!Next \/ UNCHANGED Lifecycle!vars
    OBVIOUS
  <2>0. TypeOK /\ (worker \notin {"idle", "down"} => cur \in Msgs)
    BY DEF IInv, TypeInv, InHand
  <2>1. ASSUME NEW m \in Msgs, IngestCommit(m) PROVE Lifecycle!Receive(m)
    <3>1. ingest[m] = "idle" /\ rows' = [rows EXCEPT ![m] = "received"] /\ claims' = claims
      BY <2>1 DEF IngestCommit
    <3>2. rows[m] = "absent" /\ claims[m].status = "none"
      BY <3>1 DEF IInv, DeliveryInv, NoClaim
    <3>3. Stage[m] = "absent" /\ Stage' = [Stage EXCEPT ![m] = "received"]
      BY <2>0, <3>1, <3>2 DEF Stage, TypeOK
    <3>. QED BY <3>3 DEF Lifecycle!Receive, Lifecycle!Move
  <2>2. CASE Commit \/ CommitUnacked
    <3>1. Lifecycle!Triage(cur)
      BY <2>2, AppliedTriages DEF Commit, CommitUnacked
    <3>. QED BY <2>0, <2>2, <3>1 DEF Lifecycle!Next, Commit, CommitUnacked
  <2>3. CASE DeadLetter
    BY <2>0, <2>3, DeadLetterDiscards DEF Lifecycle!Next, DeadLetter
  <2>4. CASE ~(Commit \/ CommitUnacked \/ DeadLetter \/ \E m \in Msgs : IngestCommit(m))
    <3>1. UNCHANGED <<rows, claims>>
      BY <2>4 DEF vars, Next, Worker, ProcessMessage, Ingest, IngestEnqueue, IngestFails,
         Take, PopLost, Load, LoadFails, StepMask, StepMaskSanity, StepClassify, Classified,
         StepRoute, RouteFails, StepExtract, StepEmbed, StepAutoApprove, Step, CommitFails,
         DeadLetterFails, Crash, Restart, db
    <3>. QED BY <3>1, StageStutters
  <2>. QED BY <2>1, <2>2, <2>3, <2>4 DEF Lifecycle!Next
<1>. QED
  BY <1>1, <1>2, UnackedStep, InitInv, NextInv, PTL DEF Spec, ImplementsLifecycle, Lifecycle!Spec

-----------------------------------------------------------------------------
(* Loss.  Owed are the messages a fault has been paid for: those that are   *)
(* lost, and the one in hand once its transaction cannot commit any more.   *)

Lost == {m \in Msgs : Stranded(m) \/ rows[m] = "dead_letter"}

Doomed == {m \in Msgs : m = cur /\ (tx.broken # "none" \/ worker = "handler")}

LossInv == /\ IsFiniteSet(Lost \cup Doomed)
           /\ Cardinality(Lost \cup Doomed) <= faults

\* A step that dooms one more message takes a fault.
LEMMA OneFaultOneMessage ==
  ASSUME TypeOK, LossInv, Fault, NEW m, (Lost \cup Doomed)' \subseteq (Lost \cup Doomed) \cup {m}
  PROVE  LossInv'
<1> DEFINE owed == Lost \cup Doomed
           more == owed \cup {m}
<1>1. IsFiniteSet(owed) /\ Cardinality(owed) \in Nat /\ Cardinality(owed) <= faults
  BY FS_CardinalityType DEF LossInv
<1>2. /\ IsFiniteSet(more)
      /\ Cardinality(more) = Cardinality(owed) \/ Cardinality(more) = Cardinality(owed) + 1
  BY <1>1, FS_AddElement
<1>3. faults' = faults + 1 /\ faults \in Nat
  BY DEF Fault, TypeOK
<1>4. IsFiniteSet(owed') /\ Cardinality(owed') <= Cardinality(more) /\ Cardinality(owed') \in Nat
  <2>1. owed' \subseteq more
    OBVIOUS
  <2> HIDE DEF owed, more
  <2>. QED BY <1>2, <2>1, FS_Subset, FS_CardinalityType
<1>5. Cardinality(owed') <= faults'
  <2> HIDE DEF owed, more
  <2>. QED BY <1>1, <1>2, <1>3, <1>4, FS_CardinalityType
<1>. QED BY <1>4, <1>5 DEF LossInv

\* A step that dooms none may take a fault or not.
LEMMA NoFaultNoMessage ==
  ASSUME TypeOK, LossInv, faults' = faults \/ Fault, (Lost \cup Doomed)' \subseteq Lost \cup Doomed
  PROVE  LossInv'
<1> DEFINE owed == Lost \cup Doomed
<1>1. IsFiniteSet(owed) /\ Cardinality(owed) \in Nat /\ Cardinality(owed) <= faults
  BY FS_CardinalityType DEF LossInv
<1>2. faults' \in Nat /\ faults \in Nat /\ faults <= faults'
  BY DEF Fault, TypeOK
<1>3. IsFiniteSet(owed') /\ Cardinality(owed') <= Cardinality(owed) /\ Cardinality(owed') \in Nat
  <2>1. owed' \subseteq owed
    OBVIOUS
  <2> HIDE DEF owed
  <2>. QED BY <1>1, <2>1, FS_Subset, FS_CardinalityType
<1>4. Cardinality(owed') <= faults'
  <2> HIDE DEF owed
  <2>. QED BY <1>1, <1>2, <1>3
<1>. QED BY <1>3, <1>4 DEF LossInv

\* Steps of process_message before the commit doom the message in hand only if
\* their SQL fails.
LEMMA StepLoss ==
  ASSUME IInv, LossInv, NEW from \in Phases \ {"idle", "down", "handler"},
         NEW to \in Phases \ {"idle", "down"}, NEW session, NEW claim,
         Step(from, to, session, claim),
         \/ faults' = faults /\ session.broken = tx.broken /\ to # "handler"
         \/ Fault
  PROVE  LossInv'
<1>1. TypeOK /\ Lost' = Lost
  BY DEF IInv, TypeInv, Lost, Stranded, Step, db
<1>2. CASE faults' = faults /\ session.broken = tx.broken /\ to # "handler"
  <2>1. Doomed' = Doomed
    BY <1>2 DEF Step, Doomed
  <2>. QED BY <1>1, <1>2, <2>1, NoFaultNoMessage
<1>3. CASE Fault
  <2>1. Doomed' \subseteq {cur}
    BY DEF Step, Doomed
  <2>. QED BY <1>1, <1>3, <2>1, OneFaultOneMessage
<1>. QED BY <1>2, <1>3

\* Putting the message in hand down strands at most that message.
LEMMA AbandonLoss ==
  ASSUME IInv, LossInv, cur' = NoMsg, UNCHANGED <<db, ingest, queue>>, Fault
  PROVE  LossInv'
<1>1. TypeOK /\ Lost' \subseteq Lost \cup {cur} /\ Doomed' = {}
  BY MsgsAssumption DEF IInv, TypeInv, Lost, Stranded, Doomed, db
<1>. QED BY <1>1, OneFaultOneMessage

LEMMA IngestLoss == ASSUME IInv, LossInv, NEW m \in Msgs, Ingest(m) PROVE LossInv'
<1>1. TypeOK
  BY DEF IInv, TypeInv
<1>2. CASE IngestCommit(m)
  <2>1. Lost' \subseteq Lost /\ Doomed' = Doomed /\ faults' = faults
    BY <1>1, <1>2 DEF IngestCommit, Lost, Stranded, Doomed, TypeOK
  <2>. QED BY <1>1, <2>1, NoFaultNoMessage
<1>3. CASE IngestEnqueue(m)
  <2>1. UNCHANGED <<rows, cur>> /\ Doomed' = Doomed /\ faults' = faults
    BY <1>3 DEF IngestEnqueue, Doomed, db
  <2>2. /\ ingest' = [ingest EXCEPT ![m] = "accepted"]
        /\ Len(queue') = Len(queue) + 1 /\ queue'[Len(queue) + 1] = m
        /\ \A i \in 1..Len(queue) : queue'[i] = queue[i]
    BY <1>1, <1>3 DEF IngestEnqueue, TypeOK
  <2>3. Len(queue) \in Nat
    BY <1>1 DEF TypeOK
  <2>4. ASSUME NEW n \in Msgs, Stranded(n)' PROVE Stranded(n)
    <3>1. n # m
      BY <2>2, <2>3, <2>4 DEF Stranded
    <3>. QED BY <1>1, <2>1, <2>2, <2>3, <2>4, <3>1 DEF Stranded, TypeOK
  <2>5. Lost' \subseteq Lost
    BY <2>1, <2>4 DEF Lost
  <2>. QED BY <1>1, <2>1, <2>5, NoFaultNoMessage
<1>4. CASE IngestFails(m)
  <2>1. UNCHANGED <<rows, cur>> /\ Doomed' = Doomed /\ Fault
    BY <1>4 DEF IngestFails, Doomed, db
  <2>2. /\ ingest' = [ingest EXCEPT ![m] = "failed"]
        /\ \A i \in 1..Len(queue) : i \in 1..Len(queue') /\ queue'[i] = queue[i]
    <3>1. queue' = queue \/ queue' = Append(queue, m)
      BY <1>4 DEF IngestFails
    <3>2. queue \in Seq(Msgs)
      BY <1>1 DEF TypeOK
    <3>3. \A i \in 1..Len(queue) : i \in 1..Len(queue') /\ queue'[i] = queue[i]
      BY <3>1, <3>2
    <3>. QED BY <1>4, <3>3 DEF IngestFails
  <2>3. ASSUME NEW n \in Msgs, Stranded(n)', n # m PROVE Stranded(n)
    BY <1>1, <2>1, <2>2, <2>3 DEF Stranded, TypeOK
  <2>4. Lost' \subseteq Lost \cup {m}
    BY <2>1, <2>3 DEF Lost
  <2>. QED BY <1>1, <2>1, <2>4, OneFaultOneMessage
<1>. QED BY <1>2, <1>3, <1>4 DEF Ingest

\* Taking an id off the list strands nothing: it is in the worker's hand.
LEMMA PopLoss == ASSUME IInv, LossInv, Take \/ PopLost PROVE LossInv'
<1>1. /\ TypeOK /\ queue # <<>> /\ queue' = Tail(queue) /\ cur = NoMsg /\ UNCHANGED <<rows, ingest>>
      /\ tx = NewSession /\ UNCHANGED tx
  BY DEF IInv, TypeInv, HandInv, SessionInv, Take, PopLost, db
<1>2. \A i \in 1..Len(queue) : i = 1 \/ (i - 1 \in 1..Len(queue') /\ queue'[i - 1] = queue[i])
  BY <1>1 DEF TypeOK
<1>3. Head(queue) = queue[1] /\ Head(queue) \in Msgs
  BY <1>1 DEF TypeOK
<1>4. ASSUME NEW n \in Msgs, Stranded(n)', n # Head(queue) PROVE Stranded(n)
  BY <1>1, <1>2, <1>3, <1>4, MsgsAssumption DEF Stranded
<1>5. Doomed' = {}
  BY <1>1 DEF Doomed, NewSession, Take, PopLost
<1>6. CASE Take
  <2>1. cur' = Head(queue) /\ faults' = faults
    BY <1>6 DEF Take
  <2>2. Lost' \subseteq Lost
    BY <1>1, <1>4, <2>1 DEF Lost, Stranded
  <2>. QED BY <1>1, <1>5, <2>1, <2>2, NoFaultNoMessage
<1>7. CASE PopLost
  <2>1. Lost' \subseteq Lost \cup {Head(queue)} /\ Fault
    BY <1>1, <1>4, <1>7 DEF Lost, PopLost
  <2>. QED BY <1>1, <1>5, <2>1, OneFaultOneMessage
<1>. QED BY <1>6, <1>7

LEMMA ProcessLoss == ASSUME IInv, LossInv, ProcessMessage PROVE LossInv'
<1>1. TypeOK /\ (worker \notin {"idle", "down"} => cur \in Msgs)
  BY DEF IInv, TypeInv, InHand
<1>2. CASE Load
  <2>1. Lost' = Lost /\ Doomed' = {} /\ faults' = faults
    BY <1>2 DEF Load, Lost, Stranded, Doomed, NewSession, db
  <2>. QED BY <1>1, <2>1, NoFaultNoMessage
<1>3. CASE LoadFails \/ DeadLetterFails
  BY <1>3, AbandonLoss DEF LoadFails, DeadLetterFails, Abandon
<1>4. CASE StepMask
  BY <1>1, <1>4, StepLoss DEF StepMask, Phases, TypeOK, Session
<1>5. CASE StepMaskSanity
  BY <1>1, <1>5, StepLoss DEF StepMaskSanity, Logged, Phases, TypeOK, Session
<1>6. CASE StepClassify
  <2>1. PICK content, urgency, step : Classified(content, urgency, step)
    BY <1>6 DEF StepClassify
  <2>2. [tx EXCEPT !.row = "classified", !.audit = @ \cup {step}].broken = tx.broken
    BY <1>1 DEF TypeOK, Session
  <2>. QED BY <2>1, <2>2, StepLoss DEF Classified, Phases
<1>7. CASE StepRoute \/ RouteFails
  BY <1>1, <1>7, StepLoss DEF StepRoute, RouteFails, Phases, TypeOK, Session
<1>8. CASE StepExtract
  <2>1. ASSUME NEW steps PROVE Logged(steps).broken = tx.broken
    BY <1>1 DEF Logged, TypeOK, Session
  <2>2. CASE \E x \in Extractions :
               /\ Step("extract", "embed", Logged({"extraction", "validation"}),
                       [draft EXCEPT !.extraction = ExtractionValues(cur),
                                     !.injury     = x.injury,
                                     !.unverified = x.unverified,
                                     !.blocked    = Blocked(cur, x)])
               /\ UNCHANGED faults
    <3>1. PICK claim : /\ Step("extract", "embed", Logged({"extraction", "validation"}), claim)
                       /\ UNCHANGED faults
      BY <2>2, Zenon
    <3>. QED BY <2>1, <3>1, StepLoss DEF Phases
  <2>3. CASE \E step \in AuditSteps :
               /\ Step("extract", "embed", Logged({step}), draft)
               /\ UNCHANGED faults
    BY <2>1, <2>3, StepLoss DEF Phases
  <2>4. CASE /\ Step("extract", "embed",
                     [tx EXCEPT !.audit = @ \cup {"extraction_error"}, !.broken = "extract"], draft)
             /\ Fault
    <3>1. PICK session : Step("extract", "embed", session, draft) /\ Fault
      BY <2>4, Zenon
    <3>. QED BY <3>1, StepLoss DEF Phases
  <2>. QED BY <1>8, <2>2, <2>3, <2>4 DEF StepExtract, AuditSteps
<1>9. CASE StepEmbed
  BY <1>1, <1>9, StepLoss DEF StepEmbed, Logged, Phases, TypeOK, Session
<1>10. CASE StepAutoApprove
  BY <1>1, <1>10, StepLoss DEF StepAutoApprove, Logged, Phases, TypeOK, Session
<1>11. CASE Commit \/ CommitUnacked
  <2>1. tx.row = "classified" /\ cur \in Msgs /\ cur # NoMsg
    BY <1>1, <1>11, MsgsAssumption DEF IInv, TypeInv, RowClassified, AfterClassify, Commit, CommitUnacked
  <2>2. rows' = [rows EXCEPT ![cur] = "classified"] /\ UNCHANGED <<ingest, queue>>
    BY <1>11, <2>1 DEF Commit, CommitUnacked, Applied
  <2>3. Lost' \subseteq Lost
    BY <1>1, <2>1, <2>2 DEF Lost, Stranded, TypeOK
  <2>4. CASE Commit
    <3>1. Doomed' = {} /\ faults' = faults
      BY <2>4 DEF Commit, Abandon, NewSession, Doomed
    <3>. QED BY <1>1, <2>3, <3>1, NoFaultNoMessage
  <2>5. CASE CommitUnacked
    <3>1. Doomed' \subseteq {cur} /\ Fault
      BY <2>5 DEF CommitUnacked, Doomed
    <3>. QED BY <1>1, <2>3, <3>1, OneFaultOneMessage
  <2>. QED BY <1>11, <2>4, <2>5
<1>12. CASE CommitFails
  <2>1. Lost' = Lost /\ Doomed' \subseteq {cur}
    BY <1>12 DEF CommitFails, Lost, Stranded, Doomed, db
  <2>2. CASE tx.broken # "none" /\ UNCHANGED faults
    <3>1. cur \in Doomed
      BY <1>1, <1>12, <2>2 DEF CommitFails, Doomed
    <3>. QED BY <1>1, <2>1, <2>2, <3>1, NoFaultNoMessage
  <2>3. CASE Fault
    BY <1>1, <2>1, <2>3, OneFaultOneMessage
  <2>. QED BY <1>12, <2>2, <2>3 DEF CommitFails
<1>13. CASE DeadLetter
  <2>1. cur \in Doomed /\ rows' = [rows EXCEPT ![cur] = "dead_letter"] /\ faults' = faults
    BY <1>1, <1>13 DEF DeadLetter, Doomed
  <2>2. Doomed' = {} /\ UNCHANGED <<ingest, queue>>
    BY <1>13 DEF DeadLetter, Abandon, NewSession, Doomed
  <2>3. Lost' \subseteq Lost \cup {cur}
    BY <1>1, <2>1, <2>2 DEF Lost, Stranded, TypeOK
  <2>. QED BY <1>1, <2>1, <2>2, <2>3, NoFaultNoMessage
<1>. QED BY <1>2, <1>3, <1>4, <1>5, <1>6, <1>7, <1>8, <1>9, <1>10, <1>11, <1>12, <1>13 DEF ProcessMessage

\* Every lost message has cost a fault of its own, for any number of messages
\* and faults: masking, model and encoder failures lose none.
THEOREM LossIsPaidFor == Spec => []LossNeedsAFault
<1>1. Init => LossInv
  <2> SUFFICES ASSUME Init PROVE LossInv
    OBVIOUS
  <2>1. Lost \cup Doomed = {} /\ faults = 0
    BY MsgsAssumption DEF Init, Lost, Stranded, Doomed
  <2>. QED BY <2>1, FS_EmptySet DEF LossInv
<1>2. IInv /\ LossInv /\ [Next]_vars => LossInv'
  <2> SUFFICES ASSUME IInv, LossInv, [Next]_vars PROVE LossInv'
    OBVIOUS
  <2>1. TypeOK
    BY DEF IInv, TypeInv
  <2>2. CASE UNCHANGED vars
    <3>1. Lost' = Lost /\ Doomed' = Doomed /\ faults' = faults
      BY <2>2 DEF vars, Lost, Stranded, Doomed
    <3>. QED BY <2>1, <3>1, NoFaultNoMessage
  <2>3. CASE Crash
    BY <2>3, AbandonLoss DEF Crash
  <2>4. CASE Restart
    <3>1. Lost' = Lost /\ faults' = faults
      BY <2>4 DEF Restart, Lost, Stranded, db
    <3>2. Doomed' \subseteq Doomed
      BY <2>4 DEF Restart, Doomed
    <3>. QED BY <2>1, <3>1, <3>2, NoFaultNoMessage
  <2>. QED
    BY <2>2, <2>3, <2>4, IngestLoss, PopLoss, ProcessLoss DEF Next, Worker
<1>3. IInv /\ LossInv => LossNeedsAFault
  <2> SUFFICES ASSUME IInv, LossInv PROVE LossNeedsAFault
    OBVIOUS
  <2>1. IsFiniteSet(Lost) /\ Cardinality(Lost) <= Cardinality(Lost \cup Doomed)
    BY FS_Subset DEF LossInv
  <2>2. Cardinality(Lost) \in Nat /\ Cardinality(Lost \cup Doomed) \in Nat
    BY <2>1, FS_CardinalityType DEF LossInv
  <2>3. Cardinality(Lost) <= faults
    BY <2>1, <2>2 DEF LossInv, IInv, TypeInv, TypeOK
  <2>. QED BY <2>3 DEF LossNeedsAFault, Lost
<1>. QED BY <1>1, <1>2, <1>3, InitInv, NextInv, PTL DEF Spec
=============================================================================

----------------------------- MODULE ReviewQueue -----------------------------
(***************************************************************************)
(* The human review queue: POST /queue/{id}/approve and /reject, each on    *)
(* its own thread and database session, and the metrics thread that derives *)
(* the dashboard gauges from the same tables.                               *)
(*                                                                          *)
(* A decision is two steps with nothing held between them: db.get, the      *)
(* status check and the edits work on the row as it was read; the commit    *)
(* writes what was computed from it.  PostgreSQL runs READ COMMITTED and    *)
(* the row carries neither lock nor version, so other requests may commit   *)
(* in between.                                                              *)
(***************************************************************************)
EXTENDS Naturals, Sequences, FiniteSets

CONSTANTS
    Claims,    \* claim ids
    Requests,  \* decision requests, each sent at most once
    Fields,    \* the editable extraction fields
    Values,    \* what a field may hold
    Extracted, \* claims the pipeline gave an extraction
    Written,   \* the fields of that extraction
    Edits      \* the edits an approve may carry, <<>> for none

Extraction == [Fields -> Values]

ASSUME PipelineAssumption == Extracted \subseteq Claims /\ Written \in [Claims -> Extraction]

ASSUME ClaimsAssumption == IsFiniteSet(Claims)

ASSUME EditsAssumption ==
    \A e \in Edits : DOMAIN e \subseteq Fields /\ \A f \in DOMAIN e : e[f] \in Values

VARIABLES
    status,    \* the committed status of a claim, "none" before the pipeline's commit
    fields,    \* and its committed extraction
    trail,     \* its approve and reject audit rows, in commit order
    request,   \* each request's thread and what its session holds
    refresh,   \* the metrics thread: the counts read so far in this tick
    gauges,    \* the values it last published
    raced      \* history: claims that two requests held between check and commit

vars == <<status, fields, trail, request, refresh, gauges, raced>>

Statuses  == {"none", "in_human_review", "approved", "archived"}
Decisions == {"approved", "archived"}

Diff == [field : Fields, before : Values, after : Values]
Row  == [to : Decisions, edits : SUBSET Diff]

\* "checked" is a request between its status check and its commit.
RequestPhase == {"idle", "checked", "ok", "conflict", "refused", "failed"}

NoRequest == [phase |-> "idle"]

Held(c) == {r \in Requests : request[r].phase = "checked" /\ request[r].claim = c}

Init == /\ status   = [c \in Claims |-> "none"]
        /\ fields   = Written
        /\ trail    = [c \in Claims |-> <<>>]
        /\ request  = [r \in Requests |-> NoRequest]
        /\ refresh  = [phase |-> "idle", review |-> 0, approved |-> 0, queued |-> 0]
        /\ gauges   = [review |-> 0, approved |-> 0, rejected |-> 0, queued |-> 0]
        /\ raced    = {}

-----------------------------------------------------------------------------
(* The pipeline's commit brings a claim in: into the queue, or approved by  *)
(* the gate, in which case no operator sees it.                             *)

\* Mutant: the message's status of an earlier step is written to the claim.
ArriveMasked(c) ==
    /\ status[c] = "none"
    /\ status' = [status EXCEPT ![c] = "masked"]
    /\ UNCHANGED <<fields, trail, request, refresh, gauges, raced>>

Arrive(c) ==
    /\ status[c] = "none"
    /\ \E to \in {"in_human_review"} \cup (IF c \in Extracted THEN {"approved"} ELSE {}) :
          status' = [status EXCEPT ![c] = to]
    /\ UNCHANGED <<fields, trail, request, refresh, gauges, raced>>

-----------------------------------------------------------------------------
(* A decision.                                                              *)

\* Only values that differ from the row as it was read are differences.
Changed(c, edits) == {f \in DOMAIN edits : edits[f] # fields[c][f]}

\* Mutants: an edit recorded with its new value on both sides, and a return
\* inside the loop, after the first difference.
DiffsAfterOnly(c, edits) ==
    {[field |-> f, before |-> edits[f], after |-> edits[f]] : f \in Changed(c, edits)}
DiffsFirstOnly(c, edits) ==
    IF Changed(c, edits) = {} THEN {}
    ELSE LET f == CHOOSE f \in Changed(c, edits) : TRUE
         IN  {[field |-> f, before |-> fields[c][f], after |-> edits[f]]}

Diffs(c, edits) ==
    {[field |-> f, before |-> fields[c][f], after |-> edits[f]] : f \in Changed(c, edits)}

\* claim.data is reassigned as a whole: what the session writes is the
\* extraction it read, with the changed fields replaced.
Edited(c, edits) ==
    [f \in Fields |-> IF f \in Changed(c, edits) THEN edits[f] ELSE fields[c][f]]

Answer(r, phase) ==
    /\ request' = [request EXCEPT ![r] = [phase |-> phase]]
    /\ UNCHANGED raced

\* Mutant: the check lets a decided claim through.
AcceptsAny(c) == status[c] # "none"

\* Only a claim in review may be decided.
Accepts(c) == status[c] = "in_human_review"

\* _transition up to its commit.  valid is ClaimEdits' verdict on the edits; a
\* reject, or an approve without edits, has nothing to validate.
Check(r, c, to, edits, valid) ==
    /\ request[r].phase = "idle"
    /\ to = "archived" => edits = <<>>
    /\ edits = <<>> => valid
    /\ \/ status[c] # "none" /\ ~Accepts(c) /\ Answer(r, "conflict")
       \/ status[c] = "none" /\ Answer(r, "refused")
       \/ Accepts(c) /\ edits # <<>> /\ ~valid /\ Answer(r, "refused")
       \/ Accepts(c) /\ edits # <<>> /\ valid /\ c \notin Extracted /\ Answer(r, "conflict")
       \/ /\ Accepts(c)
          /\ edits # <<>> => valid /\ c \in Extracted
          /\ request' = [request EXCEPT ![r] =
                           [phase |-> "checked", claim |-> c, to |-> to,
                            diffs |-> Diffs(c, edits), fields |-> Edited(c, edits)]]
          /\ raced' = IF Held(c) # {} THEN raced \cup {c} ELSE raced
    /\ UNCHANGED <<status, fields, trail, refresh, gauges>>

\* Mutant: the audit row is left to a later transaction.
CommitUnaudited(r) ==
    /\ request[r].phase = "checked"
    /\ LET q == request[r] IN status' = [status EXCEPT ![q.claim] = q.to]
    /\ request' = [request EXCEPT ![r] = [phase |-> "ok"]]
    /\ UNCHANGED <<fields, trail, refresh, gauges, raced>>

\* Only changed columns are written: without a difference claim.data is not.
Commit(r) ==
    /\ request[r].phase = "checked"
    /\ LET q == request[r] IN
          /\ status' = [status EXCEPT ![q.claim] = q.to]
          /\ fields' = IF q.diffs = {} THEN fields ELSE [fields EXCEPT ![q.claim] = q.fields]
          /\ trail' = [trail EXCEPT ![q.claim] = Append(@, [to |-> q.to, edits |-> q.diffs])]
    /\ \E answer \in {"ok", "failed"} :  \* failed: the answer was lost, not the commit
          request' = [request EXCEPT ![r] = [phase |-> answer]]
    /\ UNCHANGED <<refresh, gauges, raced>>

\* The database refuses the commit, or the api process dies with its session.
CommitFails(r) ==
    /\ request[r].phase = "checked"
    /\ Answer(r, "failed")
    /\ UNCHANGED <<status, fields, trail, refresh, gauges>>

-----------------------------------------------------------------------------
(* refresh_queue_metrics: one SELECT after another, each with a snapshot of *)
(* its own.                                                                 *)

InReview == Cardinality({c \in Claims : status[c] = "in_human_review"})

RowSet(to) ==
    UNION {{<<c, i>> : i \in {i \in 1..Len(trail[c]) : trail[c][i].to = to}} : c \in Claims}
Rows(to) == Cardinality(RowSet(to))

\* Claims that are or were in the queue; what a tick should account for.
Queued == Cardinality({c \in Claims : status[c] = "in_human_review" \/ trail[c] # <<>>})

CountReview ==
    /\ refresh.phase = "idle"
    /\ refresh' = [phase |-> "review", review |-> InReview, approved |-> 0, queued |-> Queued]
    /\ UNCHANGED <<status, fields, trail, request, gauges, raced>>

CountApproved ==
    /\ refresh.phase = "review"
    /\ refresh' = [refresh EXCEPT !.phase = "approved", !.approved = Rows("approved")]
    /\ UNCHANGED <<status, fields, trail, request, gauges, raced>>

\* Mutant: the queue is counted after the decisions.
PublishReviewLast ==
    /\ refresh.phase = "approved"
    /\ gauges' = [review |-> InReview, approved |-> refresh.approved,
                  rejected |-> Rows("archived"), queued |-> refresh.queued]
    /\ refresh' = [phase |-> "idle", review |-> 0, approved |-> 0, queued |-> 0]
    /\ UNCHANGED <<status, fields, trail, request, raced>>

Publish ==
    /\ refresh.phase = "approved"
    /\ gauges' = [review |-> refresh.review, approved |-> refresh.approved,
                  rejected |-> Rows("archived"), queued |-> refresh.queued]
    /\ refresh' = [phase |-> "idle", review |-> 0, approved |-> 0, queued |-> 0]
    /\ UNCHANGED <<status, fields, trail, request, raced>>

\* A query fails: the tick is given up and the gauges keep their values.
RefreshFails ==
    /\ refresh.phase # "idle"
    /\ refresh' = [phase |-> "idle", review |-> 0, approved |-> 0, queued |-> 0]
    /\ UNCHANGED <<status, fields, trail, request, gauges, raced>>

-----------------------------------------------------------------------------
Decide(r) ==
    \/ \E c \in Claims, to \in Decisions, edits \in Edits, valid \in BOOLEAN :
          Check(r, c, to, edits, valid)
    \/ Commit(r)
    \/ CommitFails(r)

Refresh == CountReview \/ CountApproved \/ Publish \/ RefreshFails

Next == (\E c \in Claims : Arrive(c)) \/ (\E r \in Requests : Decide(r)) \/ Refresh

Spec == Init /\ [][Next]_vars

-----------------------------------------------------------------------------
(* Properties.                                                              *)

Checked  == [phase : {"checked"}, claim : Claims, to : Decisions, diffs : SUBSET Diff,
             fields : Extraction]
Finished == [phase : RequestPhase \ {"checked"}]
Tick     == [phase : {"idle", "review", "approved"}, review : Nat, approved : Nat, queued : Nat]
Gauges   == [review : Nat, approved : Nat, rejected : Nat, queued : Nat]

\* Every variable stays in its declared range.
TypeOK ==
    /\ status  \in [Claims -> Statuses]
    /\ fields  \in [Claims -> Extraction]
    /\ trail   \in [Claims -> Seq(Row)]
    /\ request \in [Requests -> Checked \cup Finished]
    /\ refresh \in Tick
    /\ gauges  \in Gauges
    /\ raced   \subseteq Claims

\* A claim that is still in the queue is as the pipeline left it, and one that
\* left it through an operator has the status of the last decision recorded:
\* status, edits and audit row are one commit, also when requests overlap.
StatusIsExplained ==
    \A c \in Claims :
        IF trail[c] = <<>> THEN status[c] # "archived" /\ fields[c] = Written[c]
                           ELSE status[c] = trail[c][Len(trail[c])].to

\* Every value of a claim was written by the pipeline or is the "after" of an
\* edit in its trail.  Holds when requests overlap, although an overlapping
\* approve may overwrite the other's edits.
EditsAreTraceable ==
    \A c \in Claims, f \in Fields :
        \/ fields[c][f] = Written[c][f]
        \/ \E i \in 1..Len(trail[c]) : \E d \in trail[c][i].edits :
               d.field = f /\ d.after = fields[c][f]

\* Unless two requests held it between check and commit, a claim has at most
\* one decision, and replaying that decision's edits over the pipeline's
\* extraction gives the stored one.
TrailReplays ==
    \A c \in Claims \ raced :
        /\ Len(trail[c]) <= 1
        /\ \A i \in 1..Len(trail[c]), f \in Fields :
              \/ /\ \A d \in trail[c][i].edits : d.field # f
                 /\ fields[c][f] = Written[c][f]
              \/ \E d \in trail[c][i].edits :
                    /\ d.field = f /\ d.before = Written[c][f]
                    /\ d.after = fields[c][f] /\ d.before # d.after

\* A decision is final unless requests raced for the claim: approve and reject
\* both refuse a claim that is no longer in review.
DecisionIsFinal ==
    [][\A c \in Claims \ raced :
          status[c] \in Decisions => status'[c] = status[c] /\ fields'[c] = fields[c]
      ]_<<status, fields>>

\* No claim that was in the queue when a refresh began is missing from what it
\* publishes: the queue is counted before the decisions, so a claim decided in
\* between is counted twice, never not at all.
GaugesCoverTheQueue ==
    gauges.review + gauges.approved + gauges.rejected >= gauges.queued

\* The other half of a report's life: what the operators do to it is one
\* decision, overruled only where two were under way at once, and a claim
\* without an extraction gets one before it can be approved.
Lifecycle == INSTANCE ClaimLifecycle
             WITH Reports    <- Claims,
                  MustBeSeen <- Claims \ Extracted,
                  stage      <- [c \in Claims |-> IF status[c] = "none" THEN "received" ELSE status[c]],
                  contested  <- raced

ImplementsLifecycle == Lifecycle!Spec

-----------------------------------------------------------------------------
(* What a comment in the code says of it; see the README.                   *)

\* api/routers/queue.py, _transition: only a claim in review can be decided,
\* any other current status is a conflict.  So no claim has two decisions.
DecidedOnce == \A c \in Claims : Len(trail[c]) <= 1

=============================================================================

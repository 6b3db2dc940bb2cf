-------------------------- MODULE ReviewQueue_proofs --------------------------
(***************************************************************************)
(* Theorems about ReviewQueue, for every number of claims and of requests,  *)
(* every set of fields and values, and every interleaving.                  *)
(***************************************************************************)
EXTENDS ReviewQueue, FiniteSetTheorems, TLAPS

-----------------------------------------------------------------------------
(* Type correctness.                                                        *)

\* The tables and the requests; the gauges are counts and stay apart.
TablesOK ==
    /\ status  \in [Claims -> Statuses]
    /\ fields  \in [Claims -> Extraction]
    /\ trail   \in [Claims -> Seq(Row)]
    /\ request \in [Requests -> Checked \cup Finished]
    /\ raced   \subseteq Claims

LEMMA InitTables == Init => TablesOK
BY PipelineAssumption
   DEF Init, TablesOK, Statuses, NoRequest, Finished, RequestPhase

\* The edits of a request are differences between values of the fields' types,
\* and the extraction it writes is one.
LEMMA CheckedType ==
  ASSUME TablesOK, NEW c \in Claims, NEW edits \in Edits, NEW to \in Decisions
  PROVE  [phase |-> "checked", claim |-> c, to |-> to,
          diffs |-> Diffs(c, edits), fields |-> Edited(c, edits)] \in Checked
<1>1. DOMAIN edits \subseteq Fields /\ \A f \in DOMAIN edits : edits[f] \in Values
  BY EditsAssumption
<1>2. fields[c] \in [Fields -> Values]
  BY DEF TablesOK, Extraction
<1>3. Diffs(c, edits) \in SUBSET Diff
  BY <1>1, <1>2 DEF Diffs, Changed, Diff
<1>4. Edited(c, edits) \in Extraction
  BY <1>1, <1>2 DEF Edited, Changed, Extraction
<1>. QED BY <1>3, <1>4 DEF Checked

LEMMA AnswerType ==
  ASSUME TablesOK, NEW r \in Requests, NEW answer \in RequestPhase \ {"checked"}
  PROVE  [request EXCEPT ![r] = [phase |-> answer]] \in [Requests -> Checked \cup Finished]
BY DEF TablesOK, Finished

LEMMA NextTables == TablesOK /\ [Next]_vars => TablesOK'
<1> SUFFICES ASSUME TablesOK, [Next]_vars PROVE TablesOK'
  OBVIOUS
<1>1. CASE UNCHANGED vars
  BY <1>1 DEF TablesOK, vars
<1>2. ASSUME NEW c \in Claims, Arrive(c) PROVE TablesOK'
  BY <1>2 DEF TablesOK, Arrive, Statuses
<1>3. ASSUME NEW r \in Requests, NEW c \in Claims, NEW to \in Decisions, NEW edits \in Edits,
             NEW valid \in BOOLEAN, Check(r, c, to, edits, valid)
      PROVE  TablesOK'
  <2>1. CASE \E answer \in {"conflict", "refused"} : Answer(r, answer)
    BY <1>3, <2>1, AnswerType DEF Check, Answer, TablesOK, RequestPhase
  <2>2. CASE /\ request' = [request EXCEPT ![r] =
                              [phase |-> "checked", claim |-> c, to |-> to,
                               diffs |-> Diffs(c, edits), fields |-> Edited(c, edits)]]
             /\ raced' \subseteq raced \cup {c}
    <3>1. request' \in [Requests -> Checked \cup Finished]
      BY <2>2, CheckedType DEF TablesOK
    <3>. QED BY <1>3, <2>2, <3>1 DEF Check, TablesOK
  <2>. QED BY <1>3, <2>1, <2>2 DEF Check
<1>4. ASSUME NEW r \in Requests, Commit(r) PROVE TablesOK'
  <2>1. request[r] \in Checked
    BY <1>4 DEF Commit, TablesOK, Finished
  <2>2. /\ request[r].claim \in Claims /\ request[r].to \in Decisions
        /\ request[r].diffs \in SUBSET Diff /\ request[r].fields \in Extraction
    BY <2>1 DEF Checked
  <2>3. status' \in [Claims -> Statuses] /\ fields' \in [Claims -> Extraction]
    BY <1>4, <2>2 DEF Commit, TablesOK, Statuses, Decisions
  <2>4. [to |-> request[r].to, edits |-> request[r].diffs] \in Row
    BY <2>2 DEF Row
  <2>5. trail' \in [Claims -> Seq(Row)]
    BY <1>4, <2>2, <2>4 DEF Commit, TablesOK
  <2>. QED BY <1>4, <2>3, <2>5, AnswerType DEF Commit, TablesOK, RequestPhase
<1>5. ASSUME NEW r \in Requests, CommitFails(r) PROVE TablesOK'
  BY <1>5, AnswerType DEF CommitFails, Answer, TablesOK, RequestPhase
<1>6. CASE Refresh
  BY <1>6 DEF Refresh, CountReview, CountApproved, Publish, RefreshFails, TablesOK
<1>. QED BY <1>1, <1>2, <1>3, <1>4, <1>5, <1>6 DEF Next, Decide

-----------------------------------------------------------------------------
(* Decisions.                                                               *)

\* Where a value of a field may come from.
Traceable(c, f, v) ==
    \/ v = Written[c][f]
    \/ \E i \in 1..Len(trail[c]) : \E d \in trail[c][i].edits : d.field = f /\ d.after = v

\* A decision taken from the pipeline's own extraction.
Replays(c, diffs, new) ==
    \A f \in Fields :
        \/ (\A d \in diffs : d.field # f) /\ new[f] = Written[c][f]
        \/ \E d \in diffs : /\ d.field = f /\ d.before = Written[c][f]
                            /\ d.after = new[f] /\ d.before # d.after

\* What a request holds between its check and its commit: values it read or
\* will have recorded, and, for a claim nobody raced for, the only decision.
HeldInv ==
    \A r \in Requests : request[r].phase = "checked" =>
        LET q == request[r] IN
        /\ status[q.claim] # "none"
        /\ \A f \in Fields : \/ Traceable(q.claim, f, q.fields[f])
                             \/ \E d \in q.diffs : d.field = f /\ d.after = q.fields[f]
        /\ q.claim \notin raced =>
              /\ status[q.claim] = "in_human_review"
              /\ Held(q.claim) = {r}
              /\ Replays(q.claim, q.diffs, q.fields)
              /\ q.diffs = {} => q.fields = Written[q.claim]

UnseenInv == \A c \in Claims : status[c] = "none" => trail[c] = <<>>

IInv == /\ TablesOK
        /\ UnseenInv
        /\ HeldInv
        /\ StatusIsExplained
        /\ EditsAreTraceable
        /\ TrailReplays

LEMMA InitInv == Init => IInv
<1> SUFFICES ASSUME Init PROVE IInv
  OBVIOUS
<1>1. TablesOK
  BY InitTables
<1>2. UnseenInv /\ HeldInv /\ StatusIsExplained /\ EditsAreTraceable /\ TrailReplays
  BY DEF Init, NoRequest, UnseenInv, HeldInv, StatusIsExplained, EditsAreTraceable, TrailReplays
<1>. QED BY <1>1, <1>2 DEF IInv

\* Nothing in the invariant looks at the gauges.
LEMMA IInvStable == IInv /\ UNCHANGED <<status, fields, trail, request, raced>> => IInv'
BY DEF IInv, TablesOK, UnseenInv, HeldInv, Held, Traceable, Replays, StatusIsExplained,
       EditsAreTraceable, TrailReplays

LEMMA LastDecision ==
  ASSUME TablesOK, NEW c \in Claims, trail[c] # <<>>
  PROVE  trail[c][Len(trail[c])].to \in Decisions
<1>1. trail[c] \in Seq(Row) /\ Len(trail[c]) \in 1..Len(trail[c])
  BY DEF TablesOK
<1>2. trail[c][Len(trail[c])] \in Row
  BY <1>1
<1>. QED BY <1>2 DEF Row

LEMMA CheckedRequest ==
  ASSUME TablesOK, NEW r \in Requests, request[r].phase = "checked"
  PROVE  /\ request[r].claim \in Claims /\ request[r].to \in Decisions
         /\ request[r].diffs \in SUBSET Diff /\ request[r].fields \in Extraction
<1>1. request[r] \in Checked
  BY DEF TablesOK, Finished
<1>. QED BY <1>1 DEF Checked

\* A request that is answered without a commit leaves the others as they were.
LEMMA AnswerInv ==
  ASSUME IInv, NEW r \in Requests, NEW answer \in {"conflict", "refused", "failed"},
         Answer(r, answer), UNCHANGED <<status, fields, trail>>
  PROVE  UnseenInv' /\ HeldInv' /\ StatusIsExplained' /\ EditsAreTraceable' /\ TrailReplays'
<1>1. request'[r].phase # "checked" /\ \A k \in Requests \ {r} : request'[k] = request[k]
  BY DEF IInv, TablesOK, Answer
<1>2. \A c : Held(c)' \subseteq Held(c) /\ \A k \in Requests \ {r} : k \in Held(c) => k \in Held(c)'
  BY <1>1 DEF Held
<1>3. HeldInv'
  <2> SUFFICES ASSUME NEW k \in Requests, request'[k].phase = "checked"
               PROVE  HeldInv!(k)'
    BY DEF HeldInv
  <2>1. k # r /\ request'[k] = request[k] /\ request[k].phase = "checked"
    BY <1>1
  <2>2. HeldInv!(k)
    BY <2>1 DEF IInv, HeldInv
  <2>3. Held(request[k].claim)' = {k} \/ Held(request[k].claim) # {k}
    BY <1>2, <2>1 DEF Held
  <2>. QED BY <2>1, <2>2, <2>3 DEF Traceable, Replays, Answer
<1>. QED
  BY <1>3 DEF IInv, UnseenInv, StatusIsExplained, EditsAreTraceable, TrailReplays, Answer

\* The differences of an edit replay to what the session will write.
LEMMA EditReplays ==
  ASSUME TablesOK, NEW c \in Claims, NEW edits \in Edits
  PROVE  /\ \A f \in Fields :
               \/ Edited(c, edits)[f] = fields[c][f] /\ \A d \in Diffs(c, edits) : d.field # f
               \/ \E d \in Diffs(c, edits) : /\ d.field = f /\ d.before = fields[c][f]
                                             /\ d.after = Edited(c, edits)[f] /\ d.before # d.after
         /\ Diffs(c, edits) = {} => Edited(c, edits) = fields[c]
<1>1. DOMAIN edits \subseteq Fields /\ fields[c] \in [Fields -> Values]
  BY EditsAssumption DEF TablesOK, Extraction
<1>2. ASSUME NEW f \in Fields, f \notin Changed(c, edits)
      PROVE  Edited(c, edits)[f] = fields[c][f] /\ \A d \in Diffs(c, edits) : d.field # f
  BY <1>2 DEF Edited, Diffs
<1>3. ASSUME NEW f \in Fields, f \in Changed(c, edits)
      PROVE  \E d \in Diffs(c, edits) : /\ d.field = f /\ d.before = fields[c][f]
                                        /\ d.after = Edited(c, edits)[f] /\ d.before # d.after
  <2>1. [field |-> f, before |-> fields[c][f], after |-> edits[f]] \in Diffs(c, edits)
    BY <1>3 DEF Diffs
  <2>2. Edited(c, edits)[f] = edits[f] /\ edits[f] # fields[c][f]
    BY <1>3 DEF Edited, Changed
  <2>. QED BY <2>1, <2>2
<1>4. Diffs(c, edits) = {} => Edited(c, edits) = fields[c]
  <2> SUFFICES ASSUME Diffs(c, edits) = {} PROVE Edited(c, edits) = fields[c]
    OBVIOUS
  <2>1. \A f \in Fields : f \notin Changed(c, edits)
    BY <1>3
  <2>. QED BY <1>1, <2>1 DEF Edited
<1>. QED BY <1>2, <1>3, <1>4

\* A request that passes the check.  If another one holds the claim, the claim is
\* raced from now on; if not, the claim is untouched and this request is alone.
LEMMA CheckInv ==
  ASSUME IInv, NEW r \in Requests, NEW c \in Claims, NEW to \in Decisions, NEW edits \in Edits,
         request[r].phase = "idle", status[c] = "in_human_review",
         request' = [request EXCEPT ![r] =
                       [phase |-> "checked", claim |-> c, to |-> to,
                        diffs |-> Diffs(c, edits), fields |-> Edited(c, edits)]],
         raced' = IF Held(c) # {} THEN raced \cup {c} ELSE raced,
         UNCHANGED <<status, fields, trail>>
  PROVE  UnseenInv' /\ HeldInv' /\ StatusIsExplained' /\ EditsAreTraceable' /\ TrailReplays'
<1>0. TablesOK /\ HeldInv /\ StatusIsExplained /\ EditsAreTraceable
  BY DEF IInv
<1>1. /\ \A k \in Requests \ {r} : request'[k] = request[k]
      /\ request'[r].claim = c /\ request'[r].diffs = Diffs(c, edits)
      /\ request'[r].fields = Edited(c, edits) /\ request'[r].phase = "checked"
  BY <1>0 DEF TablesOK
<1>2. Held(c)' = Held(c) \cup {r} /\ \A other \in Claims \ {c} : Held(other)' = Held(other)
  BY <1>1 DEF Held
<1>3. trail[c] = <<>> /\ fields[c] = Written[c]
  <2>1. trail[c] # <<>> => trail[c][Len(trail[c])].to \in Decisions
    BY <1>0, LastDecision
  <2>. QED BY <1>0, <2>1 DEF StatusIsExplained, Decisions
<1>4. HeldInv!(r)'
  <2>1. \A f \in Fields :
           \/ Edited(c, edits)[f] = Written[c][f]
           \/ \E d \in Diffs(c, edits) : d.field = f /\ d.after = Edited(c, edits)[f]
    BY <1>0, <1>3, EditReplays
  <2>2. /\ Replays(c, Diffs(c, edits), Edited(c, edits))
        /\ Diffs(c, edits) = {} => Edited(c, edits) = Written[c]
    BY <1>0, <1>3, EditReplays DEF Replays
  <2>3. c \notin raced' => Held(c)' = {r}
    BY <1>2
  <2>. QED BY <1>1, <2>1, <2>2, <2>3 DEF Replays, Traceable
<1>5. ASSUME NEW k \in Requests \ {r}, request'[k].phase = "checked" PROVE HeldInv!(k)'
  <2>0. request'[k] = request[k] /\ request[k].phase = "checked"
    BY <1>1, <1>5
  <2>1. request[k].claim \in Claims /\ HeldInv!(k)
    BY <1>0, <2>0, CheckedRequest DEF HeldInv
  <2>2. k \in Held(request[k].claim)
    BY <2>0 DEF Held
  <2>3. request[k].claim \notin raced' =>
           request[k].claim # c /\ Held(request[k].claim)' = Held(request[k].claim)
    BY <1>2, <2>1, <2>2
  <2>. QED BY <1>5, <2>0, <2>1, <2>3 DEF Traceable, Replays
<1>6. HeldInv'
  BY <1>4, <1>5 DEF HeldInv
<1>. QED
  BY <1>6 DEF IInv, UnseenInv, StatusIsExplained, EditsAreTraceable, TrailReplays

\* What a commit leaves: one more row in the claim's trail, the others untouched.
LEMMA CommitTables ==
  ASSUME TablesOK, NEW r \in Requests, Commit(r)
  PROVE  LET q == request[r] c == q.claim IN
         /\ request[r].phase = "checked"
         /\ c \in Claims /\ q.to \in Decisions
         /\ status'[c] = q.to
         /\ fields'[c] = IF q.diffs = {} THEN fields[c] ELSE q.fields
         /\ Len(trail[c]) \in Nat /\ Len(trail'[c]) = Len(trail[c]) + 1
         /\ \A i \in 1..Len(trail[c]) : trail'[c][i] = trail[c][i]
         /\ trail'[c][Len(trail[c]) + 1] = [to |-> q.to, edits |-> q.diffs]
         /\ \A d \in Claims \ {c} :
               status'[d] = status[d] /\ fields'[d] = fields[d] /\ trail'[d] = trail[d]
         /\ request'[r].phase # "checked"
         /\ \A k \in Requests \ {r} : request'[k] = request[k]
         /\ raced' = raced
<1>1. /\ request[r].claim \in Claims /\ request[r].to \in Decisions
      /\ request[r].diffs \in SUBSET Diff /\ request[r].phase = "checked"
  BY CheckedRequest DEF Commit
<1>2. trail[request[r].claim] \in Seq(Row)
        /\ [to |-> request[r].to, edits |-> request[r].diffs] \in Row
  BY <1>1 DEF TablesOK, Row
<1>3. trail'[request[r].claim]
        = Append(trail[request[r].claim], [to |-> request[r].to, edits |-> request[r].diffs])
  BY <1>1 DEF TablesOK, Commit
<1>4. /\ Len(trail[request[r].claim]) \in Nat
      /\ Len(trail'[request[r].claim]) = Len(trail[request[r].claim]) + 1
      /\ \A i \in 1..Len(trail[request[r].claim]) :
            trail'[request[r].claim][i] = trail[request[r].claim][i]
      /\ trail'[request[r].claim][Len(trail[request[r].claim]) + 1]
            = [to |-> request[r].to, edits |-> request[r].diffs]
  BY <1>2, <1>3
<1>5. /\ status'[request[r].claim] = request[r].to
      /\ fields'[request[r].claim]
            = IF request[r].diffs = {} THEN fields[request[r].claim] ELSE request[r].fields
      /\ \A d \in Claims \ {request[r].claim} :
            status'[d] = status[d] /\ fields'[d] = fields[d] /\ trail'[d] = trail[d]
  BY <1>1 DEF TablesOK, Commit
<1>6. request'[r].phase # "checked" /\ \A k \in Requests \ {r} : request'[k] = request[k]
  BY DEF TablesOK, Commit
<1>. QED BY <1>1, <1>4, <1>5, <1>6 DEF Commit

\* A commit.  Without a race the request was alone, so the claim was untouched
\* and its one row replays; with a race its values are traceable all the same.
LEMMA CommitInv ==
  ASSUME IInv, NEW r \in Requests, Commit(r)
  PROVE  UnseenInv' /\ HeldInv' /\ StatusIsExplained' /\ EditsAreTraceable' /\ TrailReplays'
<1> DEFINE q == request[r]
           c == q.claim
<1>0. TablesOK /\ HeldInv!(r)
  BY DEF IInv, HeldInv
<1>1. /\ q.phase = "checked" /\ c \in Claims /\ q.to \in Decisions /\ status'[c] = q.to
      /\ fields'[c] = IF q.diffs = {} THEN fields[c] ELSE q.fields
      /\ Len(trail[c]) \in Nat /\ Len(trail'[c]) = Len(trail[c]) + 1
      /\ \A i \in 1..Len(trail[c]) : trail'[c][i] = trail[c][i]
      /\ trail'[c][Len(trail[c]) + 1] = [to |-> q.to, edits |-> q.diffs]
  BY <1>0, CommitTables
<1>2. \A d \in Claims \ {c} :
         status'[d] = status[d] /\ fields'[d] = fields[d] /\ trail'[d] = trail[d]
  BY <1>0, CommitTables
<1>3. /\ request'[r].phase # "checked" /\ raced' = raced
      /\ \A k \in Requests \ {r} : request'[k] = request[k]
  BY <1>0, CommitTables
<1>4. trail'[c] # <<>>
  BY <1>1
<1>5. UnseenInv'
  BY <1>1, <1>2 DEF IInv, UnseenInv, Decisions
<1>6. StatusIsExplained'
  BY <1>1, <1>2, <1>4 DEF IInv, StatusIsExplained
<1>7. ASSUME NEW f \in Fields, NEW v, Traceable(c, f, v)
      PROVE  \/ v = Written[c][f]
             \/ \E i \in 1..Len(trail'[c]) : \E d \in trail'[c][i].edits :
                   d.field = f /\ d.after = v
  <2> SUFFICES ASSUME NEW i \in 1..Len(trail[c]), NEW d \in trail[c][i].edits,
                      d.field = f, d.after = v
               PROVE  \E j \in 1..Len(trail'[c]) : \E e \in trail'[c][j].edits :
                         e.field = f /\ e.after = v
    BY <1>7 DEF Traceable
  <2>1. i \in 1..Len(trail'[c]) /\ d \in trail'[c][i].edits
    BY <1>1
  <2>. QED BY <2>1
<1>8. EditsAreTraceable'
  <2> SUFFICES ASSUME NEW d \in Claims, NEW f \in Fields
               PROVE  EditsAreTraceable!(d, f)'
    BY DEF EditsAreTraceable
  <2>1. CASE d # c
    BY <1>2, <2>1 DEF IInv, EditsAreTraceable
  <2>2. CASE d = c /\ q.diffs = {}
    <3>1. Traceable(c, f, fields[c][f])
      BY <1>1 DEF IInv, EditsAreTraceable, Traceable
    <3>. QED BY <1>1, <1>7, <2>2, <3>1
  <2>3. CASE d = c /\ q.diffs # {}
    <3>1. CASE Traceable(c, f, q.fields[f])
      BY <1>1, <1>7, <2>3, <3>1
    <3>2. CASE \E e \in q.diffs : e.field = f /\ e.after = q.fields[f]
      <4>1. Len(trail[c]) + 1 \in 1..Len(trail'[c]) /\ trail'[c][Len(trail[c]) + 1].edits = q.diffs
        BY <1>1
      <4>. QED BY <1>1, <2>3, <3>2, <4>1
    <3>. QED BY <1>0, <1>1, <3>1, <3>2
  <2>. QED BY <2>1, <2>2, <2>3
<1>9. TrailReplays'
  <2> SUFFICES ASSUME NEW d \in Claims, d \notin raced PROVE TrailReplays!(d)'
    BY <1>3 DEF TrailReplays
  <2>1. CASE d # c
    BY <1>2, <2>1 DEF IInv, TrailReplays
  <2>2. CASE d = c
    <3>1. /\ status[c] = "in_human_review" /\ Replays(c, q.diffs, q.fields)
          /\ q.diffs = {} => q.fields = Written[c]
      BY <1>0, <1>1, <2>2
    <3>2. trail[c] = <<>> /\ fields[c] = Written[c]
      <4>1. trail[c] # <<>> => trail[c][Len(trail[c])].to \in Decisions
        BY <1>0, <1>1, LastDecision
      <4>. QED BY <1>1, <3>1, <4>1 DEF IInv, StatusIsExplained, Decisions
    <3>3. Len(trail'[c]) = 1 /\ trail'[c][1].edits = q.diffs /\ fields'[c] = q.fields
      BY <1>1, <3>1, <3>2
    <3>. QED BY <2>2, <3>1, <3>3 DEF Replays
  <2>. QED BY <2>1, <2>2
<1>10. HeldInv'
  <2> SUFFICES ASSUME NEW k \in Requests, request'[k].phase = "checked" PROVE HeldInv!(k)'
    BY DEF HeldInv
  <2>1. k # r /\ request'[k] = request[k] /\ request[k].phase = "checked"
    BY <1>3
  <2>2. request[k].claim \in Claims /\ HeldInv!(k)
    BY <1>0, <2>1, CheckedRequest DEF IInv, HeldInv
  <2>3. CASE request[k].claim # c
    <3>1. Held(request[k].claim)' = Held(request[k].claim)
      BY <1>3, <2>1, <2>3 DEF Held
    <3>. QED BY <1>2, <1>3, <2>1, <2>2, <2>3, <3>1 DEF Traceable, Replays
  <2>4. CASE request[k].claim = c
    <3>1. c \in raced
      <4>1. r \in Held(c) /\ k \in Held(c)
        BY <1>1, <2>1, <2>4 DEF Held
      <4>. QED BY <1>0, <1>1, <2>1, <4>1
    <3>2. ASSUME NEW f \in Fields
          PROVE  \/ request[k].fields[f] = Written[c][f]
                 \/ \E i \in 1..Len(trail'[c]) : \E d \in trail'[c][i].edits :
                       d.field = f /\ d.after = request[k].fields[f]
                 \/ \E d \in request[k].diffs : d.field = f /\ d.after = request[k].fields[f]
      <4>1. CASE Traceable(c, f, request[k].fields[f])
        BY <1>7, <4>1
      <4>2. CASE \E d \in request[k].diffs : d.field = f /\ d.after = request[k].fields[f]
        BY <4>2
      <4>. QED BY <2>1, <2>2, <2>4, <4>1, <4>2
    <3>3. status'[c] # "none"
      BY <1>1 DEF Decisions
    <3>4. request'[k].claim = c /\ request'[k].claim \in raced'
      BY <1>3, <2>1, <2>4, <3>1
    <3>. QED BY <2>1, <3>2, <3>3, <3>4 DEF Traceable
  <2>. QED BY <2>3, <2>4
<1>. QED BY <1>5, <1>6, <1>8, <1>9, <1>10

\* A claim comes in.  Nobody holds it and its trail is empty.
LEMMA ArriveInv ==
  ASSUME IInv, NEW c \in Claims, Arrive(c)
  PROVE  UnseenInv' /\ HeldInv' /\ StatusIsExplained' /\ EditsAreTraceable' /\ TrailReplays'
<1>1. /\ status[c] = "none" /\ trail[c] = <<>>
      /\ status'[c] \in {"in_human_review", "approved"}
      /\ \A d \in Claims \ {c} : status'[d] = status[d]
  BY DEF IInv, TablesOK, UnseenInv, Arrive
<1>2. HeldInv'
  <2> SUFFICES ASSUME NEW k \in Requests, request[k].phase = "checked" PROVE HeldInv!(k)'
    BY DEF HeldInv, Arrive
  <2>1. HeldInv!(k) /\ request[k].claim \in Claims
    BY CheckedRequest DEF IInv, HeldInv
  <2>2. request[k].claim # c
    BY <1>1, <2>1
  <2>. QED BY <1>1, <2>1, <2>2 DEF Arrive, Held, Traceable, Replays
<1>3. StatusIsExplained'
  BY <1>1 DEF IInv, StatusIsExplained, Arrive
<1>. QED BY <1>1, <1>2, <1>3 DEF IInv, UnseenInv, EditsAreTraceable, TrailReplays, Arrive

LEMMA NextInv == IInv /\ [Next]_vars => IInv'
<1> SUFFICES ASSUME IInv, [Next]_vars PROVE IInv'
  OBVIOUS
<1>0. TablesOK'
  BY NextTables DEF IInv
<1>1. CASE UNCHANGED vars
  BY <1>1, IInvStable DEF vars
<1>2. ASSUME NEW c \in Claims, Arrive(c) PROVE IInv'
  BY <1>0, <1>2, ArriveInv DEF IInv
<1>3. ASSUME NEW r \in Requests, NEW c \in Claims, NEW to \in Decisions, NEW edits \in Edits,
             NEW valid \in BOOLEAN, Check(r, c, to, edits, valid)
      PROVE  IInv'
  <2>1. CASE \E answer \in {"conflict", "refused"} : Answer(r, answer)
    BY <1>0, <1>3, <2>1, AnswerInv DEF Check, IInv
  <2>2. CASE /\ Accepts(c)
             /\ request' = [request EXCEPT ![r] =
                              [phase |-> "checked", claim |-> c, to |-> to,
                               diffs |-> Diffs(c, edits), fields |-> Edited(c, edits)]]
             /\ raced' = IF Held(c) # {} THEN raced \cup {c} ELSE raced
    BY <1>0, <1>3, <2>2, CheckInv DEF Check, Accepts, IInv
  <2>. QED BY <1>3, <2>1, <2>2 DEF Check
<1>4. ASSUME NEW r \in Requests, Commit(r) PROVE IInv'
  BY <1>0, <1>4, CommitInv DEF IInv
<1>5. ASSUME NEW r \in Requests, CommitFails(r) PROVE IInv'
  BY <1>0, <1>5, AnswerInv DEF CommitFails, IInv
<1>6. CASE Refresh
  BY <1>6, IInvStable DEF Refresh, CountReview, CountApproved, Publish, RefreshFails
<1>. QED BY <1>1, <1>2, <1>3, <1>4, <1>5, <1>6 DEF Next, Decide

-----------------------------------------------------------------------------
(* The theorems.                                                            *)

\* The inductive invariant holds in every reachable state.
THEOREM Invariance == Spec => []IInv
BY InitInv, NextInv, PTL DEF Spec

\* However requests overlap, a claim's status is that of its last recorded
\* decision, and a claim nobody decided is as the pipeline left it.
THEOREM StatusExplained == Spec => []StatusIsExplained
<1>1. IInv => StatusIsExplained
  BY DEF IInv
<1>. QED BY <1>1, Invariance, PTL

\* However requests overlap, no stored value is without a source: the pipeline
\* or an audited edit.
THEOREM EditsTraced == Spec => []EditsAreTraceable
<1>1. IInv => EditsAreTraceable
  BY DEF IInv
<1>. QED BY <1>1, Invariance, PTL

\* A claim that no two requests held at once has one decision at most, and the
\* audited edits turn the pipeline's extraction into the stored one.
THEOREM TrailsReplay == Spec => []TrailReplays
<1>1. IInv => TrailReplays
  BY DEF IInv
<1>. QED BY <1>1, Invariance, PTL

\* And its decision is final.
THEOREM DecisionsAreFinal == Spec => DecisionIsFinal
<1>1. IInv /\ [Next]_vars =>
        [\A c \in Claims \ raced :
            status[c] \in Decisions => status'[c] = status[c] /\ fields'[c] = fields[c]
        ]_<<status, fields>>
  <2> SUFFICES ASSUME IInv, Next, NEW c \in Claims, c \notin raced, status[c] \in Decisions
               PROVE  status'[c] = status[c] /\ fields'[c] = fields[c]
    BY DEF vars
  <2>1. ASSUME NEW d \in Claims, Arrive(d) PROVE status'[c] = status[c] /\ fields'[c] = fields[c]
    BY <2>1 DEF IInv, TablesOK, Arrive, Decisions
  <2>2. ASSUME NEW r \in Requests, Commit(r)
        PROVE  status'[c] = status[c] /\ fields'[c] = fields[c]
    <3>1. request[r].phase = "checked" /\ HeldInv!(r)
      BY <2>2 DEF IInv, HeldInv, Commit
    <3>2. request[r].claim # c
      BY <3>1 DEF Decisions
    <3>. QED BY <2>2, <3>2 DEF IInv, TablesOK, Commit
  <2>3. CASE UNCHANGED <<status, fields>>
    BY <2>3
  <2>. QED
    BY <2>1, <2>2, <2>3
    DEF Next, Decide, Check, CommitFails, Refresh, CountReview, CountApproved, Publish,
        RefreshFails
<1>. QED BY <1>1, Invariance, PTL DEF Spec, DecisionIsFinal

-----------------------------------------------------------------------------
(* The refinement.                                                          *)

\* A step that changes no status and no history is no step of the lifecycle.
LEMMA StageStutters == UNCHANGED <<status, raced>> => UNCHANGED Lifecycle!vars
BY DEF Lifecycle!vars

\* A commit decides a claim in review, or overrules where two requests raced.
LEMMA CommitDecides ==
  ASSUME IInv, NEW r \in Requests, Commit(r)
  PROVE  Lifecycle!Decide(request[r].claim) \/ Lifecycle!Overrule(request[r].claim)
<1> DEFINE c == request[r].claim
           S == [k \in Claims |-> IF status[k] = "none" THEN "received" ELSE status[k]]
<1>1. /\ c \in Claims /\ request[r].to \in Decisions
      /\ status[c] \in {"in_human_review"} \cup Decisions
      /\ c \notin raced => status[c] = "in_human_review"
  <2>1. request[r].phase = "checked" /\ HeldInv!(r)
    BY DEF IInv, HeldInv, Commit
  <2>2. request[r] \in Checked
    BY <2>1 DEF IInv, TablesOK, Checked, Finished
  <2>. QED BY <2>1, <2>2 DEF IInv, TablesOK, Checked, Statuses, Decisions
<1>2. status' = [status EXCEPT ![c] = request[r].to] /\ raced' = raced
  BY DEF Commit
<1>3. S' = [S EXCEPT ![c] = request[r].to] /\ S[c] = status[c]
  BY <1>1, <1>2 DEF IInv, TablesOK, Decisions
<1>. HIDE DEF S
<1>4. CASE status[c] = "in_human_review"
  <2>1. Lifecycle!Decide(c)
    BY <1>1, <1>2, <1>3, <1>4 DEF Lifecycle!Decide, Lifecycle!Move, Lifecycle!Decisions, Decisions, S
  <2>. QED BY <2>1
<1>5. CASE c \in raced /\ status[c] \in Decisions
  <2>1. Lifecycle!Overrule(c)
    BY <1>1, <1>2, <1>3, <1>5
       DEF Lifecycle!Overrule, Lifecycle!Move, Lifecycle!Decisions, Decisions, S
  <2>. QED BY <2>1
<1>. QED BY <1>1, <1>4, <1>5

\* Whatever the operators' requests do to a claim is a triage, one decision, or
\* the overruling of a decision by another that was under way at the same time.
THEOREM QueueImplementsLifecycle == Spec => ImplementsLifecycle
<1>1. Init => Lifecycle!Init
  BY DEF Init, Lifecycle!Init
<1>2. IInv /\ [Next]_vars => [Lifecycle!Next]_(Lifecycle!vars)
  <2> SUFFICES ASSUME IInv, [Next]_vars PROVE Lifecycle!Next \/ UNCHANGED Lifecycle!vars
    OBVIOUS
  <2>1. ASSUME NEW c \in Claims, Arrive(c) PROVE Lifecycle!Triage(c)
    BY <2>1 DEF IInv, TablesOK, Arrive, Lifecycle!Triage, Lifecycle!Move
  <2>2. ASSUME NEW r \in Requests, NEW c \in Claims, NEW to \in Decisions, NEW edits \in Edits,
               NEW valid \in BOOLEAN, Check(r, c, to, edits, valid)
        PROVE  Lifecycle!Contest(c) \/ UNCHANGED Lifecycle!vars
    <3>1. CASE raced' = raced
      BY <2>2, <3>1, StageStutters DEF Check
    <3>2. CASE raced' # raced
      <4>1. Accepts(c) /\ raced' = raced \cup {c} /\ status' = status
        BY <2>2, <3>2 DEF Check, Answer
      <4>. QED BY <4>1 DEF Accepts, Lifecycle!Contest
    <3>. QED BY <3>1, <3>2
  <2>3. ASSUME NEW r \in Requests, Commit(r)
        PROVE  Lifecycle!Next
    <3>1. request[r].claim \in Claims
      BY <2>3 DEF IInv, TablesOK, Commit, Checked, Finished
    <3>2. PICK c \in Claims : c = request[r].claim
      BY <3>1
    <3>3. Lifecycle!Decide(c) \/ Lifecycle!Overrule(c)
      BY <2>3, <3>2, CommitDecides DEF Lifecycle!Decide, Lifecycle!Overrule, Lifecycle!Move
    <3>. QED BY <3>3 DEF Lifecycle!Next
  <2>4. CASE UNCHANGED <<status, raced>>
    BY <2>4, StageStutters
  <2>. QED
    BY <2>1, <2>2, <2>3, <2>4
    DEF vars, Next, Decide, CommitFails, Answer, Refresh, CountReview, CountApproved, Publish,
        RefreshFails, Lifecycle!Next
<1>. QED BY <1>1, <1>2, Invariance, PTL DEF Spec, ImplementsLifecycle, Lifecycle!Spec

-----------------------------------------------------------------------------
(* The gauges.  The trail only grows, so what a tick counts later is at     *)
(* least what it would have counted when it began.                          *)

RowsFinite == \A to \in Decisions : IsFiniteSet(RowSet(to))

\* Between its queries a tick has already counted, or still will, every claim
\* that was queued when it began.
TickInv ==
    /\ refresh.phase = "review" =>
          refresh.queued <= refresh.review + Rows("approved") + Rows("archived")
    /\ refresh.phase = "approved" =>
          refresh.queued <= refresh.review + refresh.approved + Rows("archived")

GaugeInv == /\ TypeOK
            /\ RowsFinite
            /\ TickInv
            /\ GaugesCoverTheQueue

LEMMA RowMembers ==
  ASSUME NEW to, NEW x
  PROVE  x \in RowSet(to) <=>
           \E c \in Claims : \E i \in 1..Len(trail[c]) : trail[c][i].to = to /\ x = <<c, i>>
<1>1. ASSUME x \in RowSet(to)
      PROVE  \E c \in Claims : \E i \in 1..Len(trail[c]) : trail[c][i].to = to /\ x = <<c, i>>
  BY <1>1 DEF RowSet
<1>2. ASSUME NEW c \in Claims, NEW i \in 1..Len(trail[c]), trail[c][i].to = to, x = <<c, i>>
      PROVE  x \in RowSet(to)
  BY <1>2 DEF RowSet
<1>. QED BY <1>1, <1>2

LEMMA RowMembersNext ==
  ASSUME NEW to, NEW x
  PROVE  x \in RowSet(to)' <=>
           \E c \in Claims : \E i \in 1..Len(trail'[c]) : trail'[c][i].to = to /\ x = <<c, i>>
<1>1. ASSUME x \in RowSet(to)'
      PROVE  \E c \in Claims : \E i \in 1..Len(trail'[c]) : trail'[c][i].to = to /\ x = <<c, i>>
  BY <1>1 DEF RowSet
<1>2. ASSUME NEW c \in Claims, NEW i \in 1..Len(trail'[c]), trail'[c][i].to = to, x = <<c, i>>
      PROVE  x \in RowSet(to)'
  BY <1>2 DEF RowSet
<1>. QED BY <1>1, <1>2

LEMMA CountsAreNats ==
  ASSUME RowsFinite
  PROVE  InReview \in Nat /\ Queued \in Nat /\ \A to \in Decisions : Rows(to) \in Nat
<1>1. \A S \in SUBSET Claims : Cardinality(S) \in Nat
  BY ClaimsAssumption, FS_Subset, FS_CardinalityType
<1>2. \A to \in Decisions : Rows(to) \in Nat
  BY FS_CardinalityType DEF RowsFinite, Rows
<1>. QED BY <1>1, <1>2 DEF InReview, Queued

\* A committed decision adds its row and removes none.
LEMMA CommitRows ==
  ASSUME TablesOK, RowsFinite, NEW r \in Requests, Commit(r), NEW to \in Decisions
  PROVE  IsFiniteSet(RowSet(to)') /\ Rows(to) <= Rows(to)'
<1> DEFINE c == request[r].claim
           new == <<c, Len(trail[c]) + 1>>
<1>1. /\ c \in Claims /\ Len(trail[c]) \in Nat /\ Len(trail'[c]) = Len(trail[c]) + 1
      /\ \A i \in 1..Len(trail[c]) : trail'[c][i] = trail[c][i]
      /\ \A d \in Claims \ {c} : trail'[d] = trail[d]
  BY CommitTables
<1>2. ASSUME NEW x PROVE x \in RowSet(to) => x \in RowSet(to)'
  <2> SUFFICES ASSUME NEW d \in Claims, NEW i \in 1..Len(trail[d]), trail[d][i].to = to,
                      x = <<d, i>>
               PROVE  x \in RowSet(to)'
    BY RowMembers
  <2>1. i \in 1..Len(trail'[d]) /\ trail'[d][i] = trail[d][i]
    BY <1>1
  <2>. QED BY <2>1, RowMembersNext
<1>3. ASSUME NEW x PROVE x \in RowSet(to)' => x \in RowSet(to) \cup {new}
  <2> SUFFICES ASSUME NEW d \in Claims, NEW i \in 1..Len(trail'[d]), trail'[d][i].to = to,
                      x = <<d, i>>, x # new
               PROVE  x \in RowSet(to)
    BY RowMembersNext
  <2>1. i \in 1..Len(trail[d]) /\ trail'[d][i] = trail[d][i]
    BY <1>1
  <2>. QED BY <2>1, RowMembers
<1>4. IsFiniteSet(RowSet(to)')
  <2>1. IsFiniteSet(RowSet(to) \cup {new})
    BY FS_AddElement DEF RowsFinite
  <2>2. RowSet(to)' \in SUBSET (RowSet(to) \cup {new})
    BY <1>3
  <2>. QED BY <2>1, <2>2, FS_Subset
<1>5. RowSet(to) \in SUBSET RowSet(to)'
  BY <1>2
<1>. QED BY <1>4, <1>5, FS_Subset DEF Rows

\* Every claim that is or was in the queue is in review or has a row.
LEMMA QueuedIsCounted ==
  ASSUME TablesOK, RowsFinite
  PROVE  Queued <= InReview + Rows("approved") + Rows("archived")
<1> DEFINE Review == {c \in Claims : status[c] = "in_human_review"}
           Decided == {c \in Claims : trail[c] # <<>>}
           Recorded == RowSet("approved") \cup RowSet("archived")
           First == [c \in Decided |-> <<c, 1>>]
<1>1. IsFiniteSet(Review) /\ IsFiniteSet(Decided)
  BY ClaimsAssumption, FS_Subset
<1>2. IsFiniteSet(RowSet("approved")) /\ IsFiniteSet(RowSet("archived"))
  BY DEF RowsFinite, Decisions
<1>3. IsFiniteSet(Recorded) /\ Cardinality(Recorded) <= Rows("approved") + Rows("archived")
  <2>1. Cardinality(Recorded) = Rows("approved") + Rows("archived")
                                 - Cardinality(RowSet("approved") \cap RowSet("archived"))
    BY <1>2, FS_Union DEF Rows
  <2>2. Cardinality(RowSet("approved") \cap RowSet("archived")) \in Nat
    BY <1>2, FS_Intersection, FS_CardinalityType
  <2>3. Rows("approved") \in Nat /\ Rows("archived") \in Nat
    BY CountsAreNats DEF Decisions
  <2>4. IsFiniteSet(Recorded)
    BY <1>2, FS_Union
  <2> HIDE DEF Recorded
  <2>. QED BY <2>1, <2>2, <2>3, <2>4
<1>4. First \in Injection(Decided, Recorded)
  <2>1. ASSUME NEW c \in Decided PROVE First[c] \in Recorded
    <3>1. trail[c] \in Seq(Row) /\ 1 \in 1..Len(trail[c])
      BY DEF TablesOK
    <3>2. trail[c][1] \in Row
      BY <3>1
    <3>3. trail[c][1].to \in Decisions
      BY <3>2 DEF Row
    <3>. QED BY <3>1, <3>3, RowMembers DEF Decisions
  <2>2. First \in [Decided -> Recorded]
    BY <2>1
  <2>3. \A c, d \in Decided : First[c] = First[d] => c = d
    OBVIOUS
  <2> HIDE DEF First, Decided, Recorded
  <2>. QED BY <2>2, <2>3 DEF Injection, IsInjective
<1>5. Cardinality(Decided) <= Cardinality(Recorded)
  BY <1>3, <1>4, FS_Injection
<1>6. Queued = Cardinality(Review \cup Decided)
  <2>1. Review \cup Decided = {c \in Claims : status[c] = "in_human_review" \/ trail[c] # <<>>}
    OBVIOUS
  <2>. QED BY <2>1 DEF Queued
<1>7. Cardinality(Review \cup Decided)
        = InReview + Cardinality(Decided) - Cardinality(Review \cap Decided)
  BY <1>1, FS_Union DEF InReview
<1>8. /\ Cardinality(Review \cap Decided) \in Nat /\ Cardinality(Decided) \in Nat
      /\ InReview \in Nat /\ Cardinality(Recorded) \in Nat
      /\ Rows("approved") \in Nat /\ Rows("archived") \in Nat
  BY <1>1, <1>3, FS_Intersection, FS_CardinalityType, CountsAreNats DEF Decisions
<1> HIDE DEF Review, Decided, Recorded
<1>. QED BY <1>3, <1>5, <1>6, <1>7, <1>8

LEMMA InitGauges == Init => GaugeInv
<1> SUFFICES ASSUME Init PROVE GaugeInv
  OBVIOUS
<1>1. TypeOK
  BY InitTables DEF Init, TypeOK, TablesOK, Tick, Gauges
<1>2. \A to \in Decisions : RowSet(to) = {}
  BY RowMembers DEF Init
<1>3. RowsFinite
  BY <1>2, FS_EmptySet DEF RowsFinite
<1>. QED BY <1>1, <1>3 DEF GaugeInv, TickInv, GaugesCoverTheQueue, Init

LEMMA NextGauges == GaugeInv /\ [Next]_vars => GaugeInv'
<1> SUFFICES ASSUME GaugeInv, [Next]_vars PROVE GaugeInv'
  OBVIOUS
<1>0. /\ TypeOK /\ RowsFinite /\ TablesOK /\ TablesOK'
      /\ refresh \in Tick /\ gauges \in Gauges
  BY NextTables DEF GaugeInv, TypeOK, TablesOK
<1>1. InReview \in Nat /\ Queued \in Nat /\ Rows("approved") \in Nat /\ Rows("archived") \in Nat
  BY <1>0, CountsAreNats DEF Decisions
<1>2. ASSUME UNCHANGED <<trail, refresh, gauges>> PROVE GaugeInv'
  BY <1>0, <1>2 DEF GaugeInv, TypeOK, TablesOK, RowsFinite, RowSet, Rows, TickInv, GaugesCoverTheQueue
<1>3. ASSUME NEW r \in Requests, Commit(r) PROVE GaugeInv'
  <2>1. RowsFinite' /\ Rows("approved") <= Rows("approved")' /\ Rows("archived") <= Rows("archived")'
    BY <1>0, <1>3, CommitRows DEF RowsFinite, Decisions
  <2>2. Rows("approved")' \in Nat /\ Rows("archived")' \in Nat
    BY <2>1, FS_CardinalityType DEF RowsFinite, Rows, Decisions
  <2>3. UNCHANGED <<refresh, gauges>>
    BY <1>3 DEF Commit
  <2>4. TickInv'
    BY <1>0, <1>1, <2>1, <2>2, <2>3 DEF GaugeInv, TickInv, Tick
  <2>. QED BY <1>0, <2>1, <2>3, <2>4 DEF GaugeInv, TypeOK, TablesOK, GaugesCoverTheQueue
<1>4. ASSUME UNCHANGED <<status, fields, trail, request, raced>>, refresh' \in Tick,
             gauges' \in Gauges, TickInv', GaugesCoverTheQueue'
      PROVE  GaugeInv'
  BY <1>0, <1>4 DEF GaugeInv, TypeOK, TablesOK, RowsFinite, RowSet
<1>5. ASSUME UNCHANGED trail
      PROVE  Rows("approved")' = Rows("approved") /\ Rows("archived")' = Rows("archived")
  BY <1>5 DEF Rows, RowSet
<1>6. CASE CountReview
  <2>1. refresh' = [phase |-> "review", review |-> InReview, approved |-> 0, queued |-> Queued]
    BY <1>6 DEF CountReview
  <2>2. TickInv'
    BY <1>0, <1>1, <1>5, <1>6, <2>1, QueuedIsCounted DEF TickInv, CountReview
  <2>. QED BY <1>0, <1>1, <1>4, <1>6, <2>1, <2>2
           DEF CountReview, Tick, GaugeInv, GaugesCoverTheQueue
<1>7. CASE CountApproved
  <2>1. /\ refresh'.phase = "approved" /\ refresh'.review = refresh.review
        /\ refresh'.approved = Rows("approved") /\ refresh'.queued = refresh.queued
        /\ refresh' \in Tick
    BY <1>0, <1>1, <1>7 DEF CountApproved, Tick
  <2>2. TickInv'
    BY <1>0, <1>1, <1>5, <1>7, <2>1 DEF TickInv, GaugeInv, CountApproved
  <2>. QED BY <1>0, <1>4, <1>7, <2>1, <2>2 DEF CountApproved, GaugeInv, GaugesCoverTheQueue
<1>8. CASE Publish
  <2>1. /\ gauges' \in Gauges /\ refresh' \in Tick /\ refresh'.phase = "idle"
        /\ gauges'.review = refresh.review /\ gauges'.approved = refresh.approved
        /\ gauges'.rejected = Rows("archived") /\ gauges'.queued = refresh.queued
    BY <1>0, <1>1, <1>8 DEF Publish, Tick, Gauges
  <2>2. TickInv'
    BY <2>1 DEF TickInv
  <2>3. GaugesCoverTheQueue'
    BY <1>0, <1>1, <1>8, <2>1 DEF GaugeInv, TickInv, Tick, Publish, GaugesCoverTheQueue
  <2>. QED BY <1>4, <1>8, <2>1, <2>2, <2>3 DEF Publish
<1>9. CASE RefreshFails
  BY <1>0, <1>4, <1>9 DEF RefreshFails, Tick, TickInv, GaugeInv, GaugesCoverTheQueue
<1>. QED
  BY <1>2, <1>3, <1>6, <1>7, <1>8, <1>9
  DEF Next, vars, Arrive, Decide, Check, CommitFails, Refresh

\* Every variable stays in its range.
THEOREM TypeCorrect == Spec => []TypeOK
<1>1. GaugeInv => TypeOK
  BY DEF GaugeInv
<1>. QED BY <1>1, InitGauges, NextGauges, PTL DEF Spec

\* Whatever is decided while a tick runs, what it publishes accounts for every
\* claim that was queued when it began.
THEOREM GaugesCover == Spec => []GaugesCoverTheQueue
<1>1. GaugeInv => GaugesCoverTheQueue
  BY DEF GaugeInv
<1>. QED BY <1>1, InitGauges, NextGauges, PTL DEF Spec
=============================================================================

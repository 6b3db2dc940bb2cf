----------------------------- MODULE QueueScreen -----------------------------
(***************************************************************************)
(* The operator's queue page: the cached list that polling and refetches    *)
(* replace, the selection, the two-step reject, the form of the selected    *)
(* claim and the one request that may be under way, against a server that   *)
(* other operators use too.  ReviewQueue has the server's side of a         *)
(* decision; here it is one step.                                           *)
(*                                                                          *)
(* The page renders, and renews its key handler, after every event.         *)
(***************************************************************************)
EXTENDS Integers, Sequences, FiniteSets, SequencesExt, Selections

CONSTANTS
    Claims,
    Urgent,   \* claims whose urgency puts them before the others
    Waiting,  \* claims that wait when the page is opened, the oldest first
    Limit,    \* list_queue's limit
    None,     \* no claim
    MaxFaults \* bound: requests and answers the network loses

ASSUME ScreenAssumption ==
    /\ Urgent \subseteq Claims /\ None \notin Claims
    /\ Waiting \in Seq(Claims) /\ IsInjective(Waiting)
    /\ Limit \in Nat \ {0}

VARIABLES
    arrived,    \* claims in the order of their created_at
    decided,    \* claims that are not in_human_review any more
    list,       \* the cached items
    fetch,      \* the GET of the list
    selected,   \* selectedId
    confirming, \* confirmingReject
    help,       \* showHelp
    form,       \* claims whose fields were typed into the mounted form
    request,    \* the mutation
    faults,
    announced,  \* history: the claim the reject under way was announced on
    own,        \* history: claims whose decision was acknowledged to this page
    stale       \* history: a refetch failed, and none has succeeded since

server == <<arrived, decided>>
page   == <<selected, confirming, help, form, announced>>
vars   == <<arrived, decided, list, fetch, selected, confirming, help, form, request, faults,
            announced, own, stale>>

FetchPhases   == {"idle", "sent", "answered"}
RequestPhases == {"idle", "sent", "accepted", "refused", "refetching"}

NoFetch   == [phase |-> "idle", items |-> <<>>]
NoRequest == [phase |-> "idle", kind |-> "approve", claim |-> None, edits |-> {}]

Init == /\ arrived = Waiting /\ decided = {}
        /\ list = <<>> /\ fetch = NoFetch
        /\ selected = None /\ confirming = FALSE /\ help = FALSE /\ form = {}
        /\ request = NoRequest /\ faults = 0
        /\ announced = None /\ own = {} /\ stale = FALSE

Fault == faults < MaxFaults /\ faults' = faults + 1

-----------------------------------------------------------------------------
(* The server.                                                              *)

InReview == ToSet(arrived) \ decided

\* list_queue: by urgency, then by age, the first Limit.
Page ==
    LET ordered == Kept(arrived, InReview \cap Urgent) \o Kept(arrived, InReview \ Urgent)
    IN  SubSeq(ordered, 1, IF Len(ordered) < Limit THEN Len(ordered) ELSE Limit)

Arrive(c) ==
    /\ c \notin ToSet(arrived)
    /\ arrived' = Append(arrived, c)
    /\ UNCHANGED <<decided, list, fetch, page, request, faults, own, stale>>

OtherDecides(c) ==
    /\ c \in InReview
    /\ decided' = decided \cup {c}
    /\ UNCHANGED <<arrived, list, fetch, page, request, faults, own, stale>>

-----------------------------------------------------------------------------
(* What is shown.                                                           *)

\* activeId: the selection, while the list still has it.
Active == IF selected \in ToSet(list) THEN selected ELSE None

\* isSubmitting.
Submitting == request.phase # "idle"

\* Mutant: the form is not keyed by the claim.
KeepFormUnkeyed(typed) == form' = IF Active' = None THEN {} ELSE typed

\* key={selectedClaim.id}: another claim, another form.
KeepForm(typed) == form' = IF Active' = Active THEN typed ELSE {}

\* Mutant: the announced reject is carried over.
SelectClaimConfirming(c) == selected' = c /\ UNCHANGED <<confirming, announced>>

SelectClaim(c) == selected' = c /\ confirming' = FALSE /\ announced' = None

-----------------------------------------------------------------------------
(* The list.                                                                *)

\* Three seconds after the last fetch, which leaves a Settle due the time it
\* needs.
Poll ==
    /\ fetch.phase = "idle" /\ request.phase # "refetching"
    /\ fetch' = [NoFetch EXCEPT !.phase = "sent"]
    /\ UNCHANGED <<server, list, page, request, faults, own, stale>>

FetchRead ==
    /\ fetch.phase = "sent"
    /\ fetch' = [phase |-> "answered", items |-> Page]
    /\ UNCHANGED <<server, list, page, request, faults, own, stale>>

FetchArrives ==
    /\ fetch.phase = "answered"
    /\ list' = fetch.items /\ fetch' = NoFetch /\ stale' = FALSE
    /\ UNCHANGED <<server, selected, confirming, help, request, faults, announced, own>>
    /\ KeepForm(form)

\* The cached list stays.
FetchFails ==
    /\ fetch.phase # "idle" /\ Fault
    /\ fetch' = NoFetch /\ stale' = TRUE
    /\ UNCHANGED <<server, list, page, request, own>>

-----------------------------------------------------------------------------
(* The operator.  A key is ignored while the focus is in a field, which is  *)
(* an operator who does not press it.                                       *)

Click(c) ==
    /\ c \in ToSet(list) /\ ~help
    /\ SelectClaim(c)
    /\ UNCHANGED <<server, list, fetch, help, request, faults, own, stale>>
    /\ KeepForm(form)

Type ==
    /\ Active # None /\ ~help
    /\ form' = form \cup {Active}
    /\ UNCHANGED <<server, list, fetch, selected, confirming, help, request, faults, announced,
                   own, stale>>

\* '?' at any time; Escape, or the overlay's own button, closes it.
ToggleHelp ==
    /\ help' = ~help
    /\ UNCHANGED <<server, list, fetch, selected, confirming, form, request, faults, announced,
                   own, stale>>

CanAct == Active # None /\ ~Submitting /\ ~help

Send(kind, edits) ==
    request' = [phase |-> "sent", kind |-> kind, claim |-> Active, edits |-> edits]

\* The key approves the claim as it came, whatever was typed.
KeyApprove ==
    /\ CanAct /\ ~confirming
    /\ Send("approve", {})
    /\ UNCHANGED <<server, list, fetch, page, faults, own, stale>>

\* The button sends what differs from the extraction, also while a reject is
\* announced.
ClickApprove ==
    /\ CanAct
    /\ Send("approve", form)
    /\ UNCHANGED <<server, list, fetch, page, faults, own, stale>>

\* The first 'r', or "Reddet".
AnnounceReject ==
    /\ CanAct /\ ~confirming
    /\ confirming' = TRUE /\ announced' = Active
    /\ UNCHANGED <<server, list, fetch, selected, help, form, request, faults, own, stale>>

\* The second 'r', Enter, or "Reddi Onayla".
SubmitReject ==
    /\ CanAct /\ confirming
    /\ confirming' = FALSE /\ announced' = None
    /\ Send("reject", {})
    /\ UNCHANGED <<server, list, fetch, selected, help, form, faults, own, stale>>

\* Any other key; "Vazgec" also while a request is under way.
CancelReject ==
    /\ Active # None /\ ~help /\ confirming
    /\ confirming' = FALSE /\ announced' = None
    /\ UNCHANGED <<server, list, fetch, selected, help, form, request, faults, own, stale>>

-----------------------------------------------------------------------------
(* The decision.                                                            *)

ServerDecides ==
    /\ request.phase = "sent"
    /\ IF request.claim \in decided
       THEN request' = [request EXCEPT !.phase = "refused"] /\ UNCHANGED decided
       ELSE /\ request' = [request EXCEPT !.phase = "accepted"]
            /\ decided' = decided \cup {request.claim}
    /\ UNCHANGED <<arrived, list, fetch, page, faults, own, stale>>

\* The request did not reach the server, or its answer did not reach the page.
RequestLost ==
    /\ request.phase \in {"sent", "accepted"} /\ Fault
    /\ request' = [request EXCEPT !.phase = "refused"]
    /\ UNCHANGED <<server, list, fetch, page, own, stale>>

\* Mutant: the refetch joins a fetch that is under way already.
InvalidateJoins == fetch' = [fetch EXCEPT !.phase = IF @ = "idle" THEN "sent" ELSE @]

\* invalidateQueries: a fetch under way is cancelled and a new one sent.
Invalidate == fetch' = [NoFetch EXCEPT !.phase = "sent"]

Accepted ==
    /\ request.phase = "accepted"
    /\ request' = [request EXCEPT !.phase = "refetching"]
    /\ own' = own \cup {request.claim}
    /\ Invalidate
    /\ UNCHANGED <<server, list, page, faults, stale>>

\* selectNextAfter, when the refetch is through, also when it failed: whatever
\* was selected meanwhile.
SelectNextAfter(processed) ==
    LET others == SelectSeq(list, LAMBDA c : c # processed)
    IN  SelectClaim(IF others = <<>> THEN None ELSE others[1])

Settle ==
    /\ request.phase = "refetching" /\ fetch.phase = "idle"
    /\ request' = NoRequest
    /\ SelectNextAfter(request.claim)
    /\ UNCHANGED <<server, list, fetch, help, faults, own, stale>>
    /\ KeepForm(form)

\* Mutant: the page goes on to the next claim after an error too.
RefusedJumps ==
    /\ request.phase = "refused"
    /\ request' = NoRequest
    /\ SelectNextAfter(request.claim)
    /\ UNCHANGED <<server, list, fetch, help, faults, own, stale>>
    /\ KeepForm(form)

\* Mutant: an error leaves the request pending.
RefusedPending == request.phase = "refused" /\ UNCHANGED vars

Refused ==
    /\ request.phase = "refused"
    /\ request' = NoRequest
    /\ UNCHANGED <<server, list, fetch, page, faults, own, stale>>

Next == \/ \E c \in Claims : Arrive(c) \/ OtherDecides(c) \/ Click(c)
        \/ Poll \/ FetchRead \/ FetchArrives \/ FetchFails
        \/ Type \/ ToggleHelp
        \/ KeyApprove \/ ClickApprove \/ AnnounceReject \/ SubmitReject \/ CancelReject
        \/ ServerDecides \/ RequestLost \/ Accepted \/ Settle \/ Refused

\* The page polls, the network and the server answer, and the operator is at
\* work: with no claim open one is clicked, the help is closed, and of the times
\* a claim could be approved one is taken.
Fairness ==
    /\ WF_vars(Poll) /\ WF_vars(FetchRead) /\ WF_vars(FetchArrives)
    /\ WF_vars(ServerDecides) /\ WF_vars(Accepted) /\ WF_vars(Settle) /\ WF_vars(Refused)
    /\ WF_vars(help /\ ToggleHelp)
    /\ SF_vars(Active = None /\ \E c \in Claims : Click(c))
    /\ SF_vars(ClickApprove)

Spec == Init /\ [][Next]_vars /\ Fairness

-----------------------------------------------------------------------------
(* Properties.                                                              *)

\* A reject is sent only for the claim it was announced on, although the flag
\* does not say which claim that was, and the list, the selection and a request
\* may change between the two steps (Queue.tsx, confirmingReject).
RejectAnnounced ==
    [][request.phase = "idle" /\ request'.phase = "sent" /\ request'.kind = "reject"
         => request'.claim = announced]_vars

\* The corrections sent with an approval were typed for the claim it approves
\* (QueueDetail keyed by the claim).
EditsOfThisClaim == request.edits \subseteq {request.claim} /\ form \subseteq {Active}

\* Once its decision is through, the page does not show a claim it has decided:
\* an older list that was on its way is not put over the newer one, unless the
\* refetch itself failed (useQueue.ts, invalidateQueries).
OwnDecisionsLeave ==
    request.phase # "refetching" /\ ~stale => ToSet(list) \cap own = {}

\* What the operator has typed is thrown away only by a choice of another claim,
\* by the end of a decision that was accepted, or because the claim left the
\* list; a request or a poll that fails leaves it alone.
EditsOutlastFailures ==
    [][form # {} /\ form' = {} =>
         \/ \E c \in Claims : Click(c)
         \/ request.phase = "refetching" /\ request'.phase = "idle"
         \/ selected \notin ToSet(list')]_vars

\* Every claim that waits is decided in the end: no failed request, lost answer,
\* help overlay or claim that others took leaves the page unable to go on, and a
\* claim behind the first Limit moves up.  That the urgent ones come to an end
\* is part of the bound.
EveryClaimIsDecided ==
    \A c \in Claims : c \in ToSet(arrived) ~> c \in decided

==============================================================================

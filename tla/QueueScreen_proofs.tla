-------------------------- MODULE QueueScreen_proofs --------------------------
(***************************************************************************)
(* Theorems about QueueScreen, for every set of claims, page size and number *)
(* of faults, and every order in which lists, answers and keys arrive.       *)
(***************************************************************************)
EXTENDS QueueScreen, SequenceLemmas, TLAPS

-----------------------------------------------------------------------------
(* The invariant: what the flag, the form and the request do not say about   *)
(* their claim is that it is the selected one.                               *)

ConfirmsSelected == confirming => announced = selected

FormIsActive == form \subseteq {Active} /\ None \notin form

EditsAreOfTheRequest == request.edits \subseteq {request.claim}

ScreenInv == ConfirmsSelected /\ FormIsActive /\ EditsAreOfTheRequest

\* A form that is kept is the form of the claim that stays open.
LEMMA KeptForm ==
  ASSUME FormIsActive, KeepForm(form)
  PROVE  FormIsActive'
BY DEF FormIsActive, KeepForm

LEMMA InitScreen == Init => ScreenInv
BY DEF Init, ScreenInv, ConfirmsSelected, FormIsActive, EditsAreOfTheRequest, NoRequest

LEMMA NextScreen == ScreenInv /\ [Next]_vars => ScreenInv'
<1> SUFFICES ASSUME ScreenInv, [Next]_vars PROVE ScreenInv'
  OBVIOUS
<1> USE DEF ScreenInv
<1>1. CASE UNCHANGED vars
  BY <1>1 DEF vars, ConfirmsSelected, FormIsActive, Active, EditsAreOfTheRequest
<1>2. CASE \/ \E c \in Claims : Arrive(c) \/ OtherDecides(c)
           \/ Poll \/ FetchRead \/ FetchFails
  <2>1. UNCHANGED <<list, page, request>>
    BY <1>2 DEF Arrive, OtherDecides, Poll, FetchRead, FetchFails
  <2>. QED BY <2>1 DEF page, ConfirmsSelected, FormIsActive, Active, EditsAreOfTheRequest
<1>3. CASE \E c \in Claims : Click(c)
  <2>1. UNCHANGED request /\ confirming' = FALSE /\ KeepForm(form)
    BY <1>3 DEF Click, SelectClaim
  <2>. QED BY <2>1, KeptForm DEF ConfirmsSelected, EditsAreOfTheRequest
<1>4. CASE FetchArrives
  <2>1. UNCHANGED <<selected, confirming, announced, request>> /\ KeepForm(form)
    BY <1>4 DEF FetchArrives
  <2>. QED BY <2>1, KeptForm DEF ConfirmsSelected, EditsAreOfTheRequest
<1>5. CASE Type
  <2>1. /\ UNCHANGED <<list, selected, confirming, announced, request>>
        /\ Active # None /\ form' = form \cup {Active}
    BY <1>5 DEF Type
  <2>. QED BY <2>1 DEF ConfirmsSelected, FormIsActive, Active, EditsAreOfTheRequest
<1>6. CASE ToggleHelp
  BY <1>6 DEF ToggleHelp, ConfirmsSelected, FormIsActive, Active, EditsAreOfTheRequest
<1>7. CASE KeyApprove \/ ClickApprove
  <2>1. UNCHANGED <<list, page>>
    BY <1>7 DEF KeyApprove, ClickApprove
  <2>2. request'.claim = Active /\ request'.edits \in {{}, form}
    BY <1>7 DEF KeyApprove, ClickApprove, Send
  <2>. QED BY <2>1, <2>2 DEF page, ConfirmsSelected, FormIsActive, Active, EditsAreOfTheRequest
<1>8. CASE AnnounceReject
  <2>1. UNCHANGED <<list, selected, form, request>> /\ announced' = Active /\ Active # None
    BY <1>8 DEF AnnounceReject, CanAct
  <2>2. Active = selected
    BY <2>1 DEF Active
  <2>. QED BY <2>1, <2>2 DEF ConfirmsSelected, FormIsActive, Active, EditsAreOfTheRequest
<1>9. CASE SubmitReject
  <2>1. UNCHANGED <<list, selected, form>> /\ confirming' = FALSE /\ request'.edits = {}
    BY <1>9 DEF SubmitReject, Send
  <2>. QED BY <2>1 DEF ConfirmsSelected, FormIsActive, Active, EditsAreOfTheRequest
<1>10. CASE CancelReject
  BY <1>10 DEF CancelReject, ConfirmsSelected, FormIsActive, Active, EditsAreOfTheRequest
<1>11. CASE ServerDecides \/ RequestLost \/ Accepted \/ Refused
  <2>1. UNCHANGED <<list, page>>
    BY <1>11 DEF ServerDecides, RequestLost, Accepted, Refused
  <2>2. \/ request'.edits = request.edits /\ request'.claim = request.claim
        \/ request'.edits = {}
    <3>1. CASE Refused
      BY <3>1 DEF Refused, NoRequest
    <3>2. CASE ServerDecides \/ RequestLost \/ Accepted
      <4>1. \E phase \in RequestPhases : request' = [request EXCEPT !.phase = phase]
        BY <3>2 DEF ServerDecides, RequestLost, Accepted, RequestPhases
      <4>. QED BY <4>1
    <3>. QED BY <1>11, <3>1, <3>2
  <2>. QED BY <2>1, <2>2 DEF page, ConfirmsSelected, FormIsActive, Active, EditsAreOfTheRequest
<1>12. CASE Settle
  <2>1. confirming' = FALSE /\ request' = NoRequest /\ KeepForm(form)
    BY <1>12 DEF Settle, SelectNextAfter, SelectClaim
  <2>. QED BY <2>1, KeptForm DEF NoRequest, ConfirmsSelected, EditsAreOfTheRequest
<1>. QED
  BY <1>1, <1>2, <1>3, <1>4, <1>5, <1>6, <1>7, <1>8, <1>9, <1>10, <1>11, <1>12 DEF Next

\* However lists and answers arrive, an announced reject, the form and the
\* edits under way belong to the claim that is selected, open or approved.
THEOREM Invariance == Spec => []ScreenInv
BY InitScreen, NextScreen, PTL DEF Spec

-----------------------------------------------------------------------------
(* The properties.                                                          *)

\* The corrections sent with an approval are those of its claim.
THEOREM EditsBelong == Spec => []EditsOfThisClaim
<1>1. ScreenInv => EditsOfThisClaim
  BY DEF ScreenInv, FormIsActive, EditsAreOfTheRequest, EditsOfThisClaim
<1>. QED BY <1>1, Invariance, PTL

\* A reject leaves the page only for the claim it was announced on.
LEMMA RejectStep ==
  ASSUME ScreenInv, [Next]_vars,
         request.phase = "idle", request'.phase = "sent", request'.kind = "reject"
  PROVE  request'.claim = announced
<1>1. SubmitReject
  <2>1. request' # request
    OBVIOUS
  <2>2. ~(KeyApprove \/ ClickApprove)
    BY DEF KeyApprove, ClickApprove, Send
  <2>3. ~(ServerDecides \/ RequestLost \/ Accepted \/ Settle \/ Refused)
    BY DEF ServerDecides, RequestLost, Accepted, Settle, Refused
  <2>4. \/ ServerDecides \/ RequestLost \/ Accepted \/ Settle \/ Refused
        \/ KeyApprove \/ ClickApprove \/ SubmitReject
    BY <2>1 DEF Next, vars, Arrive, OtherDecides, Click, Poll, FetchRead, FetchArrives,
                FetchFails, Type, ToggleHelp, AnnounceReject, CancelReject
  <2>. QED BY <2>2, <2>3, <2>4
<1>2. request'.claim = Active /\ Active # None /\ confirming
  BY <1>1 DEF SubmitReject, CanAct, Send
<1>. QED BY <1>2 DEF Active, ScreenInv, ConfirmsSelected

THEOREM RejectsAnnounced == Spec => RejectAnnounced
<1>1. ScreenInv /\ [Next]_vars =>
        [request.phase = "idle" /\ request'.phase = "sent" /\ request'.kind = "reject"
           => request'.claim = announced]_vars
  BY RejectStep
<1>. QED BY <1>1, Invariance, PTL DEF Spec, RejectAnnounced

\* What was typed goes with a choice, a finished decision, or the claim.
LEMMA EditsStep ==
  ASSUME ScreenInv, [Next]_vars, form # {}, form' = {}
  PROVE  \/ \E c \in Claims : Click(c)
         \/ request.phase = "refetching" /\ request'.phase = "idle"
         \/ selected \notin ToSet(list')
<1>1. (\E c \in Claims : Click(c)) \/ FetchArrives \/ Settle
  <2>1. ~Type
    BY DEF Type
  <2>. QED
    BY <2>1 DEF Next, vars, page, Arrive, OtherDecides, Poll, FetchRead, FetchFails, ToggleHelp,
                KeyApprove, ClickApprove, AnnounceReject, SubmitReject, CancelReject,
                ServerDecides, RequestLost, Accepted, Refused
<1>2. CASE FetchArrives
  <2>1. Active' # Active /\ selected' = selected
    BY <1>2 DEF FetchArrives, KeepForm
  <2>2. Active # None
    BY DEF ScreenInv, FormIsActive
  <2>. QED BY <2>1, <2>2 DEF Active
<1>3. CASE Settle
  BY <1>3 DEF Settle, NoRequest
<1>. QED BY <1>1, <1>2, <1>3

\* A poll or a request that fails never costs the operator what was typed.
THEOREM EditsOutlast == Spec => EditsOutlastFailures
<1>1. ScreenInv /\ [Next]_vars =>
        [form # {} /\ form' = {} =>
           \/ \E c \in Claims : Click(c)
           \/ request.phase = "refetching" /\ request'.phase = "idle"
           \/ selected \notin ToSet(list')]_vars
  BY EditsStep
<1>. QED BY <1>1, Invariance, PTL DEF Spec, EditsOutlastFailures

-----------------------------------------------------------------------------
(* The list.                                                                *)

Lists == Seq(Claims)

\* Every list the page has or is sent holds claims.
ListTypes == /\ arrived \in Lists /\ list \in Lists
             /\ DOMAIN fetch = {"phase", "items"} /\ fetch.phase \in FetchPhases
             /\ fetch.items \in Lists
             /\ DOMAIN request = {"phase", "kind", "claim", "edits"}
             /\ request.phase \in RequestPhases

\* What this page has decided the server has too.
OwnAreDecided ==
    own \subseteq decided /\ (request.phase = "accepted" => request.claim \in decided)

\* A list on its way was read after the last decision, as an older one was
\* cancelled with it; while the refetch is under way only the list shown is old.
NewListsLack ==
    /\ fetch.phase = "answered" => ToSet(fetch.items) \cap own = {}
    /\ (request.phase # "refetching" \/ fetch.phase = "idle") /\ ~stale
         => ToSet(list) \cap own = {}

ListInv == ListTypes /\ OwnAreDecided /\ NewListsLack

\* A page holds claims, and none that was decided.
LEMMA PageLacks ==
  ASSUME arrived \in Lists
  PROVE  Page \in Lists /\ ToSet(Page) \cap decided = {}
<1> DEFINE urgent  == Kept(arrived, InReview \cap Urgent)
           others  == Kept(arrived, InReview \ Urgent)
           ordered == urgent \o others
<1>1. InReview \cap decided = {}
  BY DEF InReview
<1>2. /\ urgent \in Lists /\ ToSet(urgent) \subseteq InReview
      /\ others \in Lists /\ ToSet(others) \subseteq InReview
  <2>1. urgent \in Lists /\ ToSet(urgent) = ToSet(arrived) \cap (InReview \cap Urgent)
    BY KeptElements DEF Lists
  <2>2. others \in Lists /\ ToSet(others) = ToSet(arrived) \cap (InReview \ Urgent)
    BY KeptElements DEF Lists
  <2>. QED BY <2>1, <2>2
<1>3. ordered \in Lists /\ ToSet(ordered) \subseteq InReview
  <2> HIDE DEF urgent, others
  <2>1. ToSet(ordered) = ToSet(urgent) \cup ToSet(others)
    BY <1>2, ElementsConcat DEF Lists
  <2>. QED BY <1>2, <2>1 DEF Lists
<1> HIDE DEF ordered
<1>4. /\ Page = SubSeq(ordered, 1, IF Len(ordered) < Limit THEN Len(ordered) ELSE Limit)
      /\ (IF Len(ordered) < Limit THEN Len(ordered) ELSE Limit) \in 0..Len(ordered)
  BY <1>3, ScreenAssumption DEF Page, ordered, Lists
<1>5. Page \in Lists /\ ToSet(Page) \subseteq ToSet(ordered)
  BY <1>3, <1>4, ElementsSubSeq DEF Lists
<1>. QED BY <1>1, <1>3, <1>5

LEMMA InitList == Init => ListInv
BY ScreenAssumption, ElementsEmpty
   DEF Init, ListInv, ListTypes, OwnAreDecided, NewListsLack, Lists, NoFetch, NoRequest,
       FetchPhases, RequestPhases

LEMMA NextList == ListInv /\ [Next]_vars => ListInv'
<1> SUFFICES ASSUME ListInv, [Next]_vars PROVE ListInv'
  OBVIOUS
<1> USE DEF ListInv
<1>1. CASE \/ UNCHANGED vars
           \/ \E c \in Claims : Click(c)
           \/ Type \/ ToggleHelp \/ AnnounceReject \/ CancelReject
  <2>1. UNCHANGED <<arrived, decided, list, fetch, request, own, stale>>
    BY <1>1 DEF vars, server, Click, Type, ToggleHelp, AnnounceReject, CancelReject
  <2>. QED BY <2>1 DEF ListTypes, OwnAreDecided, NewListsLack
<1>2. CASE \E c \in Claims : Arrive(c)
  <2>1. PICK c \in Claims : Arrive(c)
    BY <1>2
  <2>2. arrived' \in Lists
    BY <2>1 DEF Arrive, ListTypes, Lists
  <2>3. UNCHANGED <<decided, list, fetch, request, own, stale>>
    BY <2>1 DEF Arrive
  <2>. QED BY <2>2, <2>3 DEF ListTypes, OwnAreDecided, NewListsLack
<1>3. CASE \E c \in Claims : OtherDecides(c)
  <2>1. decided \subseteq decided' /\ UNCHANGED <<arrived, list, fetch, request, own, stale>>
    BY <1>3 DEF OtherDecides
  <2>. QED BY <2>1 DEF ListTypes, OwnAreDecided, NewListsLack
<1>4. CASE Poll
  <2>1. /\ fetch.phase = "idle" /\ request.phase # "refetching"
        /\ fetch'.phase = "sent" /\ fetch'.items = <<>> /\ DOMAIN fetch' = {"phase", "items"}
        /\ UNCHANGED <<arrived, decided, list, request, own, stale>>
    BY <1>4 DEF Poll, NoFetch, server
  <2>2. <<>> \in Lists
    BY DEF Lists
  <2>. QED BY <2>1, <2>2 DEF ListTypes, OwnAreDecided, NewListsLack, FetchPhases
<1>5. CASE FetchRead
  <2>1. /\ fetch.phase = "sent"
        /\ fetch'.phase = "answered" /\ fetch'.items = Page /\ DOMAIN fetch' = {"phase", "items"}
        /\ UNCHANGED <<arrived, decided, list, request, own, stale>>
    BY <1>5 DEF FetchRead, server
  <2>2. Page \in Lists /\ ToSet(Page) \cap own = {}
    BY PageLacks DEF ListTypes, OwnAreDecided
  <2>. QED BY <2>1, <2>2 DEF ListTypes, OwnAreDecided, NewListsLack, FetchPhases
<1>6. CASE FetchArrives
  <2>1. /\ fetch.phase = "answered" /\ list' = fetch.items
        /\ fetch'.phase = "idle" /\ fetch'.items = <<>> /\ DOMAIN fetch' = {"phase", "items"}
        /\ UNCHANGED <<arrived, decided, request, own>>
    BY <1>6 DEF FetchArrives, NoFetch, server
  <2>2. <<>> \in Lists
    BY DEF Lists
  <2>. QED BY <2>1, <2>2 DEF ListTypes, OwnAreDecided, NewListsLack, FetchPhases
<1>7. CASE FetchFails
  <2>1. /\ stale' = TRUE
        /\ fetch'.phase = "idle" /\ fetch'.items = <<>> /\ DOMAIN fetch' = {"phase", "items"}
        /\ UNCHANGED <<arrived, decided, list, request, own>>
    BY <1>7 DEF FetchFails, NoFetch, server
  <2>2. <<>> \in Lists
    BY DEF Lists
  <2>. QED BY <2>1, <2>2 DEF ListTypes, OwnAreDecided, NewListsLack, FetchPhases
<1>8. CASE KeyApprove \/ ClickApprove \/ SubmitReject
  <2>1. /\ request.phase = "idle" /\ request'.phase = "sent"
        /\ DOMAIN request' = {"phase", "kind", "claim", "edits"}
        /\ UNCHANGED <<arrived, decided, list, fetch, own, stale>>
    BY <1>8 DEF KeyApprove, ClickApprove, SubmitReject, CanAct, Submitting, Send, server
  <2>. QED BY <2>1 DEF ListTypes, OwnAreDecided, NewListsLack, RequestPhases
<1>9. CASE ServerDecides
  <2>1. /\ request.phase = "sent" /\ UNCHANGED <<arrived, list, fetch, own, stale>>
        /\ DOMAIN request' = {"phase", "kind", "claim", "edits"}
        /\ decided \subseteq decided'
        /\ \/ request'.phase = "refused"
           \/ request'.phase = "accepted" /\ request'.claim \in decided'
    BY <1>9 DEF ServerDecides, ListTypes
  <2>. QED BY <2>1 DEF ListTypes, OwnAreDecided, NewListsLack, RequestPhases
<1>10. CASE RequestLost \/ Refused
  <2>1. /\ request.phase # "refetching" /\ request'.phase \in {"refused", "idle"}
        /\ DOMAIN request' = {"phase", "kind", "claim", "edits"}
        /\ UNCHANGED <<arrived, decided, list, fetch, own, stale>>
    BY <1>10 DEF RequestLost, Refused, NoRequest, server, ListTypes
  <2>. QED BY <2>1 DEF ListTypes, OwnAreDecided, NewListsLack, RequestPhases
<1>11. CASE Accepted
  <2>1. /\ request.phase = "accepted" /\ own' = own \cup {request.claim}
        /\ request'.phase = "refetching"
        /\ DOMAIN request' = {"phase", "kind", "claim", "edits"}
        /\ fetch'.phase = "sent" /\ fetch'.items = <<>> /\ DOMAIN fetch' = {"phase", "items"}
        /\ UNCHANGED <<arrived, decided, list, stale>>
    BY <1>11 DEF Accepted, Invalidate, NoFetch, server, ListTypes
  <2>2. <<>> \in Lists
    BY DEF Lists
  <2>. QED BY <2>1, <2>2 DEF ListTypes, OwnAreDecided, NewListsLack, FetchPhases, RequestPhases
<1>12. CASE Settle
  <2>1. /\ fetch.phase = "idle" /\ request'.phase = "idle"
        /\ DOMAIN request' = {"phase", "kind", "claim", "edits"}
        /\ UNCHANGED <<arrived, decided, list, fetch, own, stale>>
    BY <1>12 DEF Settle, NoRequest, server
  <2>. QED BY <2>1 DEF ListTypes, OwnAreDecided, NewListsLack, RequestPhases
<1>. QED
  BY <1>1, <1>2, <1>3, <1>4, <1>5, <1>6, <1>7, <1>8, <1>9, <1>10, <1>11, <1>12 DEF Next

\* A claim this page has decided is not on its list again: a fetch that was
\* under way when the decision was acknowledged never reaches the list.
THEOREM DecisionsLeave == Spec => []OwnDecisionsLeave
<1>1. ListInv /\ [Next]_vars => ListInv'
  BY NextList
<1>2. ListInv => OwnDecisionsLeave
  BY Zenon DEF ListInv, NewListsLack, OwnDecisionsLeave
<1>. QED BY InitList, <1>1, <1>2, PTL DEF Spec
===============================================================================

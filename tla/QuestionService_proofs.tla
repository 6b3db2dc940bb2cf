------------------------ MODULE QuestionService_proofs ------------------------
(***************************************************************************)
(* Theorems about QuestionService, for any number of calls, questions,      *)
(* claims and results, any bound on faults and whichever session the query  *)
(* runs on.  The first four leave the texts alone; the others follow every  *)
(* token from the masked question, the rows and the claims through what a   *)
(* model may write of them to the answer on the page.                       *)
(***************************************************************************)
EXTENDS QuestionService, SequenceLemmas, TLAPS

-----------------------------------------------------------------------------
(* The inductive invariant.                                                 *)

Fields == {"pc", "waits", "due", "retried", "attempts", "question", "filter", "draft", "rows",
           "aborted", "hits", "prompt", "answer", "outcome", "error", "row"}

\* The variables are records with the fields the code's objects have.
ShapeInv == /\ DOMAIN screen = {"call", "asked", "shows", "answer", "to"}
            /\ DOMAIN call = Calls
            /\ \A c \in Calls : DOMAIN call[c] = Fields
            /\ faults \in Nat

\* The page has one request open at most: the one it shows as pending.
PageInv ==
    /\ \A c \in Calls : call[c].waits = "yes" =>
          screen.call = c /\ screen.shows = "pending" /\ call[c].question = screen.asked
    /\ \A c \in Calls : call[c].pc = "unasked" => call[c].waits = "no"
    /\ ShownAnswersTheAsked

\* No row is written before the audit step, and no query leaves its
\* transaction aborted.
RowInv == /\ \A c \in Calls : call[c].aborted = FALSE
          /\ \A c \in Calls : call[c].pc \in Stages \cup {"unasked", "received", "failed"} =>
                call[c].row = NoRow
          /\ AnsweredIsAudited

\* Every model call took one attempt and the first statement was accepted.
Plain(c) == call[c].retried = FALSE /\ call[c].attempts <= 1

\* How late each stage of a plain call may end: routing, then writing, running
\* and narrating, or searching and answering.
OnTime(c) ==
    /\ call[c].due \in Nat /\ call[c].retried \in BOOLEAN /\ call[c].attempts \in Nat
    /\ call[c].pc \in {"unasked", "received"} => call[c].due = 0 /\ call[c].retried = FALSE
    /\ call[c].pc \in {"unasked", "received", "routing"} => call[c].attempts = 0
    /\ call[c].pc = "writing" => call[c].attempts >= 1
    /\ call[c].waits = "yes" /\ Plain(c) =>
          /\ call[c].due <= 10
          /\ call[c].pc \in {"routing", "searching"} => call[c].due <= 3
          /\ call[c].pc \in {"writing", "answering"} => call[c].due <= 6
          /\ call[c].pc = "running" => call[c].due <= 7
    /\ call[c].waits = "gave_up" => ~Plain(c)

ClockInv == \A c \in Calls : OnTime(c)

IInv == ShapeInv /\ PageInv /\ RowInv /\ ClockInv

LEMMA InitInv == Init => IInv
<1> SUFFICES ASSUME Init PROVE IInv
  OBVIOUS
<1>1. \A c \in Calls : call[c] = NewCall
  BY DEF Init
<1>2. ShapeInv
  BY <1>1 DEF Init, Fresh, NewCall, ShapeInv, Fields
<1>3. PageInv
  BY <1>1 DEF Init, Fresh, NewCall, PageInv, ShownAnswersTheAsked
<1>4. RowInv
  BY <1>1 DEF NewCall, RowInv, AnsweredIsAudited
<1>5. ClockInv
  <2>1. ASSUME NEW c \in Calls PROVE OnTime(c)
    <3>1. /\ call[c].pc = "unasked" /\ call[c].waits = "no" /\ call[c].due = 0
          /\ call[c].retried = FALSE /\ call[c].attempts = 0
      BY <1>1 DEF NewCall
    <3>2. call[c].due \in Nat /\ call[c].attempts \in Nat
      BY <3>1
    <3>3. call[c].retried \in BOOLEAN
      BY <3>1, Zenon
    <3>. QED BY <3>1, <3>2, <3>3, Zenon DEF OnTime
  <2>. QED BY <2>1 DEF ClockInv
<1>. QED BY <1>2, <1>3, <1>4, <1>5 DEF IInv

-----------------------------------------------------------------------------
(* A call goes on.                                                          *)

\* The only things that happen to the other calls and the page: nothing.
Alone(c) == /\ UNCHANGED screen
            /\ DOMAIN call' = Calls /\ DOMAIN call'[c] = Fields
            /\ \A d \in Calls \ {c} : call'[d] = call[d]

\* What a stage of the rag service leaves of its call as it was.
Same(old, new) == /\ new.waits = old.waits /\ new.question = old.question
                  /\ new.aborted = old.aborted /\ new.row = old.row

\* The call enters stage: its clock has been put forward.
Moved(c, stage, attempts) ==
    /\ Alone(c) /\ Same(call[c], call'[c])
    /\ call'[c].pc = stage /\ call'[c].attempts = attempts
    /\ \E d \in Durations(stage) : /\ call'[c].due = Clock(c, stage, d).due
                                   /\ call'[c].retried = Clock(c, stage, d).retried

LEMMA AsksMoves ==
  ASSUME ShapeInv, NEW c \in Calls, NEW stage, NEW text, NEW after,
         DOMAIN after = Fields, Same(call[c], after),
         Asks(c, stage, text, after), UNCHANGED screen
  PROVE  Moved(c, stage, after.attempts)
<1> DEFINE new(d) == [after EXCEPT !.pc = stage, !.due = Clock(c, stage, d).due,
                                   !.retried = Clock(c, stage, d).retried, !.prompt = Shown(text)]
<1>1. PICK d \in Durations(stage) : call' = [call EXCEPT ![c] = new(d)]
  BY DEF Asks
<1>2. /\ DOMAIN new(d) = Fields /\ Same(call[c], new(d))
      /\ new(d).pc = stage /\ new(d).attempts = after.attempts
      /\ new(d).due = Clock(c, stage, d).due /\ new(d).retried = Clock(c, stage, d).retried
  BY DEF Same, Fields
<1> HIDE DEF new
<1>3. call'[c] = new(d) /\ DOMAIN call' = Calls /\ \A e \in Calls \ {c} : call'[e] = call[e]
  BY <1>1 DEF ShapeInv
<1>. QED BY <1>2, <1>3 DEF Moved, Alone

LEMMA EndsMoves ==
  ASSUME ShapeInv, NEW c \in Calls, NEW answer, NEW outcome, Ends(c, answer, outcome), UNCHANGED screen
  PROVE  Moved(c, "auditing", call[c].attempts)
<1> DEFINE shown == [call[c] EXCEPT !.answer = answer, !.outcome = outcome]
           kept  == [call[c] EXCEPT !.answer = [NoAnswer EXCEPT !.answerable = answer.answerable],
                                    !.outcome = outcome, !.rows = <<>>, !.hits = <<>>]
<1>1. /\ DOMAIN shown = Fields /\ Same(call[c], shown) /\ shown.attempts = call[c].attempts
      /\ DOMAIN kept = Fields /\ Same(call[c], kept) /\ kept.attempts = call[c].attempts
  BY DEF ShapeInv, Fields, Same
<1>2. Asks(c, "auditing", <<>>, shown) \/ Asks(c, "auditing", <<>>, kept)
  BY DEF Ends, Enters
<1> HIDE DEF shown, kept
<1>. QED BY <1>1, <1>2, AsksMoves

\* How long a stage takes that was not retried.
Takes(stage) == IF stage \in Asking THEN LlmCeiling ELSE IF stage = "running" THEN SqlCeiling ELSE 0

Ran(c, stage) ==
    /\ call'[c].due \in Nat /\ call'[c].retried \in BOOLEAN
    /\ call[c].waits = "yes" /\ call'[c].retried = FALSE =>
          \/ call'[c].due = 0 /\ stage = "auditing"
          \/ call[c].retried = FALSE /\ call'[c].due <= call[c].due + Takes(stage)
    /\ call[c].waits # "yes" => call'[c].retried = call[c].retried

\* A clock the proxy watches runs on by that much, unless the call was retried
\* or only its audit row is left; nobody watches a call it has given up on.
LEMMA ClockRuns ==
  ASSUME ClockInv, NEW c \in Calls, NEW stage, NEW attempts, Moved(c, stage, attempts)
  PROVE  Ran(c, stage)
<1>1. call[c].due \in Nat /\ call[c].retried \in BOOLEAN
  BY DEF ClockInv, OnTime
<1>2. PICK d \in Durations(stage) : /\ call'[c].due = Clock(c, stage, d).due
                                    /\ call'[c].retried = Clock(c, stage, d).retried
  BY DEF Moved
<1>3. d.time \in Nat /\ d.retried \in BOOLEAN /\ (d.retried = FALSE => d.time = Takes(stage))
  <2>1. \/ d = [time |-> Takes(stage), retried |-> FALSE]
        \/ d = [time |-> 2 * LlmCeiling, retried |-> TRUE]
    BY DEF Durations, Takes
  <2>2. Takes(stage) \in Nat /\ 2 * LlmCeiling \in Nat
    BY DEF Takes, LlmCeiling, SqlCeiling
  <2>3. \/ d.time = Takes(stage) /\ d.retried = FALSE
        \/ d.time = 2 * LlmCeiling /\ d.retried = TRUE
    BY <2>1
  <2>. QED BY <2>2, <2>3, Zenon
<1>4. CASE call[c].waits # "yes"
  BY <1>1, <1>2, <1>4 DEF Ran, Clock
<1>5. CASE call[c].waits = "yes" /\ stage = "auditing" /\ call[c].due + d.time <= RagTimeout
  BY <1>2, <1>5 DEF Ran, Clock
<1>6. CASE call[c].waits = "yes" /\ ~(stage = "auditing" /\ call[c].due + d.time <= RagTimeout)
  <2>1. /\ call'[c].retried = (call[c].retried \/ d.retried)
        /\ call'[c].due = IF call[c].due + d.time > RagTimeout THEN RagTimeout + 1
                          ELSE call[c].due + d.time
    BY <1>1, <1>2, <1>3, <1>6 DEF Clock, RagTimeout
  <2>. QED BY <1>1, <1>3, <1>6, <2>1 DEF Ran, RagTimeout
<1>. QED BY <1>4, <1>5, <1>6

\* The stages follow one another as the two paths of ask() have them.
Follows(from, stage, before, attempts) ==
    \/ from = "received" /\ stage = "routing" /\ attempts = before
    \/ from = "routing" /\ stage = "searching" /\ attempts = before
    \/ from = "routing" /\ stage = "writing" /\ attempts = 1
    \/ from = "writing" /\ stage = "writing" /\ attempts = before + 1
    \/ from = "writing" /\ stage = "running" /\ attempts = before
    \/ from = "running" /\ stage = "narrating" /\ attempts = before
    \/ from = "searching" /\ stage = "answering" /\ attempts = before
    \/ from \in Stages /\ stage = "auditing" /\ attempts = before

LEMMA MovesOnTime ==
  ASSUME ClockInv, NEW c \in Calls, NEW stage, NEW attempts, Moved(c, stage, attempts),
         Follows(call[c].pc, stage, call[c].attempts, attempts)
  PROVE  OnTime(c)'
<1>1. OnTime(c) /\ Ran(c, stage)
  BY ClockRuns DEF ClockInv
<1>2. call'[c].pc = stage /\ call'[c].attempts = attempts /\ call'[c].waits = call[c].waits
  BY DEF Moved, Same
<1>3. attempts \in Nat /\ call[c].attempts \in Nat /\ attempts >= call[c].attempts
  BY <1>1 DEF Follows, OnTime
<1>4. stage \in Stages \ {"unasked", "received"} /\ Takes(stage) \in Nat
  BY DEF Follows, Stages, Asking, Takes, LlmCeiling, SqlCeiling
<1>5. /\ call'[c].pc \in {"unasked", "received", "routing"} => attempts = 0
      /\ call'[c].pc = "writing" => attempts >= 1
  BY <1>1, <1>2, <1>3, <1>4 DEF Follows, OnTime
<1>6. call'[c].waits = "gave_up" => ~Plain(c)'
  <2>1. CASE call'[c].waits = "gave_up"
    <3>1. call[c].waits = "gave_up" /\ call'[c].retried = call[c].retried /\ ~Plain(c)
      BY <1>1, <1>2, <2>1 DEF OnTime, Ran
    <3>. QED BY <1>2, <1>3, <3>1 DEF Plain
  <2>. QED BY <2>1
<1>7. ASSUME call'[c].waits = "yes", Plain(c)'
      PROVE  /\ call'[c].due <= 10
             /\ stage \in {"routing", "searching"} => call'[c].due <= 3
             /\ stage \in {"writing", "answering"} => call'[c].due <= 6
             /\ stage = "running" => call'[c].due <= 7
  <2>1. CASE call'[c].due = 0 /\ stage = "auditing"
    BY <2>1
  <2>2. CASE call[c].retried = FALSE /\ call'[c].due <= call[c].due + Takes(stage)
    <3>1. Plain(c) /\ call[c].waits = "yes" /\ attempts <= 1 /\ call[c].due \in Nat /\ call'[c].due \in Nat
      BY <1>1, <1>2, <1>3, <1>7, <2>2 DEF Plain, OnTime, Ran
    <3>2. /\ call[c].due <= 10
          /\ call[c].pc = "received" => call[c].due = 0
          /\ call[c].pc \in {"routing", "searching"} => call[c].due <= 3
          /\ call[c].pc = "writing" => call[c].due <= 6 /\ call[c].attempts >= 1
          /\ call[c].pc = "running" => call[c].due <= 7
      BY <1>1, <3>1 DEF OnTime
    <3>3. /\ stage \in {"routing", "writing", "narrating", "answering"} => Takes(stage) = 3
          /\ stage \in {"searching", "auditing"} => Takes(stage) = 0
          /\ stage = "running" => Takes(stage) = 1
      BY DEF Takes, Asking, LlmCeiling, SqlCeiling
    <3>4. CASE call[c].pc = "received" /\ stage = "routing"
      BY <2>2, <3>1, <3>2, <3>3, <3>4
    <3>5. CASE call[c].pc = "routing" /\ stage \in {"searching", "writing"}
      BY <2>2, <3>1, <3>2, <3>3, <3>5
    <3>6. CASE call[c].pc = "writing" /\ stage = "running"
      BY <2>2, <3>1, <3>2, <3>3, <3>6
    <3>7. CASE call[c].pc = "running" /\ stage = "narrating"
      BY <2>2, <3>1, <3>2, <3>3, <3>7
    <3>8. CASE call[c].pc = "searching" /\ stage = "answering"
      BY <2>2, <3>1, <3>2, <3>3, <3>8
    <3>9. CASE stage = "auditing"
      BY <2>2, <3>1, <3>2, <3>3, <3>9
    <3>10. ~(call[c].pc = "writing" /\ attempts = call[c].attempts + 1)
      BY <1>3, <3>1, <3>2
    <3>. QED BY <3>4, <3>5, <3>6, <3>7, <3>8, <3>9, <3>10 DEF Follows
  <2>. QED BY <1>1, <1>2, <1>7, <2>1, <2>2 DEF Plain, Ran
<1>8. call'[c].due \in Nat /\ call'[c].retried \in BOOLEAN
  BY <1>1, Zenon DEF Ran
<1>9. call'[c].pc \notin {"unasked", "received"}
  BY <1>2, <1>4
<1>. QED BY <1>2, <1>3, <1>5, <1>6, <1>7, <1>8, <1>9, Zenon DEF OnTime

\* A step of a stage keeps the invariant.
LEMMA MovesInv ==
  ASSUME IInv, NEW c \in Calls, NEW stage, NEW attempts, Moved(c, stage, attempts), faults' = faults,
         Follows(call[c].pc, stage, call[c].attempts, attempts)
  PROVE  IInv'
<1>1. /\ UNCHANGED <<screen, faults>> /\ DOMAIN call' = Calls /\ DOMAIN call'[c] = Fields
      /\ \A d \in Calls \ {c} : call'[d] = call[d]
      /\ call'[c].pc = stage /\ Same(call[c], call'[c])
  BY DEF Moved, Alone
<1>2. stage \in Stages /\ call[c].pc \in Stages \cup {"received"} /\ stage \notin {"unasked", "replied"}
  BY DEF Follows, Stages, Asking
<1>3. ShapeInv'
  BY <1>1 DEF IInv, ShapeInv
<1>4. PageInv'
  BY <1>1, <1>2 DEF IInv, PageInv, ShownAnswersTheAsked, Same
<1>5. RowInv'
  BY <1>1, <1>2 DEF IInv, RowInv, AnsweredIsAudited, Same
<1>6. OnTime(c)'
  BY MovesOnTime DEF IInv
<1>7. ASSUME NEW d \in Calls, d # c PROVE OnTime(d)'
  BY <1>1, <1>7 DEF IInv, ClockInv, OnTime, Plain
<1>. QED BY <1>3, <1>4, <1>5, <1>6, <1>7 DEF IInv, ClockInv

-----------------------------------------------------------------------------
(* The other steps of a call.                                               *)

\* No call but c is touched, and what holds of each call for itself holds of c.
OnlyTouches(c) ==
    /\ DOMAIN screen' = DOMAIN screen
    /\ DOMAIN call' = Calls /\ DOMAIN call'[c] = Fields
    /\ \A d \in Calls \ {c} : call'[d] = call[d]
    /\ call'[c].aborted = FALSE
    /\ call'[c].pc \in Stages \cup {"unasked", "received", "failed"} => call'[c].row = NoRow
    /\ call'[c].pc = "replied" =>
          \/ /\ call'[c].row.outcome = call'[c].outcome
             /\ call'[c].row.answerable = call'[c].answer.answerable
          \/ call'[c].row = NoRow /\ faults' > 0

LEMMA TouchesInv ==
  ASSUME IInv, NEW c \in Calls, OnlyTouches(c), OnTime(c)', PageInv', faults' = faults \/ Fault
  PROVE  IInv'
<1>1. faults' \in Nat /\ faults \in Nat /\ (faults > 0 => faults' > 0)
  BY DEF IInv, ShapeInv, Fault
<1>2. ShapeInv'
  BY <1>1 DEF IInv, ShapeInv, OnlyTouches
<1>3. RowInv'
  BY <1>1 DEF IInv, RowInv, AnsweredIsAudited, OnlyTouches
<1>4. ASSUME NEW d \in Calls, d # c PROVE OnTime(d)'
  BY <1>4 DEF IInv, ClockInv, OnTime, Plain, OnlyTouches
<1>. QED BY <1>2, <1>3, <1>4 DEF IInv, ClockInv

\* The page asks only when nothing is pending, so nobody else is waited for.
LEMMA SendInv ==
  ASSUME IInv, NEW c \in Calls, NEW q, Send(c, q, q), screen.shows # "pending"
  PROVE  IInv'
<1>1. /\ call[c].pc = "unasked" /\ faults' = faults
      /\ call' = [call EXCEPT ![c].pc = "received", ![c].waits = "yes", ![c].question = q]
      /\ screen' = [Fresh EXCEPT !.call = c, !.asked = q, !.shows = "pending"]
  BY DEF Send
<1>2. /\ DOMAIN screen' = DOMAIN screen
      /\ screen'.call = c /\ screen'.asked = q /\ screen'.shows = "pending"
  BY <1>1 DEF IInv, ShapeInv, Fresh
<1>3. /\ DOMAIN call' = Calls /\ DOMAIN call'[c] = Fields
      /\ \A d \in Calls \ {c} : call'[d] = call[d]
      /\ call'[c].pc = "received" /\ call'[c].waits = "yes" /\ call'[c].question = q
      /\ call'[c].due = call[c].due /\ call'[c].retried = call[c].retried
      /\ call'[c].attempts = call[c].attempts /\ call'[c].row = call[c].row
      /\ call'[c].aborted = call[c].aborted
  BY <1>1 DEF IInv, ShapeInv, Fields
<1>4. OnlyTouches(c)
  BY <1>1, <1>2, <1>3 DEF IInv, RowInv, OnlyTouches
<1>5. OnTime(c)'
  <2>1. /\ call[c].due = 0 /\ call[c].retried = FALSE /\ call[c].attempts = 0
    BY <1>1 DEF IInv, ClockInv, OnTime
  <2>2. call'[c].retried \in BOOLEAN
    BY <1>3, <2>1, Zenon
  <2>. QED BY <1>3, <2>1, <2>2 DEF OnTime
<1>6. PageInv'
  BY <1>1, <1>2, <1>3 DEF IInv, PageInv, ShownAnswersTheAsked
<1>. QED BY <1>1, <1>4, <1>5, <1>6, TouchesInv

LEMMA FailsInv ==
  ASSUME IInv, NEW c \in Calls, Fails(c), call[c].pc \in Stages \cup {"received"},
         UNCHANGED screen, faults' = faults \/ Fault
  PROVE  IInv'
<1>1. /\ DOMAIN call' = Calls /\ DOMAIN call'[c] = Fields
      /\ \A d \in Calls \ {c} : call'[d] = call[d]
      /\ call'[c].pc = "failed" /\ call'[c].waits = call[c].waits
      /\ call'[c].question = call[c].question
      /\ call'[c].due = call[c].due /\ call'[c].retried = call[c].retried
      /\ call'[c].attempts = call[c].attempts /\ call'[c].row = call[c].row
      /\ call'[c].aborted = call[c].aborted
  BY DEF Fails, IInv, ShapeInv, Fields
<1>2. OnlyTouches(c)
  BY <1>1 DEF IInv, RowInv, OnlyTouches
<1>3. OnTime(c)'
  BY <1>1, ZenonT(40) DEF IInv, ClockInv, OnTime, Plain
<1>4. PageInv'
  BY <1>1 DEF IInv, PageInv, ShownAnswersTheAsked
<1>. QED BY <1>2, <1>3, <1>4, TouchesInv

\* A call that ends shows its outcome if the page still waits for it: the
\* question it answers is the one that was asked last.
LEMMA OverInv ==
  ASSUME IInv, NEW c \in Calls, Over(c), NEW what \in {"answer", "error"}, NEW answer,
         IF call[c].waits = "yes" THEN Shows(c, what, answer) ELSE UNCHANGED screen,
         faults' = faults \/ Fault
  PROVE  IInv'
<1>1. /\ DOMAIN call' = Calls /\ DOMAIN call'[c] = Fields
      /\ \A d \in Calls \ {c} : call'[d] = call[d]
      /\ call'[c].pc = "over" /\ call'[c].waits = "done"
      /\ call'[c].due = 0 /\ call'[c].retried = FALSE /\ call'[c].attempts = 0
      /\ call'[c].aborted = FALSE
  BY DEF Over, NewCall, IInv, ShapeInv, Fields
<1>2. DOMAIN screen' = DOMAIN screen
  BY DEF Shows
<1>3. OnlyTouches(c)
  BY <1>1, <1>2 DEF OnlyTouches, Stages, Asking
<1>4. OnTime(c)'
  <2>1. call'[c].retried \in BOOLEAN
    BY <1>1, Zenon
  <2>. QED BY <1>1, <2>1 DEF OnTime
<1>5. PageInv'
  <2>1. CASE call[c].waits = "yes"
    <3>1. screen'.shows = what /\ screen'.asked = screen.asked /\ screen'.to = call[c].question
      BY <2>1 DEF Shows, IInv, ShapeInv
    <3>. QED BY <1>1, <2>1, <3>1 DEF IInv, PageInv, ShownAnswersTheAsked
  <2>2. CASE call[c].waits # "yes"
    BY <1>1, <2>2 DEF IInv, PageInv, ShownAnswersTheAsked
  <2>. QED BY <2>1, <2>2
<1>. QED BY <1>3, <1>4, <1>5, TouchesInv

\* The proxy gives up only on a call that was retried or corrected.
LEMMA GiveUpInv == ASSUME IInv, NEW c \in Calls, GiveUp(c) PROVE IInv'
<1>1. /\ call[c].waits = "yes" /\ call[c].due > RagTimeout /\ faults' = faults
      /\ call' = [call EXCEPT ![c].waits = "gave_up", ![c].due = 0]
      /\ screen' = [screen EXCEPT !.shows = "error", !.answer = NoAnswer, !.to = call[c].question]
  BY DEF GiveUp, Late, Shows
<1>2. /\ DOMAIN call' = Calls /\ DOMAIN call'[c] = Fields
      /\ \A d \in Calls \ {c} : call'[d] = call[d]
      /\ call'[c].pc = call[c].pc /\ call'[c].waits = "gave_up"
      /\ call'[c].due = 0 /\ call'[c].retried = call[c].retried
      /\ call'[c].attempts = call[c].attempts /\ call'[c].row = call[c].row
      /\ call'[c].aborted = call[c].aborted /\ call'[c].outcome = call[c].outcome
      /\ call'[c].answer = call[c].answer
  BY <1>1 DEF IInv, ShapeInv, Fields
<1>3. /\ DOMAIN screen' = DOMAIN screen /\ screen'.shows = "error"
      /\ screen'.asked = screen.asked /\ screen'.to = call[c].question
  BY <1>1 DEF IInv, ShapeInv
<1>4. OnlyTouches(c)
  BY <1>1, <1>2, <1>3 DEF IInv, RowInv, AnsweredIsAudited, OnlyTouches
<1>5. OnTime(c)'
  <2>1. OnTime(c)
    BY DEF IInv, ClockInv
  <2>2. ~Plain(c)
    BY <1>1, <2>1 DEF OnTime, RagTimeout
  <2>3. ~Plain(c)' /\ call'[c].due \in Nat
    BY <1>2, <2>2 DEF Plain
  <2>. QED BY <1>2, <2>1, <2>3, Zenon DEF OnTime
<1>6. PageInv'
  BY <1>1, <1>2, <1>3 DEF IInv, PageInv, ShownAnswersTheAsked
<1>. QED BY <1>1, <1>4, <1>5, <1>6, TouchesInv

\* The audit row is written from the call as it stands, or a fault lost it.
LEMMA AuditInv == ASSUME IInv, NEW c \in Calls, Audit(c) \/ AuditFails(c) PROVE IInv'
<1>1. /\ call[c].pc = "auditing" /\ call[c].aborted = FALSE /\ call[c].row = NoRow
      /\ faults \in Nat /\ UNCHANGED screen
  BY DEF IInv, ShapeInv, RowInv, Stages, Audit, AuditFails
<1>2. /\ DOMAIN call' = Calls /\ DOMAIN call'[c] = Fields
      /\ \A d \in Calls \ {c} : call'[d] = call[d]
      /\ call'[c].pc = "replied" /\ call'[c].waits = call[c].waits
      /\ call'[c].question = call[c].question
      /\ call'[c].due = call[c].due /\ call'[c].retried = call[c].retried
      /\ call'[c].attempts = call[c].attempts
      /\ call'[c].aborted = call[c].aborted /\ call'[c].outcome = call[c].outcome
      /\ call'[c].answer = call[c].answer
      /\ Audit(c) => call'[c].row = AuditRow(c)
      /\ AuditFails(c) => call'[c].row = NoRow
  BY <1>1 DEF IInv, ShapeInv, Fields, Audit, AuditFails
<1>3. faults' = faults \/ Fault
  BY DEF Audit, AuditFails
<1>4. OnlyTouches(c)
  <2>1. CASE Audit(c)
    <3>1. /\ call'[c].row.outcome = call'[c].outcome
          /\ call'[c].row.answerable = call'[c].answer.answerable
      BY <1>2, <2>1 DEF AuditRow
    <3>. QED BY <1>1, <1>2, <3>1 DEF OnlyTouches, Stages, Asking
  <2>2. CASE AuditFails(c)
    <3>1. faults' > 0
      BY <1>1, <2>2 DEF AuditFails, Fault
    <3>. QED BY <1>1, <1>2, <2>2, <3>1 DEF OnlyTouches, Stages, Asking
  <2>. QED BY <2>1, <2>2
<1>5. OnTime(c)'
  BY <1>1, <1>2, ZenonT(40) DEF IInv, ClockInv, OnTime, Plain
<1>6. PageInv'
  BY <1>1, <1>2 DEF IInv, PageInv, ShownAnswersTheAsked
<1>. QED BY <1>3, <1>4, <1>5, <1>6, TouchesInv

-----------------------------------------------------------------------------
(* The stages of ask(), and the whole next-state relation.                  *)

LEMMA EndsInv ==
  ASSUME IInv, NEW c \in Calls, call[c].pc \in Stages, NEW answer, NEW outcome,
         Ends(c, answer, outcome), UNCHANGED <<screen, faults>>
  PROVE  IInv'
<1>1. Moved(c, "auditing", call[c].attempts)
  BY EndsMoves DEF IInv
<1>2. Follows(call[c].pc, "auditing", call[c].attempts, call[c].attempts)
  BY DEF Follows
<1>. QED BY <1>1, <1>2, MovesInv

\* A stage is entered with a call changed in what the invariant does not mention,
\* but for the number of statements written.
LEMMA AsksInv ==
  ASSUME IInv, NEW c \in Calls, NEW stage, NEW text, NEW after,
         DOMAIN after = Fields, Same(call[c], after),
         Follows(call[c].pc, stage, call[c].attempts, after.attempts),
         Asks(c, stage, text, after), UNCHANGED <<screen, faults>>
  PROVE  IInv'
<1>1. Moved(c, stage, after.attempts)
  BY AsksMoves DEF IInv
<1>. QED BY <1>1, MovesInv

LEMMA RouteInv ==
  ASSUME IInv, NEW c \in Calls, NEW route, NEW filter, Route(c, route, filter) PROVE IInv'
<1> DEFINE sql    == [call[c] EXCEPT !.attempts = 1]
           search == [call[c] EXCEPT !.filter = filter]
<1>1. call[c].pc = "routing" /\ UNCHANGED <<screen, faults>>
  BY DEF Route
<1>2. Asks(c, "writing", Masked(c).text, sql) \/ Asks(c, "searching", <<>>, search)
  BY DEF Route, Enters
<1>3. /\ DOMAIN sql = Fields /\ Same(call[c], sql) /\ sql.attempts = 1
      /\ DOMAIN search = Fields /\ Same(call[c], search) /\ search.attempts = call[c].attempts
  BY DEF IInv, ShapeInv, Fields, Same
<1>4. /\ Follows(call[c].pc, "writing", call[c].attempts, 1)
      /\ Follows(call[c].pc, "searching", call[c].attempts, call[c].attempts)
  BY <1>1 DEF Follows
<1> HIDE DEF sql, search
<1>. QED BY <1>1, <1>2, <1>3, <1>4, AsksInv

LEMMA WriteInv == ASSUME IInv, NEW c \in Calls, NEW draft, Write(c, draft) PROVE IInv'
<1> DEFINE run   == [call[c] EXCEPT !.draft = ApplyLimit(draft)]
           again == [call[c] EXCEPT !.attempts = @ + 1]
<1>1. call[c].pc = "writing" /\ UNCHANGED <<screen, faults>>
  BY DEF Write
<1>2. \/ Asks(c, "running", <<>>, run)
      \/ Asks(c, "writing", Masked(c).text \o draft.literals, again)
      \/ Ends(c, NoAnswer, "guard_rejected")
  BY DEF Write, Enters
<1>3. /\ DOMAIN run = Fields /\ Same(call[c], run) /\ run.attempts = call[c].attempts
      /\ DOMAIN again = Fields /\ Same(call[c], again) /\ again.attempts = call[c].attempts + 1
  BY DEF IInv, ShapeInv, Fields, Same
<1>4. /\ Follows(call[c].pc, "running", call[c].attempts, call[c].attempts)
      /\ Follows(call[c].pc, "writing", call[c].attempts, call[c].attempts + 1)
      /\ call[c].pc \in Stages
  BY <1>1 DEF Follows, Stages, Asking
<1> HIDE DEF run, again
<1>. QED BY <1>1, <1>2, <1>3, <1>4, AsksInv, EndsInv

LEMMA RunInv == ASSUME IInv, NEW c \in Calls, NEW rows, Run(c, rows) PROVE IInv'
<1> DEFINE tell == [call[c] EXCEPT !.rows = rows]
<1>1. call[c].pc = "running" /\ UNCHANGED <<screen, faults>>
  BY DEF Run
<1>2. \/ Asks(c, "narrating", Masked(c).text \o RowsText[rows].text, tell)
      \/ Ends(c, Refusal(Executable(c)), "answered")
  BY DEF Run
<1>3. DOMAIN tell = Fields /\ Same(call[c], tell) /\ tell.attempts = call[c].attempts
  BY DEF IInv, ShapeInv, Fields, Same
<1>4. Follows(call[c].pc, "narrating", call[c].attempts, call[c].attempts) /\ call[c].pc \in Stages
  BY <1>1 DEF Follows, Stages
<1> HIDE DEF tell
<1>. QED BY <1>1, <1>2, <1>3, <1>4, AsksInv, EndsInv

\* The failed query is rolled back: the session is usable for the audit row.
LEMMA RunFailsInv == ASSUME IInv, NEW c \in Calls, RunFails(c) PROVE IInv'
<1> DEFINE failed == [call[c] EXCEPT !.answer  = Refusal(Executable(c)),
                                     !.outcome = "execution_failed",
                                     !.error   = Shown(Executable(c).literals),
                                     !.aborted = FALSE]
<1>1. /\ call[c].pc = "running" /\ UNCHANGED <<screen, faults>>
      /\ Asks(c, "auditing", <<>>, failed)
  BY DEF RunFails, QueryFails, Enters
<1>2. DOMAIN failed = Fields /\ Same(call[c], failed) /\ failed.attempts = call[c].attempts
  BY DEF IInv, ShapeInv, RowInv, Fields, Same
<1>3. Follows(call[c].pc, "auditing", call[c].attempts, call[c].attempts)
  BY <1>1 DEF Follows, Stages
<1> HIDE DEF failed
<1>. QED BY <1>1, <1>2, <1>3, AsksInv

\* Every text a model may write, and every answer, ends the call the same way.
LEMMA NarrateInv == ASSUME IInv, NEW c \in Calls, Narrate(c) PROVE IInv'
<1>1. call[c].pc = "narrating" /\ UNCHANGED <<screen, faults>>
  BY DEF Narrate
<1>2. PICK answer : Ends(c, answer, "answered")
  BY Zenon DEF Narrate
<1>3. call[c].pc \in Stages
  BY <1>1 DEF Stages, Asking
<1>. QED BY <1>1, <1>2, <1>3, EndsInv

LEMMA SearchInv == ASSUME IInv, NEW c \in Calls, Search(c) PROVE IInv'
<1> DEFINE hits  == Hits[call[c].question][call[c].filter]
           found == [call[c] EXCEPT !.hits = hits]
<1>1. call[c].pc = "searching" /\ UNCHANGED <<screen, faults>>
  BY DEF Search
<1>2. Asks(c, "answering", Masked(c).text \o SourcesText(hits), found) \/ Ends(c, NoAnswer, "answered")
  BY Zenon DEF Search
<1>3. DOMAIN found = Fields /\ Same(call[c], found) /\ found.attempts = call[c].attempts
  <2> HIDE DEF hits
  <2>. QED BY DEF IInv, ShapeInv, Fields, Same
<1>4. Follows(call[c].pc, "answering", call[c].attempts, call[c].attempts) /\ call[c].pc \in Stages
  BY <1>1 DEF Follows, Stages
<1> HIDE DEF found, hits
<1>. QED BY <1>1, <1>2, <1>3, <1>4, AsksInv, EndsInv

LEMMA AnswerFromInv == ASSUME IInv, NEW c \in Calls, AnswerFrom(c) PROVE IInv'
<1>1. call[c].pc = "answering" /\ UNCHANGED <<screen, faults>>
  BY DEF AnswerFrom
<1>2. PICK answer : Ends(c, answer, "answered")
  BY Zenon DEF AnswerFrom
<1>3. call[c].pc \in Stages
  BY <1>1 DEF Stages, Asking
<1>. QED BY <1>1, <1>2, <1>3, EndsInv

LEMMA ServeInv == ASSUME IInv, NEW c \in Calls, Serve(c) PROVE IInv'
<1>1. CASE Refuse(c) \/ LlmFails(c)
  BY <1>1, FailsInv DEF Refuse, LlmFails, Alive
<1>2. CASE Accept(c)
  <2>1. call[c].pc = "received" /\ UNCHANGED <<screen, faults>>
        /\ Asks(c, "routing", Masked(c).text, call[c])
    BY <1>2 DEF Accept
  <2>2. DOMAIN call[c] = Fields /\ Same(call[c], call[c])
    BY DEF IInv, ShapeInv, Same
  <2>3. Follows(call[c].pc, "routing", call[c].attempts, call[c].attempts)
    BY <2>1 DEF Follows
  <2>. QED BY <2>1, <2>2, <2>3, AsksInv
<1>3. CASE \E route \in Routes, filter \in Filters : Route(c, route, filter)
  BY <1>3, RouteInv
<1>4. CASE Writing(c)
  <2>1. CASE Decline(c)
    BY <2>1, EndsInv DEF Decline, Alive
  <2>2. CASE \E draft : Write(c, draft)
    BY <2>2, WriteInv
  <2>. QED BY <1>4, <2>1, <2>2, Zenon DEF Writing
<1>5. CASE \E rows \in Results : Run(c, rows)
  BY <1>5, RunInv
<1>6. CASE RunFails(c) \/ Narrate(c) \/ Search(c) \/ AnswerFrom(c)
  BY <1>6, RunFailsInv, NarrateInv, SearchInv, AnswerFromInv
<1>7. CASE Audit(c)
  BY <1>7, AuditInv
<1>. QED BY <1>1, <1>2, <1>3, <1>4, <1>5, <1>6, <1>7 DEF Serve

LEMMA NextInv == IInv /\ [Next]_vars => IInv'
<1> SUFFICES ASSUME IInv, [Next]_vars PROVE IInv'
  OBVIOUS
<1>1. CASE UNCHANGED vars
  BY <1>1 DEF vars, IInv, ShapeInv, PageInv, ShownAnswersTheAsked, RowInv, AnsweredIsAudited,
     ClockInv, OnTime, Plain
<1>2. ASSUME NEW c \in Calls, NEW q, Submit(c, q) PROVE IInv'
  BY <1>2, SendInv DEF Submit
<1>3. ASSUME NEW c \in Calls, Retry(c) PROVE IInv'
  BY <1>3, SendInv DEF Retry
<1>4. ASSUME NEW c \in Calls, GiveUp(c) PROVE IInv'
  BY <1>4, GiveUpInv
<1>5. ASSUME NEW c \in Calls, Deliver(c) PROVE IInv'
  <2>1. Over(c) /\ faults' = faults
    BY <1>5 DEF Deliver
  <2>2. \E what \in {"answer", "error"} : \E answer :
          IF call[c].waits = "yes" THEN Shows(c, what, answer) ELSE UNCHANGED screen
    BY <1>5 DEF Deliver
  <2>. QED BY <2>1, <2>2, OverInv
<1>6. ASSUME NEW c \in Calls, Unreachable(c) PROVE IInv'
  BY <1>6, OverInv DEF Unreachable
<1>7. ASSUME NEW c \in Calls, SearchFails(c) PROVE IInv'
  BY <1>7, FailsInv DEF SearchFails, Alive
<1>. QED
  BY <1>1, <1>2, <1>3, <1>4, <1>5, <1>6, <1>7, ServeInv, AuditInv DEF Next, Page, Work, Proxy, Breaks

-----------------------------------------------------------------------------
(* Texts.                                                                   *)

LEMMA KindsOf ==
  ASSUME NEW text
  PROVE  /\ Mentions(text) = {t \in ToSet(text) : IsMention(t)}
         /\ Numbers(text) = {t \in ToSet(text) : IsNumber(t)}
         /\ Cites(text) = {t \in ToSet(text) : IsCite(t)}
         /\ Shown(text) = {t.shows : t \in {u \in ToSet(text) : IsMention(u)}}
BY DEF Mentions, Numbers, Cites, Shown

LEMMA ElementsSuffice ==
  ASSUME NEW X, NEW s \in Seq(X)
  PROVE  s \in Seq(ToSet(s)) /\ ToSet(s) \subseteq X
<1>1. DOMAIN s = 1..Len(s) /\ Len(s) \in Nat /\ s = [i \in 1..Len(s) |-> s[i]]
  OBVIOUS
<1>2. \A i \in 1..Len(s) : s[i] \in ToSet(s) /\ s[i] \in X
  BY <1>1 DEF ToSet
<1>3. ToSet(s) \subseteq X
  BY <1>1, <1>2 DEF ToSet
<1>. QED BY <1>1, <1>2, <1>3

\* What masking leaves of a text: a token as it was, unless it showed a real
\* value, and then the placeholder of that value.
Left(t, text, space, mappings) ==
    \/ t \in ToSet(text) /\ ~(IsMention(t) /\ t.shows \in Real)
    \/ /\ DOMAIN t = {"shows", "of"}
       /\ \E n \in DOMAIN mappings : t.shows = Placeholder(space, n) /\ t.of = mappings[n]

Masks(masked, text, space) ==
    /\ masked.mappings \in Seq(Real)
    /\ masked.text \in Seq(ToSet(masked.text))
    /\ \A t \in ToSet(masked.text) : Left(t, text, space, masked.mappings)

LEMMA MaskMasks ==
  ASSUME NEW text, IsText(text), NEW space
  PROVE  Masks(Mask(text, space), text, space)
<1> DEFINE X == ToSet(text)
           exposed == Kept(text, {t \in Mentions(text) : t.shows \in Real})
           values == [i \in DOMAIN exposed |-> exposed[i].shows]
           replaced == Once(values)
           new(i) == IF IsMention(text[i]) /\ text[i].shows \in Real
                     THEN [text[i] EXCEPT !.shows = Placeholder(space, Position(replaced, @))]
                     ELSE text[i]
           masked == [i \in DOMAIN text |-> new(i)]
<1>1. Mask(text, space) = [text |-> masked, mappings |-> replaced]
  BY DEF Mask
<1>2. text \in Seq(X) /\ DOMAIN text = 1..Len(text) /\ Len(text) \in Nat
  BY DEF IsText
<1>3. /\ exposed \in Seq(X)
      /\ ToSet(exposed) = X \cap {t \in Mentions(text) : t.shows \in Real}
  <2> DEFINE S == {t \in Mentions(text) : t.shows \in Real}
  <2> HIDE DEF S, X
  <2>1. Kept(text, S) \in Seq(X) /\ ToSet(Kept(text, S)) = ToSet(text) \cap S
    BY <1>2, KeptElements
  <2>. QED BY <2>1 DEF S, X
<1>4. values \in Seq(Real)
  <2>1. DOMAIN exposed = 1..Len(exposed) /\ Len(exposed) \in Nat
    <3> HIDE DEF exposed
    <3>. QED BY <1>3
  <2>2. \A i \in DOMAIN exposed : exposed[i].shows \in Real
    BY <1>3 DEF ToSet
  <2> HIDE DEF exposed
  <2>. QED BY <2>1, <2>2
<1>5. replaced \in Seq(Real) /\ ToSet(replaced) = ToSet(values)
  <2> HIDE DEF values
  <2>. QED BY <1>4, OnceElements
<1>6. ASSUME NEW i \in DOMAIN text PROVE Left(new(i), text, space, replaced)
  <2>1. CASE IsMention(text[i]) /\ text[i].shows \in Real
    <3>1. text[i] \in ToSet(text) /\ text[i] \in ToSet(exposed)
      <4>1. Mentions(text) = {t \in ToSet(text) : IsMention(t)}
        BY KindsOf
      <4>2. text[i] \in ToSet(text)
        BY DEF ToSet
      <4> HIDE DEF exposed
      <4>. QED BY <1>3, <2>1, <4>1, <4>2
    <3>2. PICK j \in DOMAIN exposed : exposed[j] = text[i]
      BY <3>1 DEF ToSet
    <3>3. values[j] = text[i].shows /\ j \in DOMAIN values
      BY <3>2
    <3>4. text[i].shows \in ToSet(replaced)
      BY <1>5, <3>3 DEF ToSet
    <3>5. PICK n \in DOMAIN replaced : replaced[n] = text[i].shows
      BY <3>4 DEF ToSet
    <3> DEFINE p == Position(replaced, text[i].shows)
    <3>6. p \in DOMAIN replaced /\ replaced[p] = text[i].shows
      <4> HIDE DEF replaced
      <4>. QED BY <3>5 DEF Position
    <3>7. DOMAIN text[i] = {"shows", "of"} /\ text[i].of = text[i].shows
      BY <2>1, <3>1 DEF IsText, IsMention
    <3>8. new(i) = [text[i] EXCEPT !.shows = Placeholder(space, p)]
      BY <2>1
    <3> HIDE DEF p, replaced, new
    <3>9. DOMAIN new(i) = {"shows", "of"} /\ new(i).shows = Placeholder(space, p) /\ new(i).of = text[i].of
      BY <3>7, <3>8
    <3>. QED BY <3>6, <3>7, <3>9 DEF Left
  <2>2. CASE ~(IsMention(text[i]) /\ text[i].shows \in Real)
    BY <2>2 DEF Left, ToSet
  <2>. QED BY <2>1, <2>2
<1>7. masked \in Seq(ToSet(masked)) /\ \A t \in ToSet(masked) : \E i \in DOMAIN text : t = new(i)
  <2> HIDE DEF new
  <2>1. \A i \in DOMAIN text : masked[i] = new(i)
    OBVIOUS
  <2>2. DOMAIN masked = DOMAIN text
    OBVIOUS
  <2>3. \A t \in ToSet(masked) : \E i \in DOMAIN text : t = new(i)
    BY <2>1, <2>2 DEF ToSet
  <2>4. \A i \in 1..Len(text) : masked[i] \in ToSet(masked)
    BY <1>2, <2>2 DEF ToSet
  <2>. QED BY <1>2, <2>3, <2>4
<1> HIDE DEF masked, replaced, new
<1>8. \A t \in ToSet(masked) : Left(t, text, space, replaced)
  BY <1>6, <1>7
<1>. QED BY <1>1, <1>5, <1>7, <1>8 DEF Masks

\* Nothing real is left in a masked text.
LEMMA MaskedShowsNothing ==
  ASSUME NEW text, NEW space \in {RowSpace, QuestionSpace}, NEW masked, Masks(masked, text, space)
  PROVE  Shown(masked.text) \cap Real = {}
<1>0. Shown(masked.text) = {t.shows : t \in {u \in ToSet(masked.text) : IsMention(u)}}
  BY KindsOf
<1> SUFFICES ASSUME NEW t \in ToSet(masked.text), IsMention(t), t.shows \in Real PROVE FALSE
  BY <1>0
<1>1. PICK n \in DOMAIN masked.mappings : t.shows = Placeholder(space, n)
  BY DEF Masks, Left
<1>2. n \in Nat
  BY DEF Masks
<1>3. t.shows \in Placeholders
  BY <1>1, <1>2 DEF Placeholders, Placeholder
<1>. QED BY <1>3, RealAssumption

LEMMA SeqGrows ==
  ASSUME NEW X, NEW Y, X \subseteq Y, NEW s \in Seq(X)
  PROVE  s \in Seq(Y)
OBVIOUS

LEMMA FlattenElements ==
  ASSUME NEW X, NEW ss \in Seq(Seq(X))
  PROVE  /\ FlattenSeq(ss) \in Seq(X)
         /\ \A e \in ToSet(FlattenSeq(ss)) : \E n \in 1..Len(ss) : e \in ToSet(ss[n])
<1>1. PICK start : EndsAt(start, ss)
  BY EndsExist
<1>. QED BY <1>1, FlattenAt

\* What a result is rendered as is a text.
LEMMA RenderedIsText ==
  ASSUME NEW rows \in Results, NEW limit \in Nat
  PROVE  IsText(RenderRows(rows, limit))
<1> DEFINE Y == (UNION {ToSet(row) : row \in ToSet(rows)}) \cup {Number(Whole(n)) : n \in Int}
           m == IF Len(rows) < limit THEN Len(rows) ELSE limit
           shown == SubSeq(rows, 1, m)
           lines == [i \in DOMAIN shown |-> <<Number(Whole(i))>> \o shown[i]]
           flat == FlattenSeq(lines)
           text == RenderRows(rows, limit)
<1>1. rows \in Seq(ToSet(rows)) /\ \A row \in ToSet(rows) : IsText(row)
  BY TextsAssumption
<1>2. Len(rows) \in Nat /\ m \in 0..Len(rows)
  BY <1>1
<1>3. shown \in Seq(ToSet(rows))
  <2> HIDE DEF m
  <2>. QED BY <1>1, <1>2, ElementsSubSeq
<1>4. DOMAIN shown = 1..Len(shown) /\ Len(shown) \in Nat
  <2> HIDE DEF shown
  <2>. QED BY <1>3
<1>5. ASSUME NEW i \in DOMAIN shown PROVE lines[i] \in Seq(Y)
  <2>1. shown[i] \in ToSet(rows)
    <3> HIDE DEF shown
    <3>. QED BY <1>3, <1>4
  <2>2. shown[i] \in Seq(ToSet(shown[i]))
    BY <1>1, <2>1 DEF IsText
  <2>3. ToSet(shown[i]) \subseteq Y
    BY <2>1
  <2>4. i \in Int /\ Number(Whole(i)) \in Y
    BY <1>4
  <2> HIDE DEF shown, Y
  <2>5. shown[i] \in Seq(Y)
    BY <2>2, <2>3, SeqGrows
  <2>6. <<Number(Whole(i))>> \in Seq(Y)
    BY <2>4
  <2>. QED BY <2>5, <2>6
<1>6. lines \in Seq(Seq(Y))
  <2> HIDE DEF shown, Y
  <2>. QED BY <1>4, <1>5
<1>7. flat \in Seq(Y)
  <2> HIDE DEF lines, Y
  <2>. QED BY <1>6, FlattenElements
<1>8. text = IF Len(rows) > limit THEN Append(flat, Number(Whole(Len(rows) - limit))) ELSE flat
  BY DEF RenderRows
<1>9. Len(rows) > limit => Number(Whole(Len(rows) - limit)) \in Y
  BY <1>2
<1>10. ASSUME NEW t \in Y
       PROVE  \/ DOMAIN t = {"number"}
              \/ DOMAIN t = {"shows", "of"} /\ (t.shows \in Real => t.of = t.shows)
  <2>1. CASE \E n \in Int : t = Number(Whole(n))
    BY <2>1 DEF Number
  <2>2. CASE \E row \in ToSet(rows) : t \in ToSet(row)
    BY <1>1, <2>2 DEF IsText
  <2>. QED BY <2>1, <2>2
<1>11. text \in Seq(Y)
  <2> HIDE DEF flat, Y, text
  <2>. QED BY <1>7, <1>8, <1>9
<1> HIDE DEF Y, text
<1>12. text \in Seq(ToSet(text)) /\ ToSet(text) \subseteq Y
  BY <1>11, ElementsSuffice
<1>13. IsText(text)
  BY <1>10, <1>12 DEF IsText
<1>. QED BY <1>13 DEF text

-----------------------------------------------------------------------------
(* Snippets.                                                                *)

Adding(end, ss) == end = [n \in 0..Len(ss) |-> IF n = 0 THEN 0 ELSE end[n - 1] + Len(ss[n])]

LEMMA OffsetsExist ==
  ASSUME NEW X, NEW ss \in Seq(Seq(X))
  PROVE  \E end : EndsAt(end, ss) /\ \A i : Offset(ss, i) = end[i - 1]
<1>1. PICK start : EndsAt(start, ss)
  BY EndsExist
<1>2. Len(ss) \in Nat /\ \A n \in 1..Len(ss) : Len(ss[n]) \in Nat
  <2>1. \A n \in 1..Len(ss) : ss[n] \in Seq(X)
    OBVIOUS
  <2>. QED BY <2>1
<1>3. Adding(start, ss)
  <2>1. \A n \in 0..Len(ss) : start[n] = IF n = 0 THEN 0 ELSE start[n - 1] + Len(ss[n])
    BY <1>1, <1>2 DEF EndsAt
  <2>. QED BY <1>1, <2>1 DEF EndsAt, Adding
<1>4. PICK end : end = CHOOSE e : Adding(e, ss)
  OBVIOUS
<1>5. Adding(end, ss)
  BY <1>3, <1>4, Zenon
<1>6. ASSUME NEW i PROVE Offset(ss, i) = end[i - 1]
  BY <1>4 DEF Offset, Adding
<1>7. end[0] = 0 /\ DOMAIN end = 0..Len(ss) /\ end = [n \in 0..Len(ss) |-> end[n]]
  BY <1>2, <1>5 DEF Adding
<1>8. ASSUME NEW n \in 1..Len(ss) PROVE end[n] = end[n - 1] + Len(ss[n])
  <2>1. n \in 0..Len(ss) /\ n # 0
    BY <1>2
  <2>. QED BY <1>5, <2>1 DEF Adding
<1> DEFINE I == {n \in 0..Len(ss) : end[n] \in Nat}
<1>9. 0 \in I
  <2>1. 0 \in 0..Len(ss)
    BY <1>2
  <2>2. end[0] \in Nat
    BY <1>7
  <2>. QED BY <2>1, <2>2
<1>10. ASSUME NEW n \in 1..Len(ss), n - 1 \in I PROVE n \in I
  <2>1. end[n - 1] \in Nat
    BY <1>10
  <2>2. n \in 0..Len(ss) /\ Len(ss[n]) \in Nat
    BY <1>2
  <2>3. end[n] \in Nat
    BY <1>8, <2>1, <2>2
  <2>. QED BY <2>2, <2>3
<1>11. 0..Len(ss) \subseteq I
  <2> HIDE DEF I
  <2>. QED BY <1>2, <1>9, <1>10, IntervalInduction
<1>12. \A n \in 0..Len(ss) : end[n] \in Nat
  BY <1>11
<1>13. EndsAt(end, ss)
  BY <1>7, <1>8, <1>12 DEF EndsAt
<1>. QED BY <1>6, <1>13

LEMMA SubSeqAt ==
  ASSUME NEW X, NEW s \in Seq(X), NEW m \in Nat, NEW n \in Nat, m <= n, n <= Len(s)
  PROVE  /\ SubSeq(s, m + 1, n) \in Seq(X) /\ Len(SubSeq(s, m + 1, n)) = n - m
         /\ \A k \in 1..(n - m) : SubSeq(s, m + 1, n)[k] = s[m + k]
OBVIOUS

\* The closest sentence of a text.
ClosestOf(own, snippet) ==
    IF own = <<>> THEN snippet = EmptySnippet
    ELSE \E n \in DOMAIN own : /\ snippet = own[n]
                               /\ \A k \in DOMAIN own : own[k].close <= own[n].close

\* Each text is shown with its own closest sentence.
LEMMA SnippetsAreOwn ==
  ASSUME NEW X, NEW texts \in Seq(Seq(X)), \A x \in X : x.close \in Int
  PROVE  /\ DOMAIN PickSnippets(texts) = DOMAIN texts
         /\ \A i \in DOMAIN texts : ClosestOf(texts[i], PickSnippets(texts)[i])
<1> DEFINE batch == FlattenSeq(texts)
           end(i) == Offset(texts, i) + Len(texts[i])
           chunk(i) == SubSeq(batch, Offset(texts, i) + 1, IF end(i) < Len(batch) THEN end(i) ELSE Len(batch))
           Best(i, n) == \A k \in DOMAIN chunk(i) : chunk(i)[k].close <= chunk(i)[n].close
           best(i) == CHOOSE n \in DOMAIN chunk(i) : Best(i, n)
           snippet(i) == IF texts[i] = <<>> \/ chunk(i) = <<>> THEN EmptySnippet ELSE chunk(i)[best(i)]
<1>1. PickSnippets(texts) = [i \in DOMAIN texts |-> snippet(i)]
  BY DEF PickSnippets
<1>2. PICK start : EndsAt(start, texts) /\ \A i : Offset(texts, i) = start[i - 1]
  BY OffsetsExist
<1>3. DOMAIN texts = 1..Len(texts) /\ Len(texts) \in Nat
  OBVIOUS
<1>4. /\ FlattenSeq(texts) \in Seq(X) /\ Len(FlattenSeq(texts)) = start[Len(texts)]
      /\ \A n \in 1..Len(texts) :
           /\ start[n] <= start[Len(texts)]
           /\ \A k \in 1..Len(texts[n]) : FlattenSeq(texts)[start[n - 1] + k] = texts[n][k]
  BY <1>2, FlattenAt
<1>5. ASSUME NEW i \in DOMAIN texts PROVE chunk(i) = texts[i]
  <2>1. texts[i] \in Seq(X) /\ Len(texts[i]) \in Nat /\ i - 1 \in 0..Len(texts) /\ i \in 0..Len(texts)
    BY <1>3
  <2>2. /\ start[i - 1] \in Nat /\ start[i] = start[i - 1] + Len(texts[i])
        /\ start[i] \in Nat /\ start[Len(texts)] \in Nat
    <3>1. EndsAt(start, texts)
      BY <1>2
    <3>2. /\ \A n \in 0..Len(texts) : start[n] \in Nat
          /\ \A n \in 1..Len(texts) : start[n] = start[n - 1] + Len(texts[n])
      BY <3>1 DEF EndsAt
    <3>3. Len(texts) \in 0..Len(texts)
      BY <1>3
    <3>. QED BY <1>3, <2>1, <3>2, <3>3
  <2>3. /\ batch \in Seq(X) /\ Len(batch) = start[Len(texts)] /\ start[i] <= Len(batch)
        /\ \A k \in 1..Len(texts[i]) : batch[start[i - 1] + k] = texts[i][k]
    BY <1>3, <1>4
  <2>4. Offset(texts, i) = start[i - 1]
    BY <1>2
  <2> HIDE DEF batch
  <2>5. chunk(i) = SubSeq(batch, start[i - 1] + 1, start[i])
    <3>1. end(i) = start[i]
      BY <2>2, <2>4
    <3>2. start[i] < Len(batch) \/ start[i] = Len(batch)
      BY <2>2, <2>3
    <3>. QED BY <2>4, <3>1, <3>2, ZenonT(40)
  <2> HIDE DEF chunk
  <2>6. start[i] - start[i - 1] = Len(texts[i]) /\ start[i - 1] <= start[i]
    BY <2>1, <2>2
  <2>7. /\ chunk(i) \in Seq(X) /\ Len(chunk(i)) = Len(texts[i])
        /\ \A k \in 1..Len(texts[i]) : chunk(i)[k] = batch[start[i - 1] + k]
    <3> DEFINE m == start[i - 1]
               n == start[i]
    <3>1. m \in Nat /\ n \in Nat /\ m <= n /\ n <= Len(batch) /\ batch \in Seq(X) /\ n - m = Len(texts[i])
      BY <2>2, <2>3, <2>6
    <3> HIDE DEF m, n
    <3>2. /\ SubSeq(batch, m + 1, n) \in Seq(X) /\ Len(SubSeq(batch, m + 1, n)) = n - m
          /\ \A k \in 1..(n - m) : SubSeq(batch, m + 1, n)[k] = batch[m + k]
      BY <3>1, SubSeqAt
    <3>3. chunk(i) = SubSeq(batch, m + 1, n)
      BY <2>5 DEF m, n
    <3>4. /\ chunk(i) \in Seq(X) /\ Len(chunk(i)) = Len(texts[i])
          /\ \A k \in 1..Len(texts[i]) : chunk(i)[k] = batch[m + k]
      BY <3>1, <3>2, <3>3
    <3>. QED BY <3>4 DEF m
  <2>8. \A k \in 1..Len(texts[i]) : chunk(i)[k] = texts[i][k]
    BY <2>3, <2>7
  <2>. QED BY <2>1, <2>7, <2>8
<1>6. ASSUME NEW i \in DOMAIN texts, texts[i] # <<>>
      PROVE  \E n \in DOMAIN texts[i] :
               /\ snippet(i) = texts[i][n]
               /\ \A k \in DOMAIN texts[i] : texts[i][k].close <= texts[i][n].close
  <2> DEFINE s == [k \in DOMAIN texts[i] |-> texts[i][k].close]
  <2>1. texts[i] \in Seq(X) /\ Len(texts[i]) \in Nat /\ DOMAIN texts[i] = 1..Len(texts[i])
    BY <1>3
  <2>9. \A k \in DOMAIN texts[i] : texts[i][k].close \in Int
    BY <2>1
  <2>2. s \in Seq(Int) /\ s # <<>>
    BY <1>6, <2>1, <2>9
  <2>3. PICK n \in DOMAIN s : \A k \in DOMAIN s : s[k] <= s[n]
    <3> HIDE DEF s
    <3>. QED BY <2>2, LargestExists
  <2>4. chunk(i) = texts[i]
    BY <1>5
  <2> HIDE DEF chunk
  <2>5. n \in DOMAIN chunk(i) /\ Best(i, n)
    BY <2>3, <2>4
  <2>6. best(i) \in DOMAIN chunk(i) /\ Best(i, best(i))
    <3> HIDE DEF Best
    <3>. QED BY <2>5
  <2>7. snippet(i) = chunk(i)[best(i)]
    BY <1>6, <2>4
  <2>. QED BY <2>4, <2>6, <2>7
<1>7. ASSUME NEW i \in DOMAIN texts PROVE ClosestOf(texts[i], snippet(i))
  <2>1. CASE texts[i] = <<>>
    BY <2>1 DEF ClosestOf
  <2>2. CASE texts[i] # <<>>
    <3>1. \E n \in DOMAIN texts[i] :
            /\ snippet(i) = texts[i][n]
            /\ \A k \in DOMAIN texts[i] : texts[i][k].close <= texts[i][n].close
      BY <1>6, <2>2
    <3> HIDE DEF snippet
    <3>. QED BY <2>2, <3>1 DEF ClosestOf
  <2>. QED BY <2>1, <2>2
<1> HIDE DEF snippet
<1>8. DOMAIN PickSnippets(texts) = DOMAIN texts /\ \A i \in DOMAIN texts : PickSnippets(texts)[i] = snippet(i)
  BY <1>1
<1>. QED BY <1>7, <1>8

-----------------------------------------------------------------------------
(* Hits and sources.                                                        *)

AllSentences == UNION {ToSet(Sentences[k]) : k \in Claims}
AllTokens    == UNION {ToSet(s.text) : s \in AllSentences}

IsHits(hits) == \E q \in Questions, filter \in Filters : hits = Hits[q][filter]

LEMMA HitsAreClaims ==
  ASSUME NEW hits, IsHits(hits)
  PROVE  hits \in Seq(Claims)
<1>1. PICK q \in Questions, filter \in Filters : hits = Found(q, filter)
  BY DEF IsHits, Hits
<1> DEFINE S == {k \in Claims : filter \in {"none", Urgency[k]}}
           kept == Kept(Closest[q], S)
           n == IF Len(kept) < SearchLimit THEN Len(kept) ELSE SearchLimit
<1>2. hits = SubSeq(kept, 1, n)
  BY <1>1 DEF Found
<1>3. kept \in Seq(Claims)
  <2>1. Closest[q] \in Seq(Claims)
    BY TextsAssumption
  <2> HIDE DEF S
  <2>. QED BY <2>1, KeptElements
<1> HIDE DEF kept
<1>4. n \in 0..Len(kept)
  BY <1>3, BoundsAssumption
<1> HIDE DEF n
<1>. QED BY <1>2, <1>3, <1>4, ElementsSubSeq

\* The texts a search compares with the question.
Texts(hits) == [i \in DOMAIN hits |-> Sentences[hits[i]]]

LEMMA TextsOfHits ==
  ASSUME NEW hits \in Seq(Claims)
  PROVE  /\ Texts(hits) \in Seq(Seq(AllSentences)) /\ DOMAIN Texts(hits) = DOMAIN hits
         /\ \A i \in DOMAIN hits : Texts(hits)[i] = Sentences[hits[i]]
         /\ \A s \in AllSentences : /\ s.close \in Int /\ IsText(s.text)
                                    /\ Shown(s.text) \cap Placeholders \subseteq [space : {RowSpace}, nr : Nat]
<1>1. DOMAIN hits = 1..Len(hits) /\ Len(hits) \in Nat /\ \A i \in DOMAIN hits : hits[i] \in Claims
  OBVIOUS
<1>2. ASSUME NEW k \in Claims PROVE Sentences[k] \in Seq(AllSentences)
  <2>1. Sentences[k] \in Seq(ToSet(Sentences[k]))
    BY TextsAssumption
  <2>2. ToSet(Sentences[k]) \subseteq AllSentences
    BY DEF AllSentences
  <2>. QED BY <2>1, <2>2, SeqGrows
<1>3. \A i \in DOMAIN hits : Texts(hits)[i] = Sentences[hits[i]] /\ Texts(hits)[i] \in Seq(AllSentences)
  BY <1>1, <1>2 DEF Texts
<1>4. DOMAIN Texts(hits) = DOMAIN hits /\ Texts(hits) = [i \in 1..Len(hits) |-> Texts(hits)[i]]
  BY <1>1 DEF Texts
<1>5. Texts(hits) \in Seq(Seq(AllSentences))
  <2> DEFINE ss == Texts(hits)
  <2> HIDE DEF ss
  <2>1. ss = [i \in 1..Len(hits) |-> ss[i]] /\ \A i \in 1..Len(hits) : ss[i] \in Seq(AllSentences)
    BY <1>1, <1>3, <1>4 DEF ss
  <2>2. ss \in Seq(Seq(AllSentences))
    BY <1>1, <2>1
  <2>. QED BY <2>2 DEF ss
<1>6. ASSUME NEW s \in AllSentences
      PROVE  /\ s.close \in Int /\ IsText(s.text)
             /\ Shown(s.text) \cap Placeholders \subseteq [space : {RowSpace}, nr : Nat]
  <2>1. PICK k \in Claims : s \in ToSet(Sentences[k])
    BY DEF AllSentences
  <2>. QED BY <2>1, TextsAssumption
<1>. QED BY <1>3, <1>4, <1>5, <1>6

\* Every hit is shown with the sentence of its own text that is closest.
OwnSnippet(hits, i) ==
    LET own     == Sentences[hits[i]]
        snippet == Snippets[hits][i]
    IN  IF own = <<>> THEN snippet = EmptySnippet
        ELSE /\ Contains(own, snippet)
             /\ \A n \in DOMAIN own : own[n].close <= snippet.close

LEMMA HitsShowTheirOwn ==
  ASSUME NEW hits, IsHits(hits), NEW i \in DOMAIN hits
  PROVE  /\ OwnSnippet(hits, i)
         /\ Snippets[hits][i] \in AllSentences \cup {EmptySnippet}
<1> DEFINE texts == Texts(hits)
           own == Sentences[hits[i]]
           snippet == Snippets[hits][i]
<1>1. hits \in Seq(Claims)
  BY HitsAreClaims
<1>2. Snippets[hits] = PickSnippets(texts)
  BY DEF Snippets, IsHits, Texts
<1>3. /\ texts \in Seq(Seq(AllSentences)) /\ DOMAIN texts = DOMAIN hits
      /\ texts[i] = own /\ \A s \in AllSentences : s.close \in Int
  BY <1>1, TextsOfHits
<1>4. own \in Seq(AllSentences)
  <2> HIDE DEF texts, own
  <2>. QED BY <1>3
<1>5. IF own = <<>> THEN snippet = EmptySnippet
      ELSE \E n \in DOMAIN own : snippet = own[n] /\ \A k \in DOMAIN own : own[k].close <= own[n].close
  <2> HIDE DEF texts
  <2>1. \A j \in DOMAIN texts : ClosestOf(texts[j], PickSnippets(texts)[j])
    BY <1>3, SnippetsAreOwn
  <2>2. ClosestOf(own, snippet)
    <3> HIDE DEF own
    <3>. QED BY <1>2, <1>3, <2>1
  <2> HIDE DEF own, snippet
  <2>. QED BY <2>2 DEF ClosestOf
<1> HIDE DEF own, snippet, texts
<1>6. DOMAIN own = 1..Len(own) /\ \A n \in DOMAIN own : own[n] \in AllSentences
  BY <1>4
<1>7. /\ IF own = <<>> THEN snippet = EmptySnippet
         ELSE Contains(own, snippet) /\ \A n \in DOMAIN own : own[n].close <= snippet.close
      /\ snippet \in AllSentences \cup {EmptySnippet}
  BY <1>5, <1>6 DEF Contains
<1>. QED BY <1>7 DEF own, snippet, OwnSnippet

\* What the model reads of the sources is claim text.
LEMMA SourcesAreClaimText ==
  ASSUME NEW hits, IsHits(hits)
  PROVE  SourcesText(hits) \in Seq(AllTokens)
<1> DEFINE texts == [i \in DOMAIN hits |-> Snippets[hits][i].text]
<1>1. hits \in Seq(Claims) /\ DOMAIN hits = 1..Len(hits) /\ Len(hits) \in Nat
  <2>1. hits \in Seq(Claims)
    BY HitsAreClaims
  <2>. QED BY <2>1
<1>2. ASSUME NEW i \in DOMAIN hits PROVE Snippets[hits][i].text \in Seq(AllTokens)
  <2> DEFINE s == Snippets[hits][i]
  <2>1. s \in AllSentences \cup {EmptySnippet}
    BY HitsShowTheirOwn
  <2> HIDE DEF s
  <2>2. CASE s = EmptySnippet
    BY <2>2 DEF EmptySnippet, s
  <2>3. CASE s \in AllSentences
    <3>1. s.text \in Seq(ToSet(s.text))
      BY <1>1, <2>3, TextsOfHits DEF IsText
    <3>2. ToSet(s.text) \subseteq AllTokens
      BY <2>3 DEF AllTokens
    <3>3. s.text \in Seq(AllTokens)
      BY <3>1, <3>2, SeqGrows
    <3>. QED BY <3>3 DEF s
  <2>. QED BY <2>1, <2>2, <2>3
<1>3. texts \in Seq(Seq(AllTokens))
  BY <1>1, <1>2
<1>4. FlattenSeq(texts) \in Seq(AllTokens)
  <2> HIDE DEF texts
  <2>. QED BY <1>3, FlattenElements
<1>. QED BY <1>4 DEF SourcesText

\* Claim text is as masked as ingest left it, shows no placeholder of a question
\* and means what it shows.
LEMMA ClaimTokens ==
  ASSUME NEW t \in AllTokens
  PROVE  /\ DOMAIN t = {"number"} \/ DOMAIN t = {"shows", "of"}
         /\ IsMention(t) => /\ t.shows \in Real => t.of = t.shows /\ t.shows \in Unmasked
                            /\ \A n \in Nat : t.shows # Placeholder(QuestionSpace, n)
<1>1. PICK s \in AllSentences : t \in ToSet(s.text)
  BY DEF AllTokens
<1>2. PICK k \in Claims : s \in ToSet(Sentences[k])
  BY DEF AllSentences
<1>3. /\ IsText(s.text)
      /\ Shown(s.text) \cap Placeholders \subseteq [space : {RowSpace}, nr : Nat]
  BY <1>2, TextsAssumption
<1>4. IsMention(t) => t.shows \in Shown(s.text)
  <2>1. Shown(s.text) = {u.shows : u \in {v \in ToSet(s.text) : IsMention(v)}}
    BY KindsOf
  <2>. QED BY <1>1, <2>1
<1>5. IsMention(t) /\ t.shows \in Real => t.shows \in Unmasked
  BY <1>2, <1>4 DEF Unmasked
<1>6. ASSUME IsMention(t), NEW n \in Nat, t.shows = Placeholder(QuestionSpace, n) PROVE FALSE
  <2>1. t.shows \in Placeholders /\ t.shows.space = QuestionSpace
    BY <1>6 DEF Placeholders, Placeholder
  <2>2. t.shows.space = RowSpace
    BY <1>3, <1>4, <1>6, <2>1
  <2>. QED BY <2>1, <2>2 DEF RowSpace, QuestionSpace
<1>7. \/ DOMAIN t = {"number"}
      \/ DOMAIN t = {"shows", "of"} /\ (t.shows \in Real => t.of = t.shows)
  BY <1>1, <1>3 DEF IsText
<1>8. DOMAIN t = {"number"} => ~IsMention(t)
  BY DEF IsMention
<1>. QED BY <1>5, <1>6, <1>7, <1>8

-----------------------------------------------------------------------------
(* Masked and revealed again.                                               *)

LEMMA QuestionMasked ==
  ASSUME NEW q \in Questions
  PROVE  Masks(MaskedQuestion[q], Wording[q], QuestionSpace)
<1>1. IsText(Wording[q]) /\ MaskedQuestion[q] = Mask(Wording[q], QuestionSpace)
  BY TextsAssumption DEF MaskedQuestion, MaskQuestion
<1>. QED BY <1>1, MaskMasks

LEMMA RowsMasked ==
  ASSUME NEW rows \in Results
  PROVE  Masks(RowsText[rows], RenderRows(rows, NarrateLimit), RowSpace)
<1>1. NarrateLimit \in Nat
  BY BoundsAssumption
<1>2. IsText(RenderRows(rows, NarrateLimit))
  BY <1>1, RenderedIsText
<1>3. RowsText[rows] = Mask(RenderRows(rows, NarrateLimit), RowSpace)
  BY DEF RowsText
<1>. QED BY <1>2, <1>3, MaskMasks

\* unmask_text on one token.
UnmaskToken(t, space, mappings) ==
    IF IsMention(t) /\ \E n \in DOMAIN mappings : t.shows = Placeholder(space, n)
    THEN [t EXCEPT !.shows = mappings[@.nr]] ELSE t

LEMMA UnmaskElements ==
  ASSUME NEW X, NEW text \in Seq(X), NEW space, NEW mappings
  PROVE  LET revealed == Unmask(text, space, mappings)
         IN  /\ revealed \in Seq(ToSet(revealed))
             /\ \A u \in ToSet(revealed) :
                  \E t \in ToSet(text) : u = UnmaskToken(t, space, mappings)
<1> DEFINE revealed == Unmask(text, space, mappings)
           new(i) == UnmaskToken(text[i], space, mappings)
<1>1. revealed = [i \in DOMAIN text |-> new(i)]
  BY DEF Unmask, UnmaskToken
<1>2. DOMAIN text = 1..Len(text) /\ Len(text) \in Nat
  OBVIOUS
<1> HIDE DEF new, revealed
<1>3. revealed \in Seq({new(i) : i \in DOMAIN text})
  BY <1>1, <1>2
<1>4. revealed \in Seq(ToSet(revealed))
  BY <1>3, ElementsSuffice
<1>5. ASSUME NEW u \in ToSet(revealed) PROVE \E i \in DOMAIN text : u = new(i)
  BY <1>1 DEF ToSet
<1>6. \A i \in DOMAIN text : text[i] \in ToSet(text)
  BY DEF ToSet
<1>. QED BY <1>4, <1>5, <1>6 DEF new, revealed

\* Only what a mention shows changes.
LEMMA UnmaskKeeps ==
  ASSUME NEW t, NEW space, NEW mappings
  PROVE  LET u == UnmaskToken(t, space, mappings)
         IN  DOMAIN u = DOMAIN t /\ \A f \in DOMAIN t \ {"shows"} : u[f] = t[f]
BY DEF UnmaskToken

\* A token of which what it shows once unmasked is what it means.
Vouched(t, space, mappings) ==
    IsMention(t) =>
      \/ /\ DOMAIN t = {"shows", "of"}
         /\ \E n \in DOMAIN mappings : t.shows = Placeholder(space, n) /\ t.of = mappings[n]
      \/ /\ \A n \in DOMAIN mappings : t.shows # Placeholder(space, n)
         /\ t.shows \in Real => t.of = t.shows

Truthful(t) == IsMention(t) /\ t.shows \in Real => t.shows = t.of

LEMMA VouchedIsTruthful ==
  ASSUME NEW t, NEW space, NEW mappings, Vouched(t, space, mappings)
  PROVE  Truthful(UnmaskToken(t, space, mappings))
<1> DEFINE u == UnmaskToken(t, space, mappings)
<1>1. CASE ~IsMention(t)
  BY <1>1 DEF UnmaskToken, Truthful
<1>2. CASE IsMention(t) /\ \A n \in DOMAIN mappings : t.shows # Placeholder(space, n)
  BY <1>2 DEF UnmaskToken, Truthful, Vouched
<1>3. ASSUME IsMention(t), NEW n \in DOMAIN mappings, t.shows = Placeholder(space, n)
      PROVE  Truthful(u)
  <2>1. DOMAIN t = {"shows", "of"} /\ \E k \in DOMAIN mappings : t.shows = Placeholder(space, k) /\ t.of = mappings[k]
    BY <1>3 DEF Vouched
  <2>2. PICK k \in DOMAIN mappings : t.shows = Placeholder(space, k) /\ t.of = mappings[k]
    BY <2>1
  <2>3. t.shows.nr = k
    BY <2>2 DEF Placeholder
  <2>4. u = [t EXCEPT !.shows = mappings[k]]
    BY <1>3, <2>3 DEF UnmaskToken
  <2>5. u.shows = mappings[k] /\ u.of = t.of
    BY <2>1, <2>4
  <2>. QED BY <2>2, <2>5 DEF Truthful
<1>. QED BY <1>1, <1>2, <1>3

LEMMA RealIsNoPlaceholder ==
  ASSUME NEW v \in Real, NEW space \in {RowSpace, QuestionSpace}, NEW n \in Nat
  PROVE  v # Placeholder(space, n)
<1>1. Placeholder(space, n) \in Placeholders
  BY DEF Placeholder, Placeholders
<1>. QED BY <1>1, RealAssumption

LEMMA SpacesDiffer ==
  ASSUME NEW m, NEW n
  PROVE  Placeholder(RowSpace, m) # Placeholder(QuestionSpace, n)
<1>1. Placeholder(RowSpace, m).space = "" /\ Placeholder(QuestionSpace, n).space = "Q_"
  BY DEF Placeholder, RowSpace, QuestionSpace
<1>. QED BY <1>1

\* The tokens of a masked question.
Hidden(q) == ToSet(MaskedQuestion[q].text)

LEMMA HiddenIsVouched ==
  ASSUME NEW q \in Questions, NEW t \in Hidden(q)
  PROVE  /\ Vouched(t, QuestionSpace, MaskedQuestion[q].mappings)
         /\ IsMention(t) => \A n \in Nat : t.shows # Placeholder(RowSpace, n)
<1> DEFINE mappings == MaskedQuestion[q].mappings
<1>1. mappings \in Seq(Real) /\ Left(t, Wording[q], QuestionSpace, mappings)
  BY QuestionMasked DEF Masks, Hidden
<1>2. DOMAIN mappings \subseteq Nat
  <2> HIDE DEF mappings
  <2>. QED BY <1>1
<1> HIDE DEF mappings
<1>3. CASE t \in ToSet(Wording[q]) /\ ~(IsMention(t) /\ t.shows \in Real)
  <2>1. Bare(Wording[q]) /\ Shown(Wording[q]) = {u.shows : u \in {v \in ToSet(Wording[q]) : IsMention(v)}}
    BY TextsAssumption, KindsOf
  <2>2. IsMention(t) => t.shows \notin Placeholders
    BY <1>3, <2>1 DEF Bare
  <2>3. IsMention(t) => \A n \in Nat : /\ t.shows # Placeholder(QuestionSpace, n)
                                       /\ t.shows # Placeholder(RowSpace, n)
    BY <2>2 DEF Placeholders, Placeholder
  <2>4. Vouched(t, QuestionSpace, mappings)
    BY <1>2, <1>3, <2>3 DEF Vouched
  <2>. QED BY <2>3, <2>4 DEF mappings
<1>4. CASE /\ DOMAIN t = {"shows", "of"}
           /\ \E n \in DOMAIN mappings : t.shows = Placeholder(QuestionSpace, n) /\ t.of = mappings[n]
  <2>1. Vouched(t, QuestionSpace, mappings)
    BY <1>4 DEF Vouched
  <2>2. \A n \in Nat : t.shows # Placeholder(RowSpace, n)
    BY <1>4, SpacesDiffer
  <2>. QED BY <2>1, <2>2 DEF mappings
<1>. QED BY <1>1, <1>3, <1>4 DEF Left

LEMMA ClaimIsVouched ==
  ASSUME NEW t \in AllTokens, NEW mappings \in Seq(Real)
  PROVE  Vouched(t, QuestionSpace, mappings)
<1>1. DOMAIN mappings \subseteq Nat
  OBVIOUS
<1>. QED BY <1>1, ClaimTokens DEF Vouched

\* What a narrator read, once the rows are unmasked.
LEMMA NarratedIsVouched ==
  ASSUME NEW q \in Questions, NEW rows \in Results, Bare(RenderRows(rows, NarrateLimit)),
         NEW t \in Hidden(q) \cup ToSet(RowsText[rows].text)
  PROVE  Vouched(UnmaskToken(t, RowSpace, RowsText[rows].mappings),
                 QuestionSpace, MaskedQuestion[q].mappings)
<1> DEFINE asked == MaskedQuestion[q].mappings
           told == RowsText[rows].mappings
           rendered == RenderRows(rows, NarrateLimit)
           u == UnmaskToken(t, RowSpace, told)
<1>1. asked \in Seq(Real) /\ told \in Seq(Real)
  BY QuestionMasked, RowsMasked DEF Masks
<1>2. DOMAIN asked \subseteq Nat /\ DOMAIN told \subseteq Nat /\ \A n \in DOMAIN told : told[n] \in Real
  <2> HIDE DEF asked, told
  <2>. QED BY <1>1
<1>3. CASE t \in Hidden(q)
  <2>1. Vouched(t, QuestionSpace, asked) /\ (IsMention(t) => \A n \in Nat : t.shows # Placeholder(RowSpace, n))
    BY <1>3, HiddenIsVouched
  <2> HIDE DEF told
  <2>2. u = t
    BY <1>2, <2>1 DEF UnmaskToken
  <2>. QED BY <2>1, <2>2 DEF told
<1>4. CASE t \in ToSet(RowsText[rows].text)
  <2>1. Left(t, rendered, RowSpace, told)
    BY <1>4, RowsMasked DEF Masks
  <2> HIDE DEF told, asked, rendered
  <2>2. CASE t \in ToSet(rendered) /\ ~(IsMention(t) /\ t.shows \in Real)
    <3>1. Shown(rendered) = {v.shows : v \in {w \in ToSet(rendered) : IsMention(w)}} /\ Bare(rendered)
      BY KindsOf DEF rendered
    <3>2. IsMention(t) => t.shows \notin Placeholders
      BY <2>2, <3>1 DEF Bare
    <3>3. IsMention(t) => \A n \in Nat : /\ t.shows # Placeholder(QuestionSpace, n)
                                         /\ t.shows # Placeholder(RowSpace, n)
      BY <3>2 DEF Placeholders, Placeholder
    <3>4. u = t
      BY <1>2, <3>3 DEF UnmaskToken
    <3>5. Vouched(t, QuestionSpace, asked)
      BY <1>2, <2>2, <3>3 DEF Vouched
    <3>. QED BY <3>4, <3>5 DEF told, asked
  <2>3. ASSUME DOMAIN t = {"shows", "of"}, NEW n \in DOMAIN told,
               t.shows = Placeholder(RowSpace, n), t.of = told[n]
        PROVE  Vouched(u, QuestionSpace, asked)
    <3>1. t.shows.nr = n /\ IsMention(t)
      BY <2>3 DEF Placeholder, IsMention
    <3>2. u = [t EXCEPT !.shows = told[n]]
      BY <2>3, <3>1 DEF UnmaskToken
    <3>3. u.shows = told[n] /\ u.of = told[n] /\ told[n] \in Real
      BY <1>2, <2>3, <3>2
    <3>4. \A k \in Nat : told[n] # Placeholder(QuestionSpace, k)
      BY <3>3, RealIsNoPlaceholder
    <3> HIDE DEF u
    <3>. QED BY <1>2, <3>3, <3>4 DEF Vouched
  <2>. QED BY <2>1, <2>2, <2>3 DEF Left, told, asked
<1>. QED BY <1>3, <1>4

-----------------------------------------------------------------------------
(* What an answer tells.                                                    *)

TrueValues(rows, answer) ==
    Bare(RenderRows(rows, NarrateLimit)) =>
      \A t \in Mentions(answer.text \o answer.sql.literals) : t.shows \in Real => t.shows = t.of

TrueSources(hits, answer) ==
    /\ \A t \in Cites(answer.text) :
         t.cites \in DOMAIN answer.sources /\ answer.sources[t.cites] = t.of
    /\ answer.answerable /\ hits # <<>> => answer.sources # <<>>

TrueNumbers(rows, text) ==
    LET written == NumbersIn(RenderRows(rows, NarrateLimit))
        counted == written \cup {Whole(p.nr) : p \in Shown(RowsText[rows].text) \ Real}
    IN  rows # <<>> /\ ~(\E w \in written : w.sep = "." /\ w.digits = 3) =>
          \A t \in Numbers(text) :
            \/ t.number \in counted
            \/ ReadInTurkish(t.number) \in {WrittenByPostgres(w) : w \in counted}
            \/ ReadInTurkish(t.number) = 1000 * Len(rows)

TruthfulText(text) == text \in Seq(ToSet(text)) /\ \A t \in ToSet(text) : Truthful(t)

LEMMA ConcatElements ==
  ASSUME NEW s, NEW t, s \in Seq(ToSet(s)), t \in Seq(ToSet(t))
  PROVE  /\ ToSet(s \o t) = ToSet(s) \cup ToSet(t)
         /\ s \o t \in Seq(ToSet(s) \cup ToSet(t))
<1> DEFINE X == ToSet(s) \cup ToSet(t)
<1>1. s \in Seq(X) /\ t \in Seq(X)
  BY SeqGrows
<1> HIDE DEF X
<1>2. ToSet(s \o t) = ToSet(s) \cup ToSet(t) /\ s \o t \in Seq(X)
  BY <1>1, ElementsConcat, ConcatAt
<1>. QED BY <1>2 DEF X

LEMMA TruthfulAnswer ==
  ASSUME NEW rows, NEW answer, TruthfulText(answer.sql.literals),
         Bare(RenderRows(rows, NarrateLimit)) => TruthfulText(answer.text)
  PROVE  TrueValues(rows, answer)
<1> SUFFICES ASSUME Bare(RenderRows(rows, NarrateLimit))
             PROVE  \A t \in Mentions(answer.text \o answer.sql.literals) :
                      t.shows \in Real => t.shows = t.of
  BY DEF TrueValues
<1> DEFINE text == answer.text
           literals == answer.sql.literals
<1>1. TruthfulText(text) /\ TruthfulText(literals)
  OBVIOUS
<1> HIDE DEF text, literals
<1>2. ToSet(text \o literals) = ToSet(text) \cup ToSet(literals)
  BY <1>1, ConcatElements DEF TruthfulText
<1>3. Mentions(text \o literals) = {t \in ToSet(text \o literals) : IsMention(t)}
  BY KindsOf
<1>4. \A t \in Mentions(text \o literals) : t.shows \in Real => t.shows = t.of
  BY <1>1, <1>2, <1>3 DEF TruthfulText, Truthful
<1>. QED BY <1>4 DEF text, literals

\* A text of tokens that are vouched for is truthful once it is revealed.
LEMMA RevealedIsTruthful ==
  ASSUME NEW X, NEW text \in Seq(X), NEW mappings,
         \A t \in X : Vouched(t, QuestionSpace, mappings)
  PROVE  TruthfulText(Unmask(text, QuestionSpace, mappings))
<1> DEFINE revealed == Unmask(text, QuestionSpace, mappings)
<1>1. /\ revealed \in Seq(ToSet(revealed))
      /\ \A u \in ToSet(revealed) : \E t \in ToSet(text) : u = UnmaskToken(t, QuestionSpace, mappings)
  BY UnmaskElements
<1>2. ToSet(text) \subseteq X
  BY ElementsSuffice
<1> HIDE DEF revealed
<1>3. \A u \in ToSet(revealed) : Truthful(u)
  BY <1>1, <1>2, VouchedIsTruthful
<1>4. TruthfulText(revealed)
  BY <1>1, <1>3 DEF TruthfulText
<1>. QED BY <1>4 DEF revealed

LEMMA NothingIsTold ==
  /\ TruthfulText(<<>>)
  /\ \A rows : TrueNumbers(rows, <<>>)
  /\ Cites(<<>>) = {}
<1>1. ToSet(<<>>) = {} /\ <<>> \in Seq(ToSet(<<>>))
  BY ElementsEmpty
<1>2. Cites(<<>>) = {} /\ Numbers(<<>>) = {}
  BY <1>1, KindsOf
<1>3. TruthfulText(<<>>)
  BY <1>1 DEF TruthfulText
<1>4. ASSUME NEW rows PROVE TrueNumbers(rows, <<>>)
  BY <1>2, ZenonT(40) DEF TrueNumbers
<1>. QED BY <1>2, <1>3, <1>4

\* The kinds of the tokens that texts begin with.
PlainToken(t) == DOMAIN t = {"number"} \/ DOMAIN t = {"shows", "of"}

LEMMA HiddenIsPlain ==
  ASSUME NEW q \in Questions
  PROVE  MaskedQuestion[q].text \in Seq(Hidden(q)) /\ \A t \in Hidden(q) : PlainToken(t)
<1>1. Masks(MaskedQuestion[q], Wording[q], QuestionSpace) /\ IsText(Wording[q])
  BY QuestionMasked, TextsAssumption
<1>. QED BY <1>1 DEF Masks, Left, Hidden, IsText, PlainToken

LEMMA RowsArePlain ==
  ASSUME NEW rows \in Results
  PROVE  /\ RowsText[rows].text \in Seq(ToSet(RowsText[rows].text))
         /\ \A t \in ToSet(RowsText[rows].text) : PlainToken(t)
<1>1. NarrateLimit \in Nat
  BY BoundsAssumption
<1>2. Masks(RowsText[rows], RenderRows(rows, NarrateLimit), RowSpace) /\ IsText(RenderRows(rows, NarrateLimit))
  BY <1>1, RowsMasked, RenderedIsText
<1>. QED BY <1>2 DEF Masks, Left, IsText, PlainToken

LEMMA BoundedIsSeq ==
  ASSUME NEW X, NEW n \in Nat, NEW s \in BoundedSeq(X, n)
  PROVE  s \in Seq(X)
<1>1. PICK m \in 0..n : s \in [1..m -> X]
  BY DEF BoundedSeq, SeqOf
<1>. QED BY <1>1

\* A refusal tells nothing, with a statement that is truthful.
LEMMA RefusalTells ==
  ASSUME NEW answer, answer.text = <<>>, answer.answerable = FALSE, TruthfulText(answer.sql.literals)
  PROVE  \A rows, hits : /\ TrueValues(rows, answer) /\ TrueSources(hits, answer)
                         /\ TrueNumbers(rows, answer.text)
<1>1. TruthfulText(answer.text) /\ Cites(answer.text) = {} /\ \A rows : TrueNumbers(rows, answer.text)
  BY NothingIsTold
<1>2. ASSUME NEW rows PROVE TrueValues(rows, answer)
  BY <1>1, TruthfulAnswer
<1>3. ASSUME NEW hits PROVE TrueSources(hits, answer)
  BY <1>1, Zenon DEF TrueSources
<1>. QED BY <1>1, <1>2, <1>3

-----------------------------------------------------------------------------
(* The SQL path: what a narrator may write, once it is shown.               *)

NumbersVerified(text, rows) == UnverifiedNumbers(text, RowsText[rows].text, Len(rows)) = {}

LEMMA NarrationTells ==
  ASSUME NEW q \in Questions, NEW rows \in Results,
         NEW text \in Narrations(MaskedQuestion[q].text \o RowsText[rows].text),
         NumbersVerified(text, rows)
  PROVE  LET shown == Unmask(Unmask(text, RowSpace, RowsText[rows].mappings),
                             QuestionSpace, MaskedQuestion[q].mappings)
         IN  /\ Bare(RenderRows(rows, NarrateLimit)) => TruthfulText(shown)
             /\ Cites(shown) = {}
             /\ TrueNumbers(rows, shown)
<1> DEFINE read == MaskedQuestion[q].text \o RowsText[rows].text
           told == RowsText[rows].mappings
           asked == MaskedQuestion[q].mappings
           X == Hidden(q) \cup ToSet(RowsText[rows].text)
           made == {Number(n) : n \in Invented}
           once == Unmask(text, RowSpace, told)
           shown == Unmask(once, QuestionSpace, asked)
<1>1. /\ ToSet(read) = X /\ \A t \in X : PlainToken(t)
  <2>1. /\ MaskedQuestion[q].text \in Seq(Hidden(q)) /\ \A t \in Hidden(q) : PlainToken(t)
        /\ RowsText[rows].text \in Seq(ToSet(RowsText[rows].text))
        /\ \A t \in ToSet(RowsText[rows].text) : PlainToken(t)
    BY HiddenIsPlain, RowsArePlain
  <2>. QED BY <2>1, ConcatElements DEF Hidden
<1>2. PICK said \in BoundedSeq(Mentions(read), 1),
           counted \in BoundedSeq(Numbers(read) \cup made, 1) : text = said \o counted
  <2>1. text \in Narrations(read)
    OBVIOUS
  <2> DEFINE A == BoundedSeq(Mentions(read), 1)
             B == BoundedSeq(Numbers(read) \cup made, 1)
  <2>2. Narrations(read) = {s \o t : s \in A, t \in B}
    BY DEF Narrations
  <2> HIDE DEF A, B
  <2>3. \E s \in A, t \in B : text = s \o t
    BY <2>1, <2>2
  <2>. QED BY <2>3 DEF A, B
<1>3. /\ Mentions(read) = {t \in X : IsMention(t)}
      /\ Numbers(read) = {t \in X : IsNumber(t)}
  <2>1. /\ Mentions(read) = {t \in ToSet(read) : IsMention(t)}
        /\ Numbers(read) = {t \in ToSet(read) : IsNumber(t)}
    BY KindsOf
  <2> HIDE DEF X, read
  <2>. QED BY <1>1, <2>1
<1> HIDE DEF read, X, told, asked
<1>4. text \in Seq(X \cup made)
  <2>1. said \in Seq({t \in X : IsMention(t)}) /\ counted \in Seq({t \in X : IsNumber(t)} \cup made)
    <3> DEFINE Y == Mentions(read)
               Z == Numbers(read) \cup made
    <3> HIDE DEF Y, Z
    <3>1. said \in Seq(Y) /\ counted \in Seq(Z)
      BY <1>2, BoundedIsSeq DEF Y, Z
    <3>. QED BY <1>3, <3>1 DEF Y, Z
  <2> HIDE DEF made
  <2>2. said \in Seq(X \cup made) /\ counted \in Seq(X \cup made)
    BY <2>1, SeqGrows
  <2>. QED BY <1>2, <2>2
<1>5. ToSet(text) \subseteq X \cup made /\ \A t \in made : DOMAIN t = {"number"}
  <2>1. ToSet(text) \subseteq X \cup made
    BY <1>4, ElementsSuffice
  <2>. QED BY <2>1 DEF Number
<1>6. \A t \in ToSet(text) : PlainToken(t)
  BY <1>1, <1>5 DEF PlainToken
<1> HIDE DEF made
<1>7. /\ once \in Seq(ToSet(once))
      /\ \A u \in ToSet(once) : \E t \in ToSet(text) : u = UnmaskToken(t, RowSpace, told)
  BY <1>4, UnmaskElements
<1> HIDE DEF once
<1>8. /\ shown \in Seq(ToSet(shown))
      /\ \A u \in ToSet(shown) : \E t \in ToSet(once) : u = UnmaskToken(t, QuestionSpace, asked)
  BY <1>7, UnmaskElements
<1>9. ASSUME Bare(RenderRows(rows, NarrateLimit)) PROVE TruthfulText(shown)
  <2>1. ASSUME NEW u \in ToSet(once) PROVE Vouched(u, QuestionSpace, asked)
    <3>1. PICK t \in ToSet(text) : u = UnmaskToken(t, RowSpace, told)
      BY <1>7
    <3>2. CASE t \in X
      BY <1>9, <3>1, <3>2, NarratedIsVouched DEF X, told, asked
    <3>3. CASE DOMAIN t = {"number"}
      BY <3>1, <3>3 DEF UnmaskToken, IsMention, Vouched
    <3>. QED BY <1>5, <3>2, <3>3
  <2>. QED BY <1>7, <2>1, RevealedIsTruthful
<1> HIDE DEF shown
<1>10. ASSUME NEW u \in ToSet(shown)
       PROVE  \E t \in ToSet(text) : /\ DOMAIN u = DOMAIN t /\ PlainToken(t)
                                     /\ IsNumber(u) => u.number = t.number
  <2>1. PICK v \in ToSet(once) : u = UnmaskToken(v, QuestionSpace, asked)
    BY <1>8
  <2>2. PICK t \in ToSet(text) : v = UnmaskToken(t, RowSpace, told)
    BY <1>7
  <2>3. DOMAIN u = DOMAIN v /\ \A f \in DOMAIN v \ {"shows"} : u[f] = v[f]
    BY <2>1, UnmaskKeeps
  <2>4. DOMAIN v = DOMAIN t /\ \A f \in DOMAIN t \ {"shows"} : v[f] = t[f]
    BY <2>2, UnmaskKeeps
  <2>. QED BY <1>6, <2>3, <2>4 DEF IsNumber
<1>11. Cites(shown) = {}
  <2>1. Cites(shown) = {u \in ToSet(shown) : IsCite(u)}
    BY KindsOf
  <2>2. ASSUME NEW u \in ToSet(shown) PROVE ~IsCite(u)
    BY <1>10 DEF PlainToken, IsCite
  <2>. QED BY <2>1, <2>2
<1>12. TrueNumbers(rows, shown)
  <2> DEFINE masked == RowsText[rows].text
             written == NumbersIn(RenderRows(rows, NarrateLimit))
             stands == {Whole(p.nr) : p \in Shown(masked) \ Real}
             present == NumbersIn(masked)
             Accepted(n) == \/ n \in written \cup stands
                            \/ ReadInTurkish(n) \in {WrittenByPostgres(w) : w \in written \cup stands}
                            \/ ReadInTurkish(n) = 1000 * Len(rows)
  <2> SUFFICES ASSUME ~(\E w \in written : w.sep = "." /\ w.digits = 3),
                      NEW u \in Numbers(shown)
               PROVE  Accepted(u.number)
    BY DEF TrueNumbers
  <2>1. present \subseteq written \cup stands
    <3>1. \A t \in ToSet(masked) : IsNumber(t) => t \in ToSet(RenderRows(rows, NarrateLimit))
      BY RowsMasked DEF Masks, Left, IsNumber
    <3>2. /\ Numbers(masked) = {t \in ToSet(masked) : IsNumber(t)}
          /\ Numbers(RenderRows(rows, NarrateLimit))
               = {t \in ToSet(RenderRows(rows, NarrateLimit)) : IsNumber(t)}
      BY KindsOf
    <3> HIDE DEF masked
    <3>3. {t.number : t \in Numbers(masked)} \subseteq written
      BY <3>1, <3>2 DEF NumbersIn
    <3>. QED BY <3>3 DEF NumbersIn
  <2>2. ASSUME NEW w \in written \cup stands PROVE ParseNumber(w) = WrittenByPostgres(w)
    <3>1. ~(w.sep = "." /\ w.digits = 3)
      <4>1. CASE w \in written
        BY <4>1
      <4>2. CASE w \in stands
        <5>1. PICK p \in Shown(masked) \ Real : w = Whole(p.nr)
          BY <4>2
        <5>. QED BY <5>1 DEF Whole, Token
      <4>. QED BY <4>1, <4>2
    <3>. QED BY <3>1 DEF ParseNumber, WrittenByPostgres
  <2>3. u.number \in NumbersIn(text)
    <3>1. u \in ToSet(shown) /\ IsNumber(u)
      BY KindsOf
    <3>2. PICK t \in ToSet(text) : DOMAIN u = DOMAIN t /\ u.number = t.number
      BY <1>10, <3>1
    <3>3. t \in Numbers(text)
      <4>1. Numbers(text) = {v \in ToSet(text) : IsNumber(v)}
        BY KindsOf
      <4>. QED BY <3>1, <3>2, <4>1 DEF IsNumber
    <3>. QED BY <3>2, <3>3 DEF NumbersIn
  <2> HIDE DEF written, stands, present
  <2>4. \/ u.number \in present
        \/ ParseNumber(u.number) \in {ParseNumber(w) : w \in present} \cup {1000 * Len(rows)}
    BY <2>3 DEF NumbersVerified, UnverifiedNumbers, present
  <2>5. ReadInTurkish(u.number) = ParseNumber(u.number)
    BY DEF ReadInTurkish, ParseNumber
  <2>. QED BY <2>1, <2>2, <2>4, <2>5
<1>. QED BY <1>9, <1>11, <1>12 DEF shown, once, told, asked

-----------------------------------------------------------------------------
(* The retrieval path: what an answer from sources may hold, once shown.    *)

\* The sources the answer is shipped with.
LEMMA CitedAreHits ==
  ASSUME NEW n \in Nat, NEW used \in BoundedSeq(1..(n + 1), 2)
  PROVE  SplitCitations(used, n) \in Seq(1..n)
<1>1. used \in Seq(1..(n + 1))
  BY BoundedIsSeq
<1>2. Once(used) \in Seq(1..(n + 1))
  BY <1>1, OnceElements
<1> DEFINE once == Once(used)
           valid == Kept(once, 1..n)
<1> HIDE DEF once
<1>3. valid \in Seq(1..(n + 1)) /\ ToSet(valid) = ToSet(once) \cap (1..n)
  BY <1>2, KeptElements DEF once
<1> HIDE DEF valid
<1>4. valid \in Seq(ToSet(valid)) /\ ToSet(valid) \subseteq 1..n
  BY <1>3, ElementsSuffice
<1>5. valid \in Seq(1..n)
  BY <1>4, SeqGrows
<1>. QED BY <1>5 DEF valid, once, SplitCitations

\* Renumbering keeps the markers of shipped sources, each with the place of its
\* source among them, and every other token.
Renumbered(u, t, valid) ==
    \/ u = t /\ ~IsCite(t)
    \/ /\ IsCite(t) /\ DOMAIN u = DOMAIN t /\ \A f \in DOMAIN t \ {"cites"} : u[f] = t[f]
       /\ u.cites \in DOMAIN valid /\ valid[u.cites] = t.cites

LEMMA RenumberElements ==
  ASSUME NEW X, NEW answer \in Seq(X), NEW Y, NEW valid \in Seq(Y)
  PROVE  LET text == Renumber(answer, valid)
         IN  /\ text \in Seq(ToSet(text))
             /\ \A u \in ToSet(text) : \E t \in ToSet(answer) : Renumbered(u, t, valid)
<1> DEFINE S == {t \in ToSet(answer) : IsCite(t) => Contains(valid, t.cites)}
           kept == Kept(answer, S)
           new(i) == IF IsCite(kept[i]) THEN [kept[i] EXCEPT !.cites = Position(valid, @)] ELSE kept[i]
           text == Renumber(answer, valid)
<1>1. text = [i \in DOMAIN kept |-> new(i)]
  BY DEF Renumber
<1>2. kept \in Seq(X) /\ ToSet(kept) = ToSet(answer) \cap S
  <2> HIDE DEF S
  <2>. QED BY KeptElements
<1>3. \A t \in ToSet(kept) : t \in ToSet(answer) /\ (IsCite(t) => Contains(valid, t.cites))
  BY <1>2
<1> HIDE DEF kept, text
<1>4. DOMAIN kept = 1..Len(kept) /\ Len(kept) \in Nat /\ \A i \in DOMAIN kept : kept[i] \in ToSet(kept)
  <2>1. DOMAIN kept = 1..Len(kept) /\ Len(kept) \in Nat
    BY <1>2
  <2>. QED BY <2>1 DEF ToSet
<1>5. ASSUME NEW i \in DOMAIN kept PROVE Renumbered(new(i), kept[i], valid)
  <2>1. CASE ~IsCite(kept[i])
    BY <2>1 DEF Renumbered
  <2>2. CASE IsCite(kept[i])
    <3> DEFINE t == kept[i]
               p == Position(valid, t.cites)
    <3>1. PICK j \in 1..Len(valid) : valid[j] = t.cites
      BY <1>3, <1>4, <2>2 DEF Contains
    <3>2. j \in DOMAIN valid
      BY <3>1
    <3>3. p \in DOMAIN valid /\ valid[p] = t.cites
      BY <3>1, <3>2 DEF Position
    <3>4. new(i) = [t EXCEPT !.cites = p] /\ "cites" \in DOMAIN t
      BY <2>2 DEF IsCite
    <3> HIDE DEF p, t, new
    <3>5. /\ DOMAIN new(i) = DOMAIN t /\ new(i).cites = p
          /\ \A f \in DOMAIN t \ {"cites"} : new(i)[f] = t[f]
      BY <3>4
    <3>. QED BY <2>2, <3>3, <3>5 DEF Renumbered, t
  <2>. QED BY <2>1, <2>2
<1> HIDE DEF new
<1>6. text \in Seq({new(i) : i \in DOMAIN kept})
  BY <1>1, <1>4
<1>7. text \in Seq(ToSet(text))
  BY <1>6, ElementsSuffice
<1>8. ASSUME NEW u \in ToSet(text) PROVE \E t \in ToSet(answer) : Renumbered(u, t, valid)
  <2>1. PICK i \in DOMAIN kept : u = new(i)
    BY <1>1 DEF ToSet
  <2>2. kept[i] \in ToSet(answer)
    BY <1>3, <1>4
  <2>. QED BY <1>5, <2>1, <2>2
<1>. QED BY <1>7, <1>8 DEF text

LEMMA ReplyTells ==
  ASSUME NEW c, NEW q \in Questions, call[c].question = q,
         NEW hits, call[c].hits = hits, IsHits(hits),
         NEW used \in BoundedSeq(Numbered(c), 2), NEW valid, valid = Cited(c, used),
         NEW reply \in Replies(c)
  PROVE  LET shown == Revealed(c, Renumber(reply, valid))
         IN  /\ TruthfulText(shown)
             /\ \A t \in Cites(shown) : /\ t.cites \in DOMAIN Chips(c, valid)
                                        /\ Chips(c, valid)[t.cites] = t.of
             /\ valid # <<>> => Chips(c, valid) # <<>>
<1> DEFINE asked == MaskedQuestion[q].mappings
           read == MaskedQuestion[q].text \o SourcesText(hits)
           X == Hidden(q) \cup AllTokens
           marked == {Cite(n, IF n \in DOMAIN hits THEN hits[n] ELSE NoClaim) : n \in 1..(Len(hits) + 1)}
           text == Renumber(reply, valid)
           shown == Unmask(text, QuestionSpace, asked)
           chips == Chips(c, valid)
<1>1. hits \in Seq(Claims) /\ Len(hits) \in Nat /\ DOMAIN hits = 1..Len(hits)
  <2>1. hits \in Seq(Claims)
    BY HitsAreClaims
  <2>. QED BY <2>1
<1>2. valid \in Seq(1..Len(hits))
  BY <1>1, CitedAreHits DEF Numbered, Cited
<1>3. ToSet(read) \subseteq X
  <2>1. MaskedQuestion[q].text \in Seq(Hidden(q)) /\ SourcesText(hits) \in Seq(AllTokens)
    BY HiddenIsPlain, SourcesAreClaimText
  <2>2. MaskedQuestion[q].text \in Seq(X) /\ SourcesText(hits) \in Seq(X)
    BY <2>1, SeqGrows
  <2> HIDE DEF X
  <2>3. read \in Seq(X)
    BY <2>2
  <2>. QED BY <2>3, ElementsSuffice
<1> HIDE DEF X, marked, read
<1>4. PICK marks, said : /\ marks \in BoundedSeq(marked, 2)
                         /\ said \in BoundedSeq(Mentions(read), 1)
                         /\ reply = marks \o said
  <2> DEFINE A == BoundedSeq(marked, 2)
             B == BoundedSeq(Mentions(read), 1)
  <2>1. Replies(c) = {s \o t : s \in A, t \in B}
    BY DEF Replies, Masked, Numbered, marked, read
  <2> HIDE DEF A, B
  <2>2. \E s \in A, t \in B : reply = s \o t
    BY <2>1
  <2>. QED BY <2>2 DEF A, B
<1>5. reply \in Seq(marked \cup X) /\ ToSet(reply) \subseteq marked \cup X
  <2> DEFINE B == Mentions(read)
  <2>1. B \subseteq X
    BY <1>3 DEF Mentions
  <2> HIDE DEF B
  <2>2. marks \in Seq(marked) /\ said \in Seq(B)
    BY <1>4, BoundedIsSeq DEF B
  <2>3. marks \in Seq(marked \cup X) /\ said \in Seq(marked \cup X)
    BY <2>1, <2>2, SeqGrows
  <2>4. reply \in Seq(marked \cup X)
    BY <1>4, <2>3
  <2>. QED BY <2>4, ElementsSuffice
<1>6. ASSUME NEW t \in X PROVE Vouched(t, QuestionSpace, asked) /\ ~IsCite(t)
  <2>1. asked \in Seq(Real)
    BY QuestionMasked DEF Masks
  <2>2. CASE t \in Hidden(q)
    BY <2>2, HiddenIsVouched, HiddenIsPlain DEF PlainToken, IsCite
  <2>3. CASE t \in AllTokens
    <3> HIDE DEF asked
    <3>. QED BY <2>1, <2>3, ClaimIsVouched, ClaimTokens DEF IsCite
  <2>. QED BY <2>2, <2>3 DEF X
<1>7. ASSUME NEW t \in marked
      PROVE  /\ DOMAIN t = {"cites", "of"}
             /\ t.cites \in DOMAIN hits => t.of = hits[t.cites]
  BY DEF marked, Cite
<1>8. /\ text \in Seq(ToSet(text))
      /\ \A u \in ToSet(text) : \E t \in ToSet(reply) : Renumbered(u, t, valid)
  BY <1>2, <1>5, RenumberElements
<1> HIDE DEF text, asked
<1>9. ASSUME NEW u \in ToSet(text)
      PROVE  /\ Vouched(u, QuestionSpace, asked)
             /\ IsCite(u) => /\ ~IsMention(u) /\ u.cites \in DOMAIN valid
                             /\ u.of = hits[valid[u.cites]]
  <2>1. PICK t \in ToSet(reply) : Renumbered(u, t, valid)
    BY <1>8
  <2>2. CASE t \in X
    BY <1>6, <2>1, <2>2 DEF Renumbered
  <2>3. CASE t \in marked
    <3>1. /\ DOMAIN u = {"cites", "of"} /\ u.of = t.of
          /\ u.cites \in DOMAIN valid /\ valid[u.cites] = t.cites
      BY <1>7, <2>1, <2>3 DEF Renumbered, IsCite
    <3>2. t.cites \in DOMAIN hits
      BY <1>1, <1>2, <3>1
    <3>3. ~IsMention(u)
      BY <3>1 DEF IsMention
    <3>. QED BY <1>7, <2>3, <3>1, <3>2, <3>3 DEF Vouched
  <2>. QED BY <1>5, <2>2, <2>3
<1>10. TruthfulText(shown)
  <2>. QED BY <1>8, <1>9, RevealedIsTruthful
<1>11. ASSUME NEW u \in Cites(shown)
       PROVE  u.cites \in DOMAIN chips /\ chips[u.cites] = u.of
  <2>1. u \in ToSet(shown) /\ IsCite(u)
    BY DEF Cites
  <2>2. PICK t \in ToSet(text) : u = UnmaskToken(t, QuestionSpace, asked)
    BY <1>8, <2>1, UnmaskElements
  <2>3. DOMAIN u = DOMAIN t /\ \A f \in DOMAIN t \ {"shows"} : u[f] = t[f]
    BY <2>2, UnmaskKeeps
  <2>4. IsCite(t)
    BY <2>1, <2>3 DEF IsCite
  <2>5. ~IsMention(t) /\ t.cites \in DOMAIN valid /\ t.of = hits[valid[t.cites]]
    BY <1>9, <2>4
  <2>6. u = t
    BY <2>2, <2>5 DEF UnmaskToken
  <2>7. chips = [i \in DOMAIN valid |-> hits[valid[i]]]
    BY DEF Chips
  <2>. QED BY <2>5, <2>6, <2>7
<1>12. valid # <<>> => chips # <<>>
  <2>1. DOMAIN chips = DOMAIN valid
    BY DEF Chips
  <2> HIDE DEF chips
  <2>2. valid # <<>> => 1 \in DOMAIN valid
    BY <1>2
  <2>. QED BY <2>1, <2>2
<1>13. Revealed(c, Renumber(reply, valid)) = shown
  BY DEF Revealed, Masked, text, asked
<1>. QED BY <1>10, <1>11, <1>12, <1>13

-----------------------------------------------------------------------------
(* What a call holds.                                                       *)

\* A statement whose literals are tokens of the masked question.
IsDraft(draft, q) == DOMAIN draft = DOMAIN NoDraft /\ draft.literals \in Seq(Hidden(q))

Early == {"unasked", "received", "routing", "writing", "running", "searching"}

\* The question is one of those asked, the statement's literals are its masked
\* tokens, no prompt shows a real value, rows and hits are there on the path
\* and from the stage they belong to, and the answer tells the truth about them.
Data(k) ==
    /\ k.pc \in Stages \cup {"received"} => k.question \in Questions
    /\ k.filter \in Filters
    /\ k.prompt \cap Real \subseteq Unmasked
    /\ k.pc \in {"unasked", "received"} => k.draft = NoDraft
    /\ k.pc \in Stages => IsDraft(k.draft, k.question)
    /\ k.pc \in Early => k.rows = <<>> /\ k.hits = <<>>
    /\ k.pc \in Early \cup Asking => k.answer = NoAnswer
    /\ k.pc = "narrating" => k.rows \in Results /\ k.hits = <<>>
    /\ k.pc = "answering" => k.rows = <<>> /\ IsHits(k.hits)
    /\ k.hits # <<>> => IsHits(k.hits)
    /\ TrueValues(k.rows, k.answer)
    /\ TrueSources(k.hits, k.answer)
    /\ TrueNumbers(k.rows, k.answer.text)

DataInv == \A c \in Calls : Data(call[c])

-----------------------------------------------------------------------------
(* Prompts.                                                                 *)

Safe(text) == Shown(text) \cap Real \subseteq Unmasked

LEMMA NothingIsSafe == Safe(<<>>)
BY ElementsEmpty DEF Safe, Shown, Mentions

LEMMA QuestionIsSafe == ASSUME NEW q \in Questions PROVE Safe(MaskedQuestion[q].text)
<1>1. Shown(MaskedQuestion[q].text) \cap Real = {}
  BY QuestionMasked, MaskedShowsNothing
<1>. QED BY <1>1 DEF Safe

LEMMA ConcatIsSafe ==
  ASSUME NEW s, NEW t, s \in Seq(ToSet(s)), t \in Seq(ToSet(t)), Safe(s), Safe(t)
  PROVE  Safe(s \o t)
<1>1. ToSet(s \o t) = ToSet(s) \cup ToSet(t)
  BY ConcatElements
<1>. QED BY <1>1 DEF Safe, Shown, Mentions

\* The masked question with what else a prompt of its call holds.
LEMMA PromptIsSafe ==
  ASSUME NEW q \in Questions, NEW text, text \in Seq(ToSet(text)), Safe(text)
  PROVE  Safe(MaskedQuestion[q].text \o text)
<1>1. MaskedQuestion[q].text \in Seq(ToSet(MaskedQuestion[q].text))
  BY HiddenIsPlain DEF Hidden
<1>. QED BY <1>1, QuestionIsSafe, ConcatIsSafe

LEMMA LiteralsAreSafe ==
  ASSUME NEW q \in Questions, NEW literals \in Seq(Hidden(q))
  PROVE  literals \in Seq(ToSet(literals)) /\ Safe(literals)
<1>1. literals \in Seq(ToSet(literals)) /\ ToSet(literals) \subseteq Hidden(q)
  BY ElementsSuffice
<1>. QED BY <1>1, QuestionIsSafe DEF Safe, Shown, Mentions, Hidden

LEMMA RowsAreSafe ==
  ASSUME NEW rows \in Results
  PROVE  RowsText[rows].text \in Seq(ToSet(RowsText[rows].text)) /\ Safe(RowsText[rows].text)
<1>1. Shown(RowsText[rows].text) \cap Real = {}
  BY RowsMasked, MaskedShowsNothing
<1>. QED BY <1>1, RowsArePlain DEF Safe

LEMMA SourcesAreSafe ==
  ASSUME NEW hits, IsHits(hits)
  PROVE  SourcesText(hits) \in Seq(ToSet(SourcesText(hits))) /\ Safe(SourcesText(hits))
<1> DEFINE text == SourcesText(hits)
<1>1. text \in Seq(AllTokens)
  BY SourcesAreClaimText
<1> HIDE DEF text
<1>2. text \in Seq(ToSet(text)) /\ ToSet(text) \subseteq AllTokens
  BY <1>1, ElementsSuffice
<1>3. Safe(text)
  BY <1>2, ClaimTokens DEF Safe, Shown, Mentions
<1>. QED BY <1>2, <1>3 DEF text

-----------------------------------------------------------------------------
(* The steps of a call.                                                     *)

Others(c) == \A d \in Calls \ {c} : call'[d] = call[d]

\* What a call carries from one stage to the next.
Carries(c, after) ==
    /\ Others(c)
    /\ call'[c].question = after.question /\ call'[c].filter = after.filter
    /\ call'[c].draft = after.draft /\ call'[c].rows = after.rows
    /\ call'[c].hits = after.hits /\ call'[c].answer = after.answer

LEMMA AsksCarries ==
  ASSUME ShapeInv, NEW c \in Calls, NEW stage, NEW text, NEW after, DOMAIN after = Fields,
         Asks(c, stage, text, after)
  PROVE  Carries(c, after) /\ call'[c].pc = stage /\ call'[c].prompt = Shown(text)
<1> DEFINE new(d) == [after EXCEPT !.pc = stage, !.due = Clock(c, stage, d).due,
                                   !.retried = Clock(c, stage, d).retried, !.prompt = Shown(text)]
<1>1. PICK d \in Durations(stage) : call' = [call EXCEPT ![c] = new(d)]
  BY DEF Asks
<1>2. /\ new(d).pc = stage /\ new(d).prompt = Shown(text)
      /\ new(d).question = after.question /\ new(d).filter = after.filter
      /\ new(d).draft = after.draft /\ new(d).rows = after.rows
      /\ new(d).hits = after.hits /\ new(d).answer = after.answer
  BY DEF Fields
<1> HIDE DEF new
<1>3. call'[c] = new(d) /\ \A e \in Calls \ {c} : call'[e] = call[e]
  BY <1>1 DEF ShapeInv
<1>. QED BY <1>2, <1>3 DEF Carries, Others

LEMMA OthersKeep ==
  ASSUME DataInv, NEW c \in Calls, Data(call'[c]), Others(c)
  PROVE  DataInv'
<1>1. ASSUME NEW d \in Calls PROVE Data(call'[d])
  <2>1. CASE d = c
    BY <2>1
  <2>2. CASE d # c
    <3>1. call'[d] = call[d]
      BY <2>2 DEF Others
    <3>. QED BY <3>1 DEF DataInv
  <2>. QED BY <2>1, <2>2
<1>. QED BY <1>1 DEF DataInv

Tells(k, answer) == /\ TrueValues(k.rows, answer) /\ TrueSources(k.hits, answer)
                    /\ TrueNumbers(k.rows, answer.text)

\* An answer that tells the truth may end a call, and a call nobody awaits
\* keeps none.
LEMMA EndsData ==
  ASSUME ShapeInv, DataInv, NEW c \in Calls, call[c].pc \in Stages, NEW answer, NEW outcome,
         Tells(call[c], answer), Ends(c, answer, outcome)
  PROVE  DataInv'
<1> DEFINE withheld == [NoAnswer EXCEPT !.answerable = answer.answerable]
           shown == [call[c] EXCEPT !.answer = answer, !.outcome = outcome]
           kept  == [call[c] EXCEPT !.answer = withheld, !.outcome = outcome, !.rows = <<>>, !.hits = <<>>]
<1>1. DOMAIN call[c] = Fields /\ Data(call[c])
  BY DEF ShapeInv, DataInv
<1>2. Asks(c, "auditing", <<>>, shown) \/ Asks(c, "auditing", <<>>, kept)
  BY DEF Ends, Enters
<1>3. /\ withheld.text = <<>> /\ withheld.sources = <<>> /\ withheld.sql.literals = <<>>
  BY DEF NoAnswer, Refusal, Answer, NoDraft
<1>4. /\ TruthfulText(<<>>) /\ TrueNumbers(<<>>, <<>>) /\ Cites(<<>>) = {}
  BY NothingIsTold
<1> HIDE DEF withheld
<1>5. TrueValues(<<>>, withheld) /\ TrueSources(<<>>, withheld) /\ TrueNumbers(<<>>, withheld.text)
  <2>1. TrueValues(<<>>, withheld)
    BY <1>3, <1>4, TruthfulAnswer
  <2>. QED BY <1>3, <1>4, <2>1 DEF TrueSources
<1>6. /\ DOMAIN shown = Fields /\ DOMAIN kept = Fields
      /\ shown.question = call[c].question /\ kept.question = call[c].question
      /\ shown.filter = call[c].filter /\ kept.filter = call[c].filter
      /\ shown.draft = call[c].draft /\ kept.draft = call[c].draft
      /\ shown.rows = call[c].rows /\ kept.rows = <<>>
      /\ shown.hits = call[c].hits /\ kept.hits = <<>>
      /\ shown.answer = answer /\ kept.answer = withheld
  BY <1>1 DEF Fields
<1> HIDE DEF shown, kept
<1>7. PICK after \in {shown, kept} : Asks(c, "auditing", <<>>, after)
  BY <1>2
<1>8. Carries(c, after) /\ call'[c].pc = "auditing" /\ call'[c].prompt = Shown(<<>>)
  BY <1>6, <1>7, AsksCarries
<1>9. Data(call'[c])
  <2>1. /\ call'[c].question = call[c].question /\ call'[c].filter = call[c].filter
        /\ call'[c].draft = call[c].draft
        /\ \/ /\ call'[c].rows = call[c].rows /\ call'[c].hits = call[c].hits
              /\ call'[c].answer = answer
           \/ call'[c].rows = <<>> /\ call'[c].hits = <<>> /\ call'[c].answer = withheld
    BY <1>6, <1>8 DEF Carries
  <2>2. /\ TrueValues(call'[c].rows, call'[c].answer) /\ TrueSources(call'[c].hits, call'[c].answer)
        /\ TrueNumbers(call'[c].rows, call'[c].answer.text)
        /\ call'[c].hits # <<>> => IsHits(call'[c].hits)
    BY <1>1, <1>5, <2>1 DEF Tells, Data
  <2>3. call'[c].prompt \cap Real \subseteq Unmasked
    BY <1>8, NothingIsSafe DEF Safe
  <2>4. /\ "auditing" \in Stages /\ "auditing" \notin Early \cup Asking
        /\ "auditing" \notin {"unasked", "received", "narrating", "answering"}
    BY DEF Stages, Early, Asking
  <2>5. /\ call[c].question \in Questions /\ call[c].filter \in Filters
        /\ IsDraft(call[c].draft, call[c].question)
    BY <1>1 DEF Data
  <2> HIDE DEF Data
  <2>. QED BY <1>8, <2>1, <2>2, <2>3, <2>4, <2>5 DEF Data
<1>. QED BY <1>8, <1>9, OthersKeep DEF Carries

\* The call goes on with a stage before the answer.
LEMMA AsksData ==
  ASSUME ShapeInv, DataInv, NEW c \in Calls, NEW stage \in (Early \cup Asking) \ {"unasked", "received"},
         NEW text, Safe(text), NEW after, DOMAIN after = Fields, Asks(c, stage, text, after),
         after.question \in Questions, after.filter \in Filters,
         IsDraft(after.draft, after.question),
         after.answer = NoAnswer,
         stage \in Early => after.rows = <<>> /\ after.hits = <<>>,
         stage = "narrating" => after.rows \in Results /\ after.hits = <<>>,
         stage = "answering" => after.rows = <<>> /\ IsHits(after.hits)
  PROVE  DataInv'
<1>1. Carries(c, after) /\ call'[c].pc = stage /\ call'[c].prompt = Shown(text)
  BY AsksCarries
<1>2. /\ call'[c].question = after.question /\ call'[c].filter = after.filter
      /\ call'[c].draft = after.draft /\ call'[c].rows = after.rows
      /\ call'[c].hits = after.hits /\ call'[c].answer = NoAnswer
  BY <1>1 DEF Carries
<1>3. /\ NoAnswer.text = <<>> /\ NoAnswer.answerable = FALSE /\ NoAnswer.sql.literals = <<>>
      /\ TruthfulText(<<>>)
  BY NothingIsTold DEF NoAnswer, Refusal, Answer, NoDraft
<1>4. /\ TrueValues(after.rows, NoAnswer) /\ TrueSources(after.hits, NoAnswer)
      /\ TrueNumbers(after.rows, NoAnswer.text)
  BY <1>3, RefusalTells
<1>5. call'[c].prompt \cap Real \subseteq Unmasked
  BY <1>1 DEF Safe
<1>6. stage \in Early \cup {"narrating", "answering"}
  BY DEF Early, Asking
<1>7. after.hits # <<>> => IsHits(after.hits)
  BY <1>6
<1>8. stage \notin {"unasked", "received"}
  OBVIOUS
<1>9. Data(call'[c])
  BY <1>1, <1>2, <1>4, <1>5, <1>7, <1>8 DEF Data
<1>. QED BY <1>1, <1>9, OthersKeep DEF Carries

-----------------------------------------------------------------------------
(* Every step keeps what the calls hold.                                    *)

\* The call's data stay as they are, and so does the stage, or it is over with
\* the stages.
LEMMA KeptData ==
  ASSUME DataInv, NEW c \in Calls, Carries(c, call[c]), call'[c].prompt = call[c].prompt,
         call'[c].pc \in {call[c].pc, "failed", "replied"}
  PROVE  DataInv'
<1>1. /\ call'[c].question = call[c].question /\ call'[c].filter = call[c].filter
      /\ call'[c].draft = call[c].draft /\ call'[c].rows = call[c].rows
      /\ call'[c].hits = call[c].hits /\ call'[c].answer = call[c].answer
  BY DEF Carries
<1>2. Data(call[c])
  BY DEF DataInv
<1>3. /\ {"failed", "replied"} \cap (Stages \cup Early \cup Asking) = {}
      /\ {"failed", "replied"} \cap {"unasked", "received", "narrating", "answering"} = {}
  BY DEF Stages, Early, Asking
<1>4. Data(call'[c])
  BY <1>1, <1>2, <1>3, Zenon DEF Data
<1>. QED BY <1>4, OthersKeep DEF Carries

LEMMA SendData ==
  ASSUME ShapeInv, DataInv, NEW c \in Calls, NEW q \in Questions, NEW asked, Send(c, q, asked)
  PROVE  DataInv'
<1>1. /\ call[c].pc = "unasked"
      /\ call' = [call EXCEPT ![c].pc = "received", ![c].waits = "yes", ![c].question = q]
  BY DEF Send
<1>2. /\ Others(c) /\ call'[c].pc = "received" /\ call'[c].question = q
      /\ call'[c].filter = call[c].filter /\ call'[c].prompt = call[c].prompt
      /\ call'[c].draft = call[c].draft /\ call'[c].rows = call[c].rows
      /\ call'[c].hits = call[c].hits /\ call'[c].answer = call[c].answer
  BY <1>1 DEF ShapeInv, Fields, Others
<1>3. Data(call[c])
  BY DEF DataInv
<1>4. /\ "received" \notin Stages /\ "received" \in Early /\ "unasked" \in Early
  BY DEF Stages, Asking, Early
<1>5. Data(call'[c])
  BY <1>1, <1>2, <1>3, <1>4 DEF Data
<1>. QED BY <1>2, <1>5, OthersKeep

LEMMA OverData ==
  ASSUME ShapeInv, DataInv, NEW c \in Calls, Over(c)
  PROVE  DataInv'
<1> DEFINE over == [NewCall EXCEPT !.pc = "over", !.waits = "done"]
<1>1. Others(c) /\ call'[c] = over
  BY DEF Over, ShapeInv, Others
<1>2. /\ over.pc = "over" /\ over.filter = "none" /\ over.prompt = {}
      /\ over.rows = <<>> /\ over.hits = <<>> /\ over.answer = NoAnswer
  BY DEF NewCall
<1> HIDE DEF over
<1>3. NoAnswer.text = <<>> /\ NoAnswer.answerable = FALSE /\ NoAnswer.sql.literals = <<>>
  BY DEF NoAnswer, Refusal, Answer, NoDraft
<1>4. TruthfulText(<<>>)
  BY NothingIsTold
<1>5. \A rows, hits : /\ TrueValues(rows, NoAnswer) /\ TrueSources(hits, NoAnswer)
                      /\ TrueNumbers(rows, NoAnswer.text)
  BY <1>3, <1>4, RefusalTells
<1>6. /\ "over" \notin Stages \cup Early \cup Asking \cup {"unasked", "received", "narrating", "answering"}
      /\ "none" \in Filters
  BY DEF Stages, Early, Asking, Filters
<1>7. Data(over)
  BY <1>2, <1>5, <1>6 DEF Data
<1>. QED BY <1>1, <1>7, OthersKeep

LEMMA GiveUpData ==
  ASSUME ShapeInv, DataInv, NEW c \in Calls, GiveUp(c)
  PROVE  DataInv'
<1>1. call' = [call EXCEPT ![c].waits = "gave_up", ![c].due = 0]
  BY DEF GiveUp
<1>2. Carries(c, call[c]) /\ call'[c].prompt = call[c].prompt /\ call'[c].pc = call[c].pc
  BY <1>1 DEF ShapeInv, Fields, Carries, Others
<1>. QED BY <1>2, KeptData

LEMMA FailsData ==
  ASSUME ShapeInv, DataInv, NEW c \in Calls, Fails(c)
  PROVE  DataInv'
<1>1. Carries(c, call[c]) /\ call'[c].prompt = call[c].prompt /\ call'[c].pc = "failed"
  BY DEF Fails, ShapeInv, Fields, Carries, Others
<1>. QED BY <1>1, KeptData

LEMMA AuditData ==
  ASSUME ShapeInv, DataInv, NEW c \in Calls, Audit(c) \/ AuditFails(c)
  PROVE  DataInv'
<1>1. \/ call' = [call EXCEPT ![c].pc = "replied", ![c].row = AuditRow(c)]
      \/ call' = [call EXCEPT ![c].pc = "replied"]
  BY DEF Audit, AuditFails
<1>2. Carries(c, call[c]) /\ call'[c].prompt = call[c].prompt /\ call'[c].pc = "replied"
  BY <1>1 DEF ShapeInv, Fields, Carries, Others
<1>. QED BY <1>2, KeptData

\* A call that ends with no answer.
LEMMA NothingData ==
  ASSUME ShapeInv, DataInv, NEW c \in Calls, call[c].pc \in Stages, NEW outcome, Ends(c, NoAnswer, outcome)
  PROVE  DataInv'
<1>1. NoAnswer.text = <<>> /\ NoAnswer.answerable = FALSE /\ NoAnswer.sql.literals = <<>>
  BY DEF NoAnswer, Refusal, Answer, NoDraft
<1>2. TruthfulText(<<>>)
  BY NothingIsTold
<1>3. Tells(call[c], NoAnswer)
  BY <1>1, <1>2, RefusalTells DEF Tells
<1>. QED BY <1>3, EndsData

LEMMA AcceptData ==
  ASSUME ShapeInv, DataInv, NEW c \in Calls, Accept(c)
  PROVE  DataInv'
<1>1. call[c].pc = "received" /\ Asks(c, "routing", Masked(c).text, call[c])
  BY DEF Accept
<1>2. Data(call[c]) /\ DOMAIN call[c] = Fields
  BY DEF DataInv, ShapeInv
<1>3. /\ call[c].question \in Questions /\ call[c].filter \in Filters /\ call[c].draft = NoDraft
      /\ call[c].rows = <<>> /\ call[c].hits = <<>> /\ call[c].answer = NoAnswer
  BY <1>1, <1>2 DEF Data, Early
<1>4. IsDraft(call[c].draft, call[c].question)
  BY <1>3 DEF IsDraft, NoDraft
<1>5. Safe(Masked(c).text)
  BY <1>3, QuestionIsSafe DEF Masked
<1>6. /\ "routing" \in (Early \cup Asking) \ {"unasked", "received"}
      /\ "routing" # "narrating" /\ "routing" # "answering"
  BY DEF Early, Asking
<1>. QED BY <1>1, <1>2, <1>3, <1>4, <1>5, <1>6, AsksData

LEMMA RouteData ==
  ASSUME ShapeInv, DataInv, NEW c \in Calls, NEW route, NEW filter \in Filters, Route(c, route, filter)
  PROVE  DataInv'
<1> DEFINE sql    == [call[c] EXCEPT !.attempts = 1]
           search == [call[c] EXCEPT !.filter = filter]
<1>1. call[c].pc = "routing"
  BY DEF Route
<1>2. Data(call[c]) /\ DOMAIN call[c] = Fields
  BY DEF DataInv, ShapeInv
<1>3. /\ call[c].question \in Questions /\ call[c].filter \in Filters
      /\ IsDraft(call[c].draft, call[c].question)
      /\ call[c].rows = <<>> /\ call[c].hits = <<>> /\ call[c].answer = NoAnswer
  BY <1>1, <1>2 DEF Data, Early, Stages, Asking
<1>4. Asks(c, "writing", Masked(c).text, sql) \/ Asks(c, "searching", <<>>, search)
  BY DEF Route, Enters
<1>5. /\ DOMAIN sql = Fields /\ sql.question = call[c].question /\ sql.filter = call[c].filter
      /\ sql.draft = call[c].draft /\ sql.rows = call[c].rows /\ sql.hits = call[c].hits
      /\ sql.answer = call[c].answer
      /\ DOMAIN search = Fields /\ search.question = call[c].question /\ search.filter = filter
      /\ search.draft = call[c].draft /\ search.rows = call[c].rows /\ search.hits = call[c].hits
      /\ search.answer = call[c].answer
  BY <1>2 DEF Fields
<1> HIDE DEF sql, search
<1>6. Safe(Masked(c).text) /\ Safe(<<>>)
  BY <1>3, QuestionIsSafe, NothingIsSafe DEF Masked
<1>7. /\ {"writing", "searching"} \subseteq (Early \cup Asking) \ {"unasked", "received"}
      /\ {"writing", "searching"} \cap {"narrating", "answering"} = {}
  BY DEF Early, Asking
<1>8. CASE Asks(c, "writing", Masked(c).text, sql)
  BY <1>3, <1>5, <1>6, <1>7, <1>8, AsksData
<1>9. CASE Asks(c, "searching", <<>>, search)
  BY <1>3, <1>5, <1>6, <1>7, <1>9, AsksData
<1>. QED BY <1>4, <1>8, <1>9

\* The tokens of the masked question that a statement may hold.
LEMMA LiteralsAreHidden ==
  ASSUME NEW c \in Calls, call[c].question \in Questions, NEW literals \in Literals(c)
  PROVE  literals \in Seq(Hidden(call[c].question))
<1> DEFINE q == call[c].question
           text == MaskedQuestion[q].text
           S == Mentions(text)
<1>1. text \in Seq(Hidden(q))
  BY HiddenIsPlain
<1>2. literals = <<>> \/ literals = Kept(text, S)
  BY DEF Literals, Masked
<1> HIDE DEF text, S, q
<1>3. Kept(text, S) \in Seq(Hidden(q))
  BY <1>1, KeptElements
<1>4. <<>> \in Seq(Hidden(q))
  OBVIOUS
<1>. QED BY <1>2, <1>3, <1>4 DEF q

LEMMA WriteData ==
  ASSUME ShapeInv, DataInv, NEW c \in Calls, NEW d \in Drafts, NEW literals \in Literals(c),
         Write(c, [d EXCEPT !.literals = literals])
  PROVE  DataInv'
<1> DEFINE draft == [d EXCEPT !.literals = literals]
           vetted == [call[c] EXCEPT !.draft = ApplyLimit(draft)]
           again  == [call[c] EXCEPT !.attempts = @ + 1]
<1>1. /\ call[c].pc = "writing"
      /\ \/ Asks(c, "running", <<>>, vetted)
         \/ Asks(c, "writing", Masked(c).text \o draft.literals, again)
         \/ Ends(c, NoAnswer, "guard_rejected")
  BY DEF Write, Enters
<1>2. Data(call[c]) /\ DOMAIN call[c] = Fields
  BY DEF DataInv, ShapeInv
<1>3. /\ call[c].question \in Questions /\ call[c].filter \in Filters
      /\ IsDraft(call[c].draft, call[c].question)
      /\ call[c].rows = <<>> /\ call[c].hits = <<>> /\ call[c].answer = NoAnswer
  BY <1>1, <1>2 DEF Data, Early, Stages, Asking
<1>4. literals \in Seq(Hidden(call[c].question))
  BY <1>3, LiteralsAreHidden
<1>5. DOMAIN d = DOMAIN NoDraft
  BY TextsAssumption
<1>6. DOMAIN draft = DOMAIN NoDraft /\ draft.literals = literals
  BY <1>5 DEF NoDraft
<1> HIDE DEF draft
<1>7. IsDraft(ApplyLimit(draft), call[c].question)
  <2>1. DOMAIN ApplyLimit(draft) = DOMAIN NoDraft /\ ApplyLimit(draft).literals = literals
    BY <1>6 DEF ApplyLimit, NoDraft
  <2>. QED BY <1>4, <2>1 DEF IsDraft
<1>8. /\ DOMAIN vetted = Fields /\ vetted.question = call[c].question /\ vetted.filter = call[c].filter
      /\ vetted.draft = ApplyLimit(draft) /\ vetted.rows = call[c].rows /\ vetted.hits = call[c].hits
      /\ vetted.answer = call[c].answer
  BY <1>2 DEF Fields
<1>9. /\ DOMAIN again = Fields /\ again.question = call[c].question /\ again.filter = call[c].filter
      /\ again.draft = call[c].draft /\ again.rows = call[c].rows /\ again.hits = call[c].hits
      /\ again.answer = call[c].answer
  BY <1>2 DEF Fields
<1> HIDE DEF vetted, again
<1>10. Safe(Masked(c).text \o draft.literals) /\ Safe(<<>>)
  <2>1. literals \in Seq(ToSet(literals)) /\ Safe(literals)
    BY <1>3, <1>4, LiteralsAreSafe
  <2>. QED BY <1>3, <1>6, <2>1, PromptIsSafe, NothingIsSafe DEF Masked
<1>11. /\ {"writing", "running"} \subseteq (Early \cup Asking) \ {"unasked", "received"}
       /\ {"writing", "running"} \cap {"narrating", "answering"} = {} /\ "writing" \in Stages
  BY DEF Early, Asking, Stages
<1>12. CASE Asks(c, "running", <<>>, vetted)
  BY <1>3, <1>7, <1>8, <1>10, <1>11, <1>12, AsksData
<1>13. CASE Asks(c, "writing", Masked(c).text \o draft.literals, again)
  BY <1>3, <1>9, <1>10, <1>11, <1>13, AsksData
<1>14. CASE Ends(c, NoAnswer, "guard_rejected")
  BY <1>1, <1>11, <1>14, NothingData
<1>. QED BY <1>1, <1>12, <1>13, <1>14

\* The statement with the operator's values says what it means.
LEMMA ExecutableIsTruthful ==
  ASSUME NEW c \in Calls, call[c].question \in Questions, IsDraft(call[c].draft, call[c].question)
  PROVE  TruthfulText(Executable(c).literals)
<1> DEFINE q == call[c].question
           literals == call[c].draft.literals
           revealed == Unmask(literals, QuestionSpace, MaskedQuestion[q].mappings)
<1>1. Executable(c) = [call[c].draft EXCEPT !.literals = revealed]
  BY DEF Executable, Revealed, Masked
<1>2. "literals" \in DOMAIN call[c].draft /\ literals \in Seq(Hidden(q))
  BY DEF IsDraft, NoDraft
<1> HIDE DEF revealed
<1>3. Executable(c).literals = revealed
  BY <1>1, <1>2
<1>4. TruthfulText(Unmask(literals, QuestionSpace, MaskedQuestion[q].mappings))
  <2> DEFINE mappings == MaskedQuestion[q].mappings
  <2>1. \A t \in Hidden(q) : Vouched(t, QuestionSpace, mappings)
    BY HiddenIsVouched
  <2> HIDE DEF mappings, literals, q
  <2>2. TruthfulText(Unmask(literals, QuestionSpace, mappings))
    BY <1>2, <2>1, RevealedIsTruthful
  <2>. QED BY <2>2 DEF mappings
<1>. QED BY <1>3, <1>4 DEF revealed

LEMMA StatementTells ==
  ASSUME NEW c \in Calls, call[c].question \in Questions, IsDraft(call[c].draft, call[c].question)
  PROVE  \A rows, hits : /\ TrueValues(rows, Refusal(Executable(c)))
                         /\ TrueSources(hits, Refusal(Executable(c)))
                         /\ TrueNumbers(rows, Refusal(Executable(c)).text)
<1> DEFINE sql == Executable(c)
           answer == Refusal(sql)
<1>1. answer.text = <<>> /\ answer.answerable = FALSE /\ answer.sql = sql
  BY DEF Refusal, Answer
<1>2. TruthfulText(sql.literals)
  BY ExecutableIsTruthful
<1> HIDE DEF sql, answer
<1>3. \A rows, hits : /\ TrueValues(rows, answer) /\ TrueSources(hits, answer)
                      /\ TrueNumbers(rows, answer.text)
  BY <1>1, <1>2, RefusalTells
<1>. QED BY <1>3 DEF answer, sql

LEMMA RunData ==
  ASSUME ShapeInv, DataInv, NEW c \in Calls, NEW rows \in Results, Run(c, rows)
  PROVE  DataInv'
<1> DEFINE after == [call[c] EXCEPT !.rows = rows]
           text == Masked(c).text \o RowsText[rows].text
<1>1. /\ call[c].pc = "running"
      /\ Ends(c, Refusal(Executable(c)), "answered") \/ Asks(c, "narrating", text, after)
  BY DEF Run
<1>2. Data(call[c]) /\ DOMAIN call[c] = Fields
  BY DEF DataInv, ShapeInv
<1>3. /\ call[c].question \in Questions /\ call[c].filter \in Filters
      /\ IsDraft(call[c].draft, call[c].question)
      /\ call[c].rows = <<>> /\ call[c].hits = <<>> /\ call[c].answer = NoAnswer
  BY <1>1, <1>2 DEF Data, Early, Stages, Asking
<1>4. /\ DOMAIN after = Fields /\ after.question = call[c].question /\ after.filter = call[c].filter
      /\ after.draft = call[c].draft /\ after.rows = rows /\ after.hits = call[c].hits
      /\ after.answer = call[c].answer
  BY <1>2 DEF Fields
<1>5. Safe(text)
  <2> DEFINE told == RowsText[rows].text
  <2>1. told \in Seq(ToSet(told)) /\ Safe(told)
    BY RowsAreSafe
  <2> HIDE DEF told
  <2>2. Safe(MaskedQuestion[call[c].question].text \o told)
    BY <1>3, <2>1, PromptIsSafe
  <2>. QED BY <2>2 DEF told, Masked
<1> HIDE DEF after, text
<1>6. /\ "narrating" \in (Early \cup Asking) \ {"unasked", "received"}
      /\ "narrating" \notin Early /\ "narrating" # "answering" /\ "running" \in Stages
  BY DEF Early, Asking, Stages
<1>7. CASE Asks(c, "narrating", text, after)
  BY <1>3, <1>4, <1>5, <1>6, <1>7, AsksData
<1>8. CASE Ends(c, Refusal(Executable(c)), "answered")
  <2>1. Tells(call[c], Refusal(Executable(c)))
    BY <1>3, StatementTells DEF Tells
  <2>. QED BY <1>1, <1>6, <1>8, <2>1, EndsData
<1>. QED BY <1>1, <1>7, <1>8

LEMMA RunFailsData ==
  ASSUME ShapeInv, DataInv, NEW c \in Calls, RunFails(c)
  PROVE  DataInv'
<1> DEFINE answer == Refusal(Executable(c))
           error == Shown(Executable(c).literals)
           after == [call[c] EXCEPT !.answer = answer, !.outcome = "execution_failed",
                                    !.error = error, !.aborted = FALSE]
<1>1. call[c].pc = "running" /\ Asks(c, "auditing", <<>>, after)
  BY DEF RunFails, QueryFails, Enters
<1>2. Data(call[c]) /\ DOMAIN call[c] = Fields
  BY DEF DataInv, ShapeInv
<1>3. /\ call[c].question \in Questions /\ call[c].filter \in Filters
      /\ IsDraft(call[c].draft, call[c].question)
      /\ call[c].rows = <<>> /\ call[c].hits = <<>>
  BY <1>1, <1>2 DEF Data, Early, Stages, Asking
<1>4. /\ \A rows : TrueValues(rows, answer) /\ TrueNumbers(rows, answer.text)
      /\ \A hits : TrueSources(hits, answer)
  BY <1>3, StatementTells
<1> HIDE DEF answer, error
<1>5. /\ DOMAIN after = Fields /\ after.question = call[c].question /\ after.filter = call[c].filter
      /\ after.draft = call[c].draft /\ after.rows = call[c].rows /\ after.hits = call[c].hits
      /\ after.answer = answer
  BY <1>2 DEF Fields
<1> HIDE DEF after
<1>6. Carries(c, after) /\ call'[c].pc = "auditing" /\ call'[c].prompt = Shown(<<>>)
  BY <1>1, <1>5, AsksCarries
<1>7. call'[c].prompt \cap Real \subseteq Unmasked
  BY <1>6, NothingIsSafe DEF Safe
<1>8. "auditing" \notin Early \cup Asking \cup {"unasked", "received", "narrating", "answering"}
  BY DEF Early, Asking
<1>9. /\ call'[c].question \in Questions /\ call'[c].filter \in Filters
      /\ IsDraft(call'[c].draft, call'[c].question)
      /\ call'[c].rows = <<>> /\ call'[c].hits = <<>> /\ call'[c].answer = answer
  BY <1>3, <1>5, <1>6 DEF Carries
<1>10. Data(call'[c])
  BY <1>4, <1>6, <1>7, <1>8, <1>9 DEF Data
<1>. QED BY <1>6, <1>10, OthersKeep DEF Carries

LEMMA NarrateData ==
  ASSUME ShapeInv, DataInv, NEW c \in Calls, Narrate(c)
  PROVE  DataInv'
<1> DEFINE q == call[c].question
           rows == call[c].rows
           read == Masked(c).text \o RowsText[rows].text
           Reveal(text) == Revealed(c, Unmask(text, RowSpace, RowsText[rows].mappings))
           Told(text) == Answer(TRUE, Reveal(text), <<>>, Executable(c))
<1>1. call[c].pc = "narrating"
  BY DEF Narrate
<1>2. Data(call[c])
  BY DEF DataInv
<1>3. /\ q \in Questions /\ IsDraft(call[c].draft, q) /\ rows \in Results /\ call[c].hits = <<>>
      /\ call[c].pc \in Stages
  BY <1>1, <1>2 DEF Data, Stages, Asking
<1>4. PICK text \in Narrations(read) :
        \/ Ends(c, Refusal(Executable(c)), "answered")
        \/ ~Withheld(c, text) /\ Ends(c, Told(text), "answered")
  BY Zenon DEF Narrate
<1>5. CASE Ends(c, Refusal(Executable(c)), "answered")
  <2>1. Tells(call[c], Refusal(Executable(c)))
    BY <1>3, StatementTells DEF Tells
  <2>. QED BY <1>3, <1>5, <2>1, EndsData
<1>6. CASE ~Withheld(c, text) /\ Ends(c, Told(text), "answered")
  <2> DEFINE shown == Unmask(Unmask(text, RowSpace, RowsText[rows].mappings),
                             QuestionSpace, MaskedQuestion[q].mappings)
             told == Told(text)
  <2>1. NumbersVerified(text, rows)
    BY <1>6 DEF Withheld, NumbersVerified
  <2>2. text \in Narrations(MaskedQuestion[q].text \o RowsText[rows].text)
    BY DEF Masked
  <2>3. /\ Bare(RenderRows(rows, NarrateLimit)) => TruthfulText(shown)
        /\ Cites(shown) = {}
        /\ TrueNumbers(rows, shown)
    BY <1>3, <2>1, <2>2, NarrationTells
  <2>4. told.text = shown /\ told.sources = <<>> /\ told.sql = Executable(c)
    BY DEF Answer, Revealed, Masked
  <2>5. TruthfulText(Executable(c).literals)
    BY <1>3, ExecutableIsTruthful
  <2>8. Ends(c, told, "answered")
    BY <1>6
  <2> HIDE DEF told, shown, rows
  <2>6. TrueValues(rows, told)
    BY <2>3, <2>4, <2>5, TruthfulAnswer
  <2>7. Tells(call[c], told)
    BY <1>3, <2>3, <2>4, <2>6 DEF Tells, TrueSources, rows
  <2>. QED BY <1>3, <2>7, <2>8, EndsData
<1>. QED BY <1>4, <1>5, <1>6

LEMMA SearchData ==
  ASSUME ShapeInv, DataInv, NEW c \in Calls, Search(c)
  PROVE  DataInv'
<1> DEFINE hits == Hits[call[c].question][call[c].filter]
           after == [call[c] EXCEPT !.hits = hits]
           text == Masked(c).text \o SourcesText(hits)
<1>1. /\ call[c].pc = "searching"
      /\ Ends(c, NoAnswer, "answered") \/ Asks(c, "answering", text, after)
  BY DEF Search
<1>2. Data(call[c]) /\ DOMAIN call[c] = Fields
  BY DEF DataInv, ShapeInv
<1>3. /\ call[c].question \in Questions /\ call[c].filter \in Filters
      /\ IsDraft(call[c].draft, call[c].question)
      /\ call[c].rows = <<>> /\ call[c].hits = <<>> /\ call[c].answer = NoAnswer
  BY <1>1, <1>2 DEF Data, Early, Stages, Asking
<1>4. IsHits(hits)
  BY <1>3 DEF IsHits
<1> HIDE DEF hits
<1>5. /\ DOMAIN after = Fields /\ after.question = call[c].question /\ after.filter = call[c].filter
      /\ after.draft = call[c].draft /\ after.rows = call[c].rows /\ after.hits = hits
      /\ after.answer = call[c].answer
  BY <1>2 DEF Fields
<1>6. Safe(text)
  <2>1. SourcesText(hits) \in Seq(ToSet(SourcesText(hits))) /\ Safe(SourcesText(hits))
    BY <1>4, SourcesAreSafe
  <2> DEFINE told == SourcesText(hits)
  <2> HIDE DEF told
  <2>2. told \in Seq(ToSet(told)) /\ Safe(told)
    BY <2>1 DEF told
  <2>3. Safe(MaskedQuestion[call[c].question].text \o told)
    BY <1>3, <2>2, PromptIsSafe
  <2>. QED BY <2>3 DEF told, Masked
<1> HIDE DEF after, text
<1>7. /\ "answering" \in (Early \cup Asking) \ {"unasked", "received"}
      /\ "answering" \notin Early /\ "answering" # "narrating" /\ "searching" \in Stages
  BY DEF Early, Asking, Stages
<1>8. CASE Asks(c, "answering", text, after)
  BY <1>3, <1>4, <1>5, <1>6, <1>7, <1>8, AsksData
<1>9. CASE Ends(c, NoAnswer, "answered")
  BY <1>1, <1>7, <1>9, NothingData
<1>. QED BY <1>1, <1>8, <1>9

LEMMA AnswerFromData ==
  ASSUME ShapeInv, DataInv, NEW c \in Calls, AnswerFrom(c)
  PROVE  DataInv'
<1> DEFINE q == call[c].question
           hits == call[c].hits
<1>1. call[c].pc = "answering"
  BY DEF AnswerFrom
<1>2. Data(call[c])
  BY DEF DataInv
<1>3. /\ q \in Questions /\ IsHits(hits) /\ call[c].pc \in Stages /\ call[c].rows = <<>>
  BY <1>1, <1>2 DEF Data, Stages, Asking
<1>4. CASE Ends(c, NoAnswer, "answered")
  BY <1>3, <1>4, NothingData
<1>5. ASSUME NEW used \in BoundedSeq(Numbered(c), 2), NEW reply \in Replies(c), Cited(c, used) # <<>>,
             Ends(c, Answer(TRUE, Revealed(c, Renumber(reply, Cited(c, used))),
                            Chips(c, Cited(c, used)), NoDraft), "answered")
      PROVE  DataInv'
  <2> DEFINE valid == Cited(c, used)
             shown == Revealed(c, Renumber(reply, valid))
             chips == Chips(c, valid)
             told == Answer(TRUE, shown, chips, NoDraft)
  <2>1. /\ TruthfulText(shown)
        /\ \A t \in Cites(shown) : t.cites \in DOMAIN chips /\ chips[t.cites] = t.of
        /\ chips # <<>>
    BY <1>3, <1>5, ReplyTells
  <2>2. /\ told.text = shown /\ told.sources = chips /\ told.sql.literals = <<>>
    BY DEF Answer, NoDraft
  <2>3. TruthfulText(<<>>)
    BY NothingIsTold
  <2>7. Ends(c, told, "answered")
    BY <1>5
  <2> HIDE DEF told, shown, chips
  <2>4. TrueValues(call[c].rows, told)
    BY <2>1, <2>2, <2>3, TruthfulAnswer
  <2>5. TrueSources(hits, told)
    BY <2>1, <2>2 DEF TrueSources
  <2>6. TrueNumbers(call[c].rows, told.text)
    BY <1>3, Zenon DEF TrueNumbers
  <2>. QED BY <1>3, <2>4, <2>5, <2>6, <2>7, EndsData DEF Tells
<1>6. \/ Ends(c, NoAnswer, "answered")
      \/ \E used \in BoundedSeq(Numbered(c), 2), reply \in Replies(c) :
           /\ Cited(c, used) # <<>>
           /\ Ends(c, Answer(TRUE, Revealed(c, Renumber(reply, Cited(c, used))),
                             Chips(c, Cited(c, used)), NoDraft), "answered")
  <2> DEFINE U == BoundedSeq(Numbered(c), 2)
             Shows2(valid, text) == Ends(c, Answer(TRUE, Revealed(c, text), Chips(c, valid), NoDraft), "answered")
  <2>1. \/ Ends(c, NoAnswer, "answered")
        \/ \E valid \in {Cited(c, used) : used \in U} :
             /\ valid # <<>>
             /\ \E text \in {Renumber(reply, valid) : reply \in Replies(c)} : Shows2(valid, text)
    BY Zenon DEF AnswerFrom
  <2> HIDE DEF U, Shows2
  <2>2. \/ Ends(c, NoAnswer, "answered")
        \/ \E used \in U, reply \in Replies(c) :
             Cited(c, used) # <<>> /\ Shows2(Cited(c, used), Renumber(reply, Cited(c, used)))
    BY <2>1
  <2>. QED BY <2>2 DEF U, Shows2
<1>. QED BY <1>4, <1>5, <1>6

\* The page has asked one of the questions.
AskedInv == screen.shows # "nothing" => screen.asked \in Questions

DInv == IInv /\ AskedInv /\ DataInv

LEMMA InitData == Init => DInv
<1> SUFFICES ASSUME Init PROVE DInv
  OBVIOUS
<1>1. IInv
  BY InitInv
<1>2. AskedInv
  BY DEF Init, Fresh, AskedInv
<1>3. ASSUME NEW c \in Calls PROVE Data(call[c])
  <2>1. call[c] = NewCall
    BY DEF Init
  <2>2. /\ call[c].pc = "unasked" /\ call[c].filter = "none" /\ call[c].prompt = {}
        /\ call[c].draft = NoDraft /\ call[c].rows = <<>> /\ call[c].hits = <<>>
        /\ call[c].answer = NoAnswer
    BY <2>1 DEF NewCall
  <2>3. NoAnswer.text = <<>> /\ NoAnswer.answerable = FALSE /\ NoAnswer.sql.literals = <<>>
    BY DEF NoAnswer, Refusal, Answer, NoDraft
  <2>4. TruthfulText(<<>>)
    BY NothingIsTold
  <2>5. \A rows, hits : /\ TrueValues(rows, NoAnswer) /\ TrueSources(hits, NoAnswer)
                        /\ TrueNumbers(rows, NoAnswer.text)
    BY <2>3, <2>4, RefusalTells
  <2>6. "unasked" \notin Stages /\ "none" \in Filters
    BY DEF Stages, Asking, Filters
  <2>. QED BY <2>2, <2>5, <2>6 DEF Data
<1>. QED BY <1>1, <1>2, <1>3 DEF DInv, DataInv

LEMMA ServeData == ASSUME ShapeInv, DataInv, NEW c \in Calls, Serve(c) PROVE DataInv'
<1>1. CASE Refuse(c) \/ LlmFails(c)
  BY <1>1, FailsData DEF Refuse, LlmFails
<1>2. CASE Accept(c)
  BY <1>2, AcceptData
<1>3. CASE \E route \in Routes, filter \in Filters : Route(c, route, filter)
  BY <1>3, RouteData
<1>4. CASE Decline(c)
  BY <1>4, NothingData DEF Decline, Alive
<1>5. CASE \E d \in Drafts, literals \in Literals(c) : Write(c, [d EXCEPT !.literals = literals])
  <2>1. PICK d \in Drafts, literals \in Literals(c) : Write(c, [d EXCEPT !.literals = literals])
    BY <1>5, Zenon
  <2>. QED BY <2>1, WriteData
<1>6. CASE \E rows \in Results : Run(c, rows)
  BY <1>6, RunData
<1>7. CASE RunFails(c) \/ Narrate(c) \/ Search(c) \/ AnswerFrom(c)
  BY <1>7, RunFailsData, NarrateData, SearchData, AnswerFromData
<1>8. CASE Audit(c)
  BY <1>8, AuditData
<1>. QED BY <1>1, <1>2, <1>3, <1>4, <1>5, <1>6, <1>7, <1>8, Zenon DEF Serve, Writing

\* What the page asked stays asked until it asks anew.
LEMMA NextAsked == ASSUME IInv, AskedInv, [Next]_vars PROVE AskedInv'
<1>1. CASE UNCHANGED screen
  BY <1>1 DEF AskedInv
<1>2. ASSUME NEW c \in Calls, NEW q \in Questions, Send(c, q, q) PROVE AskedInv'
  <2>1. screen'.asked = q
    BY <1>2 DEF Send, Fresh
  <2>. QED BY <2>1 DEF AskedInv
<1>3. ASSUME NEW c \in Calls, call[c].waits = "yes", NEW what, NEW answer, Shows(c, what, answer)
      PROVE  AskedInv'
  <2>1. screen'.asked = screen.asked /\ screen.shows = "pending"
    BY <1>3 DEF Shows, IInv, ShapeInv, PageInv
  <2>. QED BY <2>1 DEF AskedInv
<1>4. ASSUME NEW c \in Calls, NEW q \in Questions, Submit(c, q) PROVE AskedInv'
  BY <1>2, <1>4 DEF Submit
<1>5. ASSUME NEW c \in Calls, Retry(c) PROVE AskedInv'
  BY <1>2, <1>5 DEF Retry, AskedInv
<1>6. ASSUME NEW c \in Calls, GiveUp(c) \/ Deliver(c) \/ Unreachable(c) PROVE AskedInv'
  BY <1>1, <1>3, <1>6 DEF GiveUp, Late, Deliver, Unreachable
<1>7. ASSUME NEW c \in Calls, Serve(c) \/ SearchFails(c) \/ AuditFails(c) PROVE UNCHANGED screen
  BY <1>7, Zenon DEF Serve, Refuse, Accept, LlmFails, Route, Writing, Decline, Write, Run, RunFails, QueryFails,
     Narrate, Search, AnswerFrom, Audit, SearchFails, AuditFails
<1>8. CASE UNCHANGED vars
  BY <1>1, <1>8 DEF vars
<1>. QED BY <1>1, <1>4, <1>5, <1>6, <1>7, <1>8 DEF Next, Page, Work, Proxy, Breaks

LEMMA NextData == DInv /\ [Next]_vars => DInv'
<1> SUFFICES ASSUME DInv, [Next]_vars PROVE DInv'
  OBVIOUS
<1>1. IInv' /\ AskedInv'
  BY NextInv, NextAsked DEF DInv
<1>2. ShapeInv /\ DataInv /\ AskedInv
  BY DEF DInv, IInv
<1>3. ASSUME UNCHANGED vars PROVE DataInv'
  BY <1>2, <1>3 DEF vars, DataInv
<1>4. ASSUME NEW c \in Calls, NEW q \in Questions, Submit(c, q) PROVE DataInv'
  BY <1>2, <1>4, SendData DEF Submit
<1>5. ASSUME NEW c \in Calls, Retry(c) PROVE DataInv'
  BY <1>2, <1>5, SendData DEF Retry, AskedInv
<1>6. ASSUME NEW c \in Calls, GiveUp(c) PROVE DataInv'
  BY <1>2, <1>6, GiveUpData
<1>7. ASSUME NEW c \in Calls, Deliver(c) \/ Unreachable(c) PROVE DataInv'
  BY <1>2, <1>7, OverData DEF Deliver, Unreachable
<1>8. ASSUME NEW c \in Calls, SearchFails(c) \/ AuditFails(c) PROVE DataInv'
  BY <1>2, <1>8, FailsData, AuditData DEF SearchFails
<1>9. ASSUME NEW c \in Calls, Serve(c) PROVE DataInv'
  BY <1>2, <1>9, ServeData
<1>10. DataInv'
  BY <1>3, <1>4, <1>5, <1>6, <1>7, <1>8, <1>9 DEF Next, Page, Work, Proxy, Breaks
<1>. QED BY <1>1, <1>10 DEF DInv

-----------------------------------------------------------------------------
(* Theorems.                                                                *)

\* The inductive invariant holds in every reachable state.
THEOREM Invariance == Spec => []IInv
BY InitInv, NextInv, PTL DEF Spec

\* What the page shows is the outcome of the question submitted last, however
\* many calls are still running behind it.
THEOREM ShownIsAsked == Spec => []ShownAnswersTheAsked
<1>1. IInv => ShownAnswersTheAsked
  BY DEF IInv, PageInv
<1>. QED BY <1>1, InitInv, NextInv, PTL DEF Spec

\* Every answered call has the audit row that tells what became of it, unless a
\* fault of the platform lost it, on whichever session the query ran.
THEOREM AnswersAreAudited == Spec => []AnsweredIsAudited
<1>1. IInv => AnsweredIsAudited
  BY DEF IInv, RowInv
<1>. QED BY <1>1, InitInv, NextInv, PTL DEF Spec

\* The proxy's patience is enough for every call that was neither retried nor
\* corrected: no such call takes longer than the ceilings of its stages.
THEOREM PlainAnswersAreAwaited == Spec => []OutlastsPlainAnswers
<1>1. IInv => OutlastsPlainAnswers
  <2> SUFFICES ASSUME IInv, NEW c \in Calls, call[c].waits = "gave_up"
               PROVE  call[c].retried \/ call[c].attempts > 1
    BY DEF OutlastsPlainAnswers
  <2>1. ~Plain(c) /\ call[c].retried \in BOOLEAN /\ call[c].attempts \in Nat
    BY DEF IInv, ClockInv, OnTime
  <2>2. ~(call[c].attempts <= 1) => call[c].attempts > 1
    BY <2>1
  <2>3. call[c].retried # FALSE => call[c].retried
    BY <2>1, Zenon
  <2>. QED BY <2>1, <2>2, <2>3, Zenon DEF Plain
<1>. QED BY <1>1, InitInv, NextInv, PTL DEF Spec

\* Every call keeps what was promised of its data: the invariant the four
\* theorems below rest on.
THEOREM DataInvariance == Spec => []DInv
BY InitData, NextData, PTL DEF Spec

\* Whatever is asked, found and answered, no text sent to a model shows a plate
\* or a number that masking could have taken out (ask.py, text_to_sql.py,
\* sql_answer.py, answer.py).
THEOREM NothingPersonalIsSent == Spec => []NothingPersonalLeaves
<1>1. DInv => NothingPersonalLeaves
  BY DEF DInv, DataInv, Data, NothingPersonalLeaves
<1>. QED BY <1>1, InitData, NextData, PTL DEF Spec

\* Wherever an answer or its statement shows a real value it is the one its
\* writer meant, for every text the model may write from what it has read
\* (question_mask.py, ask.py).
THEOREM ValuesAreTrue == Spec => []RevealedIsTrue
<1>1. DInv => RevealedIsTrue
  BY DEF DInv, DataInv, Data, RevealedIsTrue, Finished, Displayed, TrueValues
<1>. QED BY <1>1, InitData, NextData, PTL DEF Spec

\* Markers, chips and snippets belong together: batching the sentences of all
\* claims, dropping hits and renumbering markers mixes none of them up
\* (answer.py, retrieval.py).
THEOREM SourcesBelong == Spec => []SourcesAreTrue
<1>1. DInv => SourcesAreTrue
  <2> SUFFICES ASSUME DInv PROVE SourcesAreTrue
    OBVIOUS
  <2>1. \A c \in Calls : /\ TrueSources(call[c].hits, call[c].answer)
                         /\ call[c].hits # <<>> => IsHits(call[c].hits)
    BY DEF DInv, DataInv, Data
  <2>2. ASSUME NEW c \in Calls, NEW i \in DOMAIN call[c].hits PROVE OwnSnippet(call[c].hits, i)
    <3>1. CASE call[c].hits = <<>>
      BY <3>1
    <3>2. CASE call[c].hits # <<>>
      BY <2>1, <3>2, HitsShowTheirOwn
    <3>. QED BY <3>1, <3>2
  <2>3. \A c \in Finished : TrueSources(call[c].hits, call[c].answer)
    BY <2>1 DEF Finished
  <2>. QED BY <2>2, <2>3, Zenon DEF SourcesAreTrue, TrueSources, OwnSnippet
<1>. QED BY <1>1, InitData, NextData, PTL DEF Spec

\* The number check lets no number of the model's own through that a Turkish
\* reader would take for another than the database wrote (sql_answer.py).
THEOREM NumbersAreTheResults == Spec => []ShownNumbersAreInTheResult
<1>1. DInv => ShownNumbersAreInTheResult
  BY ZenonT(40) DEF DInv, DataInv, Data, ShownNumbersAreInTheResult, Finished, TrueNumbers
<1>. QED BY <1>1, InitData, NextData, PTL DEF Spec

=============================================================================

--------------------------- MODULE QuestionService ---------------------------
(***************************************************************************)
(* The question screen, the api's proxy of POST /soru and the rag service   *)
(* behind it.                                                               *)
(*                                                                          *)
(* Every call runs on a thread of the rag service: route the question, then *)
(* either write, vet, run and narrate a query, or search and answer from    *)
(* sources; then one audit row.  The proxy waits RagTimeout for it; a       *)
(* thread whose proxy has given up goes on to the end.  The screen shows    *)
(* the outcome of the call it made last.                                    *)
(*                                                                          *)
(* Time is counted per call in units of ten seconds: due is when the stage  *)
(* a call is in will end.  The model is free in what it answers; what it    *)
(* mentions it has read.  MaxFaults bounds failures of the platform.        *)
(***************************************************************************)
EXTENDS AnswerChecks

CONSTANTS
    MaxCalls,     \* bound on the calls the screen makes
    NoQuestion,
    Questions,    \* what an operator may ask
    Wording,      \* the tokens of a question
    TooShort,     \* questions outside the length bounds
    Claims,       \* embedded claims
    NoClaim,
    Urgency,      \* claims.urgency
    Closest,      \* for a question, the claims by distance
    Sentences,    \* the sentences of a claim's masked_text
    SearchLimit,  \* DEFAULT_LIMIT
    NarrateLimit, \* NARRATE_ROW_LIMIT
    Shared,       \* ask() was given no session of its own for the query: it runs on the
                  \* one that writes the audit row
    Drafts,       \* statements the model may write
    Results,      \* rows a query may return
    Invented,     \* numbers the model may make up
    MaxFaults

Calls  == 1..MaxCalls
NoCall == 0

ASSUME QuestionsAssumption ==
    /\ NoQuestion \notin Questions
    /\ TooShort \subseteq Questions
    /\ DOMAIN Wording = Questions
    /\ DOMAIN Closest = Questions

ASSUME ClaimsAssumption == NoClaim \notin Claims /\ DOMAIN Sentences = Claims /\ DOMAIN Urgency = Claims

ASSUME BoundsAssumption ==
    /\ SearchLimit \in Nat \ {0}
    /\ NarrateLimit \in Nat \ {0}
    /\ MaxLimit \in Nat \ {0}
    /\ MaxFaults \in Nat
    /\ MaxCalls \in Nat
    /\ Shared \in BOOLEAN

VARIABLES
    screen, \* the call the page waits for or shows, and its outcome
    call,   \* the proxy's request, the rag service's thread and its audit row
    faults

vars == <<screen, call, faults>>

-----------------------------------------------------------------------------
(* Time.                                                                    *)

LlmCeiling == 3  \* DEFAULT_TIMEOUT_SECONDS: one attempt of one call
SqlCeiling == 1  \* STATEMENT_TIMEOUT_MS

\* Mutant: a proxy that waits for two attempts.
RagTimeoutTwoCalls == 2 * LlmCeiling

RagTimeout == 12 \* RAG_TIMEOUT_SECONDS

Asking == {"routing", "writing", "narrating", "answering"} \* stages that wait for a model
Stages == Asking \cup {"running", "searching", "auditing"}

\* How long a stage takes, and whether a retry made it longer than one attempt.
Durations(stage) ==
    IF stage \in Asking
    THEN {[time |-> LlmCeiling, retried |-> FALSE], [time |-> 2 * LlmCeiling, retried |-> TRUE]}
    ELSE {[time |-> IF stage = "running" THEN SqlCeiling ELSE 0, retried |-> FALSE]}

-----------------------------------------------------------------------------
(* State.                                                                   *)

Routes  == {"sql", "retrieval"}
Filters == {"none", "critical"}

NoDraft == [statements |-> 0, select |-> FALSE, forbidden |-> FALSE, tables |-> {},
            limit |-> NoLimit, literals |-> <<>>]

\* An operator names what he asks about and no placeholder; a claim's text has
\* placeholders of its own name space only.
ASSUME TextsAssumption ==
    /\ \A q \in Questions : /\ IsText(Wording[q]) /\ Bare(Wording[q])
                             /\ Closest[q] \in Seq(Claims)
    /\ \A k \in Claims :
         /\ Sentences[k] \in Seq(ToSet(Sentences[k]))
         /\ \A s \in ToSet(Sentences[k]) :
              /\ IsText(s.text) /\ s.close \in Int
              /\ Shown(s.text) \cap Placeholders \subseteq [space : {RowSpace}, nr : Nat]
    /\ \A rows \in Results : rows \in Seq(ToSet(rows)) /\ \A row \in ToSet(rows) : IsText(row)
    /\ \A draft \in Drafts : DOMAIN draft = DOMAIN NoDraft

\* QuestionAnswer, but for the question and the duration.
Answer(answerable, text, sources, sql) ==
    [answerable |-> answerable, text |-> text, sources |-> sources, sql |-> sql]

Refusal(sql) == Answer(FALSE, <<>>, <<>>, sql)

NoAnswer == Refusal(NoDraft)

Outcomes == {"none", "model_refused", "guard_rejected", "execution_failed", "answered"}

\* The audit_trail row of step rag_question.
NoRow == [outcome |-> "none", answerable |-> FALSE, holds |-> {}]

\* A call's row is kept while the call lasts: nothing here reads it afterwards.
NewCall == [pc |-> "unasked", waits |-> "no", due |-> 0, retried |-> FALSE, attempts |-> 0,
            question |-> NoQuestion, filter |-> "none", draft |-> NoDraft, rows |-> <<>>,
            aborted |-> FALSE, hits |-> <<>>, prompt |-> {}, answer |-> NoAnswer, outcome |-> "none", error |-> {},
            row |-> NoRow]

Fresh == [call |-> NoCall, asked |-> NoQuestion, shows |-> "nothing", answer |-> NoAnswer, to |-> NoQuestion]

Init == /\ screen = Fresh
        /\ call   = [c \in Calls |-> NewCall]
        /\ faults = 0

Fault == faults < MaxFaults /\ faults' = faults + 1

\* Functions of the constants, so that TLC evaluates them once.
MaskedQuestion == [q \in Questions |-> MaskQuestion(Wording[q])]

Masked(c)       == MaskedQuestion[call[c].question]
Revealed(c, t)  == Unmask(t, QuestionSpace, Masked(c).mappings)

Late(c)  == call[c].waits = "yes" /\ call[c].due > RagTimeout
Alive(c) == call[c].pc \in Stages /\ ~Late(c)

\* A call's clock: it runs while the proxy waits, and once only the audit row is
\* left it matters no more unless it has run out.
Clock(c, stage, d) ==
    LET due == call[c].due + d.time
    IN  IF call[c].waits # "yes"
        THEN [due |-> 0, retried |-> call[c].retried]
        ELSE IF stage = "auditing" /\ due <= RagTimeout
        THEN [due |-> 0, retried |-> FALSE]
        ELSE [due     |-> IF due > RagTimeout THEN RagTimeout + 1 ELSE due,
              retried |-> call[c].retried \/ d.retried]

\* The call goes on with stage and sends text to a model; after is the rest of
\* its new state.
Asks(c, stage, text, after) ==
    \E d \in Durations(stage) :
      LET clock == Clock(c, stage, d)
      IN  call' = [call EXCEPT ![c] = [after EXCEPT !.pc      = stage,
                                                    !.due     = clock.due,
                                                    !.retried = clock.retried,
                                                    !.prompt  = Shown(text)]]

Enters(c, stage, after) == Asks(c, stage, <<>>, after)

Awaited(c) == screen.call = c /\ call[c].waits = "yes"

\* Of an answer that nobody will see, only what its audit row tells is kept.
Ends(c, answer, outcome) ==
    Enters(c, "auditing",
           IF Awaited(c)
           THEN [call[c] EXCEPT !.answer = answer, !.outcome = outcome]
           ELSE [call[c] EXCEPT !.answer = [NoAnswer EXCEPT !.answerable = answer.answerable],
                                !.outcome = outcome, !.rows = <<>>, !.hits = <<>>])

-----------------------------------------------------------------------------
(* The page: one mutation at a time.                                        *)

Send(c, q, asked) ==
    /\ call[c].pc = "unasked" /\ \A earlier \in 1..(c - 1) : call[earlier].pc # "unasked"
    /\ call'   = [call EXCEPT ![c].pc = "received", ![c].waits = "yes", ![c].question = q]
    /\ screen' = [Fresh EXCEPT !.call = c, !.asked = asked, !.shows = "pending"]
    /\ UNCHANGED faults

Submit(c, q) == screen.shows # "pending" /\ Send(c, q, q)

\* Mutant: "try again" sends what the input box holds by now.
RetryInput(c) == screen.shows = "error" /\ \E input \in Questions : Send(c, input, screen.asked)

Retry(c) == screen.shows = "error" /\ Send(c, screen.asked, screen.asked)

Shows(c, what, answer) ==
    screen' = [screen EXCEPT !.shows = what, !.answer = answer, !.to = call[c].question]

Over(c) == call' = [call EXCEPT ![c] = [NewCall EXCEPT !.pc = "over", !.waits = "done"]]

-----------------------------------------------------------------------------
(* The proxy.                                                               *)

GiveUp(c) ==
    /\ call[c].pc # "over"
    /\ Late(c)
    /\ call' = [call EXCEPT ![c].waits = "gave_up", ![c].due = 0]
    /\ Shows(c, "error", NoAnswer)
    /\ UNCHANGED faults

\* The rag service cannot be reached or dies under a call.
Unreachable(c) ==
    /\ Fault
    /\ call[c].pc \in Stages \cup {"received", "replied"}
    /\ Over(c)
    /\ IF call[c].waits = "yes" THEN Shows(c, "error", NoAnswer) ELSE UNCHANGED screen

\* Mutant: a call that ended in an exception is never answered.
DeliverAnswers(c) ==
    /\ call[c].pc = "replied"
    /\ ~Late(c)
    /\ Over(c)
    /\ IF call[c].waits = "yes" THEN Shows(c, "answer", call[c].answer) ELSE UNCHANGED screen
    /\ UNCHANGED faults

Deliver(c) ==
    /\ call[c].pc \in {"replied", "failed"}
    /\ ~Late(c)
    /\ Over(c)
    /\ IF call[c].waits # "yes" THEN UNCHANGED screen
       ELSE IF call[c].pc = "failed" THEN Shows(c, "error", NoAnswer)
       ELSE Shows(c, "answer", call[c].answer)
    /\ UNCHANGED faults

-----------------------------------------------------------------------------
(* The rag service: routing.                                                *)

Fails(c) == call' = [call EXCEPT ![c].pc = "failed"]

Refuse(c) == /\ call[c].pc = "received"
             /\ call[c].question \in TooShort
             /\ Fails(c)
             /\ UNCHANGED <<screen, faults>>

Accept(c) == /\ call[c].pc = "received"
             /\ call[c].question \notin TooShort
             /\ Asks(c, "routing", Masked(c).text, call[c])
             /\ UNCHANGED <<screen, faults>>

\* Every attempt failed, or the answer never fitted its schema.
LlmFails(c) == /\ Alive(c)
               /\ call[c].pc \in Asking
               /\ Fails(c)
               /\ UNCHANGED <<screen, faults>>

\* The filter counts on the retrieval path only.
Route(c, route, filter) ==
    /\ Alive(c) /\ call[c].pc = "routing"
    /\ IF route = "sql"
       THEN Asks(c, "writing", Masked(c).text, [call[c] EXCEPT !.attempts = 1])
       ELSE Enters(c, "searching", [call[c] EXCEPT !.filter = filter])
    /\ UNCHANGED <<screen, faults>>

-----------------------------------------------------------------------------
(* The SQL path.                                                            *)

Decline(c) ==
    /\ Alive(c) /\ call[c].pc = "writing"
    /\ Ends(c, NoAnswer, "model_refused")
    /\ UNCHANGED <<screen, faults>>

\* The literals a statement may hold: what the question mentions, as masked.
Literals(c) == {<<>>, Kept(Masked(c).text, Mentions(Masked(c).text))}

SelfCorrects(attempts) == attempts <= 1

\* One statement of the model, vetted; a refused one is sent back once.
Write(c, draft) ==
    /\ Alive(c) /\ call[c].pc = "writing"
    /\ IF Acceptable(draft)
       THEN Enters(c, "running", [call[c] EXCEPT !.draft = ApplyLimit(draft)])
       ELSE IF SelfCorrects(call[c].attempts)
       THEN Asks(c, "writing", Masked(c).text \o draft.literals, [call[c] EXCEPT !.attempts = @ + 1])
       ELSE Ends(c, NoAnswer, "guard_rejected")
    /\ UNCHANGED <<screen, faults>>

\* What the database is given: the vetted statement with the operator's values.
Executable(c) == [call[c].draft EXCEPT !.literals = Revealed(c, @)]

\* Mutant: the rows go to the model as they came.
RowsTextRaw == [rows \in Results |->
                  [text |-> RenderRows(rows, NarrateLimit), mappings |-> <<>>]]

RowsText == [rows \in Results |-> Mask(RenderRows(rows, NarrateLimit), RowSpace)]

Run(c, rows) ==
    /\ Alive(c) /\ call[c].pc = "running"
    /\ Len(rows) <= Executable(c).limit
    /\ IF rows = <<>>
       THEN Ends(c, Refusal(Executable(c)), "answered")
       ELSE Asks(c, "narrating", Masked(c).text \o RowsText[rows].text,
                 [call[c] EXCEPT !.rows = rows])
    /\ UNCHANGED <<screen, faults>>

\* The statement fails.  The branch records the error, whose text quotes the
\* statement that failed, and rolls back the transaction the failure aborted.
QueryFails(c, aborted) ==
    /\ Alive(c) /\ call[c].pc = "running"
    /\ Enters(c, "auditing", [call[c] EXCEPT !.answer  = Refusal(Executable(c)),
                                            !.outcome = "execution_failed",
                                            !.error   = Shown(Executable(c).literals),
                                            !.aborted = aborted])
    /\ UNCHANGED <<screen, faults>>

\* Mutant: the refusal is returned without the rollback.
RunFailsUnrolled(c) == QueryFails(c, TRUE)

RunFails(c) == QueryFails(c, FALSE)

\* What a model that has read these tokens may write: one of the mentions, and
\* one of the numbers it read or a number of its own.
Narrations(text) ==
    {said \o counted :
       said    \in BoundedSeq(Mentions(text), 1),
       counted \in BoundedSeq(Numbers(text) \cup {Number(n) : n \in Invented}, 1)}

Withheld(c, text) ==
    UnverifiedNumbers(text, RowsText[call[c].rows].text, Len(call[c].rows)) # {}

Narrate(c) ==
    /\ Alive(c) /\ call[c].pc = "narrating"
    /\ \E text \in Narrations(Masked(c).text \o RowsText[call[c].rows].text) :
         IF text = <<>> \/ Withheld(c, text)
         THEN Ends(c, Refusal(Executable(c)), "answered")
         ELSE LET shown == Revealed(c, Unmask(text, RowSpace, RowsText[call[c].rows].mappings))
              IN  Ends(c, Answer(TRUE, shown, <<>>, Executable(c)), "answered")
    /\ UNCHANGED <<screen, faults>>

-----------------------------------------------------------------------------
(* The retrieval path.                                                      *)

Found(q, filter) ==
    LET kept == Kept(Closest[q], {k \in Claims : filter \in {"none", Urgency[k]}})
    IN  SubSeq(kept, 1, IF Len(kept) < SearchLimit THEN Len(kept) ELSE SearchLimit)

Hits == [q \in Questions |-> [filter \in Filters |-> Found(q, filter)]]

Snippets == [hits \in {Hits[q][filter] : q \in Questions, filter \in Filters} |->
               PickSnippets([i \in DOMAIN hits |-> Sentences[hits[i]]])]

SourcesText(hits) == FlattenSeq([i \in DOMAIN hits |-> Snippets[hits][i].text])

Search(c) ==
    LET hits == Hits[call[c].question][call[c].filter]
    IN  /\ Alive(c) /\ call[c].pc = "searching"
        /\ IF hits = <<>>
           THEN Ends(c, NoAnswer, "answered")
           ELSE Asks(c, "answering", Masked(c).text \o SourcesText(hits),
                     [call[c] EXCEPT !.hits = hits])
        /\ UNCHANGED <<screen, faults>>

SearchFails(c) == /\ Alive(c) /\ call[c].pc = "searching"
                  /\ Fault
                  /\ Fails(c)
                  /\ UNCHANGED screen

\* Source numbers the model may write, one of them pointing at nothing.
Numbered(c) == 1..(Len(call[c].hits) + 1)

Replies(c) ==
    {marks \o said :
       marks \in BoundedSeq({Cite(n, IF n \in DOMAIN call[c].hits THEN call[c].hits[n] ELSE NoClaim) :
                               n \in Numbered(c)}, 2),
       said \in BoundedSeq(Mentions(Masked(c).text \o SourcesText(call[c].hits)), 1)}

Cited(c, used) == SplitCitations(used, Len(call[c].hits))

Chips(c, valid) == [i \in DOMAIN valid |-> call[c].hits[valid[i]]]

\* The model declines, or an answer without a source that resolves is
\* withheld, or the answer is shown with the sources it cites.
AnswerFrom(c) ==
    /\ Alive(c) /\ call[c].pc = "answering"
    /\ \/ Ends(c, NoAnswer, "answered")
       \/ \E valid \in {Cited(c, used) : used \in BoundedSeq(Numbered(c), 2)} :
            IF valid = <<>>
            THEN Ends(c, NoAnswer, "answered")
            ELSE \E text \in {Renumber(reply, valid) : reply \in Replies(c)} :
                   Ends(c, Answer(TRUE, Revealed(c, text), Chips(c, valid), NoDraft), "answered")
    /\ UNCHANGED <<screen, faults>>

-----------------------------------------------------------------------------
(* The audit row.  It holds the masked question, the statement before it    *)
(* was revealed and the error of a failed query.                            *)

AuditRow(c) ==
    [outcome    |-> call[c].outcome,
     answerable |-> call[c].answer.answerable,
     holds      |-> Shown(Masked(c).text) \cup Shown(call[c].draft.literals) \cup call[c].error]

\* A transaction that a failed statement aborted takes no audit row.
Audit(c) == /\ Alive(c) /\ call[c].pc = "auditing"
            /\ ~(Shared /\ call[c].aborted)
            /\ call' = [call EXCEPT ![c].pc = "replied", ![c].row = AuditRow(c)]
            /\ UNCHANGED <<screen, faults>>

\* The commit fails and is rolled back; the operator gets the answer anyway.
AuditFails(c) == /\ Alive(c) /\ call[c].pc = "auditing"
                 /\ IF Shared /\ call[c].aborted THEN UNCHANGED faults ELSE Fault
                 /\ call' = [call EXCEPT ![c].pc = "replied"]
                 /\ UNCHANGED screen

-----------------------------------------------------------------------------
Page == \E c \in Calls : Retry(c) \/ \E q \in Questions : Submit(c, q)

Proxy(c) == GiveUp(c) \/ Deliver(c)

Writing(c) == \/ Decline(c)
              \/ \E draft \in Drafts, literals \in Literals(c) :
                   Write(c, [draft EXCEPT !.literals = literals])

Serve(c) ==
    /\ call[c].pc \in Stages \cup {"received"}
    /\ \/ Refuse(c) \/ Accept(c) \/ LlmFails(c)
       \/ \E route \in Routes, filter \in Filters : Route(c, route, filter)
       \/ Writing(c) \/ (\E rows \in Results : Run(c, rows)) \/ RunFails(c) \/ Narrate(c)
       \/ Search(c) \/ AnswerFrom(c)
       \/ Audit(c)

Breaks(c) == Unreachable(c) \/ SearchFails(c) \/ AuditFails(c)

Work == \E c \in Calls : Proxy(c) \/ Serve(c)

Next == Page \/ Work \/ \E c \in Calls : Breaks(c)

\* Every attempt of a model call and every query ends at its ceiling and the
\* proxy's timer runs out, so the calls under way go on; that some of them does
\* is enough, as the work of each is bounded.  Nobody has to ask.
Fairness == WF_vars(Work)

Spec == Init /\ [][Next]_vars /\ Fairness

-----------------------------------------------------------------------------
(* Properties.                                                              *)

\* Claims whose text could not be masked at ingest keep it unmasked.
Unmasked == (UNION {UNION {Shown(s.text) : s \in ToSet(Sentences[k])} : k \in Claims}) \cap Real

\* No text sent to a model holds a plate or a number of the operator's or of a
\* result row: what is sent is the masked question, the statement before it is
\* revealed, masked rows, and claim text, which is only as masked as ingest
\* left it (ask.py, text_to_sql.py, sql_answer.py, answer.py).
NothingPersonalLeaves == \A c \in Calls : call[c].prompt \cap Real \subseteq Unmasked

Finished == {c \in Calls : Awaited(c) /\ call[c].pc \in {"auditing", "replied"}}

Displayed(c) == call[c].answer.text \o call[c].answer.sql.literals

\* Where an answer or its statement shows a real value, it is the value that
\* was meant, whichever of the question, the rows and the claims used a
\* placeholder of that number (question_mask.py, ask.py).  The exception is an
\* answer from rows that hold a placeholder themselves: a statement may read the
\* masked question of an earlier call from audit_trail.detail, a column that the
\* guard does not refuse and the schema given to the model does not list.
RevealedIsTrue ==
    \A c \in Finished :
      Bare(RenderRows(call[c].rows, NarrateLimit)) =>
        \A t \in Mentions(Displayed(c)) : t.shows \in Real => t.shows = t.of

\* The sources of an answer are what they look like.  Every marker leads to a
\* source on the page, to the one the model meant, and an answer from claims
\* shows at least one; each claim is shown with the sentence of its own text
\* that is closest to the question, although the sentences of all texts were
\* compared in one batch (answer.py, retrieval.py).
SourcesAreTrue ==
    /\ \A c \in Finished :
         LET answer == call[c].answer
         IN  /\ \A t \in Cites(answer.text) :
                  t.cites \in DOMAIN answer.sources /\ answer.sources[t.cites] = t.of
             /\ answer.answerable /\ call[c].hits # <<>> => answer.sources # <<>>
    /\ \A c \in Calls : \A i \in DOMAIN call[c].hits :
         LET own     == Sentences[call[c].hits[i]]
             snippet == Snippets[call[c].hits][i]
         IN  IF own = <<>> THEN snippet = EmptySnippet
             ELSE /\ Contains(own, snippet)
                  /\ \A n \in DOMAIN own : own[n].close <= snippet.close

\* A number in an answer from rows, read as a Turkish reader does, is one the
\* database wrote, a row's number, the count of rows or of rows left out.  Two
\* exceptions: a result with a value of exactly three decimals, which the check
\* takes for a grouped one, and the number of a placeholder that the masking of
\* the rows put into them, as the check reads the masked rows (sql_answer.py).
ShownNumbersAreInTheResult ==
    \A c \in Finished :
      LET rows    == call[c].rows
          written == NumbersIn(RenderRows(rows, NarrateLimit))
          counted == written \cup {Whole(p.nr) : p \in Shown(RowsText[rows].text) \ Real}
      IN  rows # <<>> /\ ~(\E w \in written : w.sep = "." /\ w.digits = 3) =>
            \A t \in Numbers(call[c].answer.text) :
              \/ t.number \in counted
              \/ ReadInTurkish(t.number) \in {WrittenByPostgres(w) : w \in counted}
              \/ ReadInTurkish(t.number) = 1000 * Len(rows)

\* An answered call has its audit row, whether or not anyone still waits for
\* the answer, and the row tells what became of it; without a fault of the
\* platform none is lost, a failed query included (ask.py).
AnsweredIsAudited ==
    \A c \in Calls : call[c].pc = "replied" =>
      \/ /\ call[c].row.outcome = call[c].outcome
         /\ call[c].row.answerable = call[c].answer.answerable
      \/ call[c].row = NoRow /\ faults > 0

\* What the page shows is the outcome of the question the operator submitted
\* last, also after retries and while the thread of an earlier call, given up
\* on by the proxy, runs on (Question.tsx, question.py).
ShownAnswersTheAsked == screen.shows \in {"answer", "error"} => screen.to = screen.asked

\* The proxy outlasts every call whose model calls each took one attempt and
\* whose first statement was accepted (question.py).
OutlastsPlainAnswers ==
    \A c \in Calls : call[c].waits = "gave_up" => call[c].retried \/ call[c].attempts > 1

\* A question that was asked comes to an answer or an error on the page.
AskedIsSettled == screen.shows = "pending" ~> screen.shows # "pending"

\* "audit_trail has not held raw PII since the masking sanity leak".
AuditHoldsNoRealValue == \A c \in Calls : call[c].row.holds \cap Real = {}

=============================================================================

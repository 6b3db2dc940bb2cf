# Claims Cockpit: TLA+ models and proofs

The cockpit takes claim messages in over HTTP, runs each through an AI pipeline
(masking, classification, extraction, validation, embedding, an approval gate),
and shows the result to operators who approve or reject it. Paths below are
relative to the repository's root, which this project calls `src/`.

    POST /ingest ──commit──> raw_messages            operators (web queue page)
         │                                             │ approve / reject / edits
         └──LPUSH──> Redis claims:incoming             v
                        │ BRPOP                 api/routers/queue.py ─┐
                        v                                             │
                 worker: process_message ──one commit──> claims, audit_trail,
                                                         mask_mappings, claim_embeddings
                                                            ^        │
                    scripts/backfill_embeddings.py ─────────┘        ├─> metrics thread (gauges)
                                                                     └─> RAG service (read only)

## 1. Inventory

| component | state it keeps | operations | talks to | what is hard |
|---|---|---|---|---|
| ingest (`api/routers/ingest.py`, `api/redis_client.py`) | `raw_messages` rows, the Redis list | `POST /ingest`: commit, push, answer | the worker, through the list | the push is outside the transaction |
| worker loop (`worker/main.py`) | none of its own | BRPOP, one session per message | Redis, pipeline | the pop is destructive; an exception must not end the loop; restart by compose |
| pipeline (`worker/pipeline.py`) | one open session per message | mask, sanity, classify, route, extract + validate, embed, auto-approve, commit, dead letter | every `worker/` package, PostgreSQL | each step may fail on its own; one transaction for all; flush order |
| masking, sanity, classification, extraction, validation, gate (`worker/masking`, `worker/classification`, `worker/extraction`, `worker/validation`, `worker/routing`) | none | functions of text and model answers | LLM client | what survives a failed call; three opinions about an injury |
| embedding store and backfill (`worker/embedding/store.py`, `scripts/backfill_embeddings.py`) | `claim_embeddings` | `store_embedding`; a batch run with `--force`, `--limit`, `--dry-run` | pipeline, PostgreSQL | overlapping runs, death in mid-run, batch boundaries, stale vectors |
| review queue (`api/routers/queue.py`) | `claims.status`, `claims.data`, `audit_trail` | list, approve with edits, reject | web page | check and commit are apart; no lock, no version |
| queue metrics (`api/metrics.py`, `api/main.py`) | gauges | a tick every 15 s | PostgreSQL | three queries, three snapshots |
| LLM client (`worker/llm/client.py`) | the loaded fixtures | a structured call with retries, or a recorded answer offline | provider, offline fixtures | retries in two layers, time-outs; fixtures read on the first call |
| question page, proxy and RAG service (`web/src/pages/Question.tsx`, `api/routers/question.py`, `rag`, `worker/rag`) | the page's mutation, audit rows | route, SQL with one correction behind a guard, retrieval, answer with citations | LLM, PostgreSQL read only | two clocks; what may leave the machine; numbers and sources that look right and are not; late answers |
| web queue page (`web/src/pages/Queue.tsx`, `api/useQueue.ts`, `components/QueueDetail.tsx`) | selection, announced reject, form, cached list | keys, buttons, polling, mutations | review queue | lists, answers and keys in any order; flags that do not name their claim |
| replay and demo seeding (`replay/replay.py`, `demo/seed_demo_db.py`) | none but the rows they cause | select, post, wait, count, report | ingest, PostgreSQL | repeated and overlapping runs share their refs |
| authentication, read-only endpoints, other pages, eval, data generators, monitoring | little or none | single requests, offline tools | | sequential |

What makes each correct: the pipeline commits all of a message or nothing of
it, loses a message only to a failure of the platform, and lets no injury pass
a person by; a claim's status, fields and audit rows always explain each other;
the gauges account for every queued claim; a backfill that ends has reached what
it tried. Masking is undone exactly by its mappings and leaves alone what the
injury terms say; what the gate approves rests on the sender's words. An answer
shows only numbers and sources its result has, nothing personal leaves for a
model, and the page shows the answer to what was asked. A key or a button decides
the claim it was meant for. `PROJECT.json` lists the hazards at their lines;
three of them have a note instead of a property.

## 2. Modules

| module | models | composes with |
|---|---|---|
| `ClaimPipeline` | ingest, Redis list, worker loop, `process_message` | |
| `ReviewQueue` | approve, reject, edits, metrics tick | takes the pipeline's commit as `Arrive` |
| `EmbeddingBackfill` | the backfill script and `store_embedding` | takes the worker's commit as `Arrive` |
| `ClaimLifecycle` | what the cockpit promises about one report | implemented by `ClaimPipeline` and `ReviewQueue` |
| `Selections` | what is kept of a sequence, and each element once | extended by `MessageText`, `AnswerChecks`, `QueueScreen` |
| `MessageText` | masking, injury terms and quote search, as operators on texts | |
| `MessageContent` | what one run of `process_message` makes of a text | extends `MessageText`; `ClaimPipeline` keeps the transaction this leaves out |
| `AnswerChecks` | the question service's operators on texts, drafts and numbers | |
| `QuestionService` | question page, proxy, RAG service | extends `AnswerChecks` |
| `QueueScreen` | the queue page, and the queue as it sees it | takes a decision of `ReviewQueue` as one step |
| `DemoSeeding` | seeding, replay, offline fixtures | takes a run of `ClaimPipeline` as one step |
| `MC…` | constants for TLC only | extends its module |
| `SequenceLemmas` | induction, recursion, sequences: the lemmas the texts and lists need | extends `Selections` and `TLAPS` |
| `…_proofs` | theorems and lemmas | extends its module, `TLAPS` and, where there are texts or lists, `SequenceLemmas` |

### ClaimPipeline

Committed state is `rows` (`raw_messages.status`), `mappings`, `claims`, `audit`.
The open session is `tx` and `draft`: the claim being built and what was added.
`worker` is the statement `process_message` is about to run. Every `step_*` is one
action whose disjuncts are its outcomes:

| code | action |
|---|---|
| `ingest` up to `db.commit`; `enqueue_message`; either fails | `IngestCommit`; `IngestEnqueue`; `IngestFails` |
| BRPOP; its reply is lost | `Take`; `PopLost` |
| `db.get` before the `try`; it fails | `Load`; `LoadFails` |
| `step_mask`, or the raw text after an exception | `StepMask` |
| `step_mask_sanity` | `StepMaskSanity` |
| `step_classify`: a verdict, or the fallback | `StepClassify` |
| `step_route`: `db.add`, `db.flush`; it fails | `StepRoute`; `RouteFails` |
| `step_extract` + `step_validate`: skipped, done, model failed, query failed | `StepExtract` |
| `step_embed`: done, encoder failed, query failed | `StepEmbed` |
| `step_auto_approve` with `evaluate` | `StepAutoApprove`, `Approvable` |
| `db.commit`: applied; refused; applied but reported failed | `Commit`; `CommitFails`; `CommitUnacked` |
| the `except` branch; it fails too | `DeadLetter`; `DeadLetterFails` |
| the container dies; `restart: always` | `Crash`; `Restart` |

Model, masking and encoder failures are ordinary outcomes and are unbounded. A
*fault* is a failure of the platform and costs one of `MaxFaults`. Three things of
PostgreSQL and SQLAlchemy matter and are modelled: the session has
`autoflush=False`, so a query does not see what was only added
(`MappingsVisible`); a failed statement aborts the transaction, so a swallowed
exception leaves a session whose commit will be refused (`tx.broken`); a commit
may be applied without the client hearing of it (`CommitUnacked`). A classified
claim is abstracted to what the later steps and the gate read of it. `Extractions`
are three independent bits: `injury`, one for the fields whose quote was not
found, and `malformed` for the blocking rules of `validate` that look at the
extraction alone. The two rules that relate extraction, text and urgency are
written out (`Blocked`). The injury terms are matched in the masked text (in the
raw text when masking failed); the model assumes both give the same verdict,
which `Injured` states by being one set. `MessageContent` shows where they differ.

### ReviewQueue

A decision is `Check` (everything `_transition` does before `db.commit`, with
`_apply_edits`) and `Commit` or `CommitFails`. Between them other requests run:
PostgreSQL's READ COMMITTED takes no lock for a read and the row has no version.
A session holds the status and fields it computed from the row it read; `Commit`
writes only changed columns, as SQLAlchemy does. `raced` is a history variable:
the claims two requests held at once. An answer lost after the commit is the
`failed` outcome of `Commit`. A metrics tick is `CountReview`, `CountApproved`,
`Publish`, in the order of the queries; `refresh.queued` is a history value, the
claims that were in the queue or decided when the tick began.

### EmbeddingBackfill

A run is `Start` (the select, with the model and `--force` and `--limit` chosen),
one `Skip`, `Embed` or `EmbedFails` per claim in id order, and `Commit` at
`i % COMMIT_EVERY = 0` and at the end. `Skip` is the `continue`, which jumps over
the batch test. Whether a vector is an insert or an update is decided when the
claim is visited, and the statement is sent with the commit: `Refused` is the
primary key that another run has filled since, or an aborted transaction. `Die`
is any end but the regular one. `alone` is a history variable: the runs no other
has overlapped. `--dry-run` writes nothing and is left out.

### ClaimLifecycle

The abstract specification: a report is absent, received, discarded, in review,
approved or archived. The pipeline receives it and brings it in or gives it up,
once; a person decides a claim in review, once; a report that must be seen is not
approved without one. `ClaimPipeline` maps a report to its row until it has a
claim and to the claim from then on; `ReviewQueue` maps a claim to its status. A
decision may be overruled only for a report in `contested`: `ReviewQueue` maps
`raced` to it, `ClaimPipeline` the empty set. In both modules the property is
`ImplementsLifecycle`.

### MessageText and MessageContent

A text is a sequence of atoms, stretches of characters every rule treats alike;
words are runs of them between white space, and each atom has a width, because
the injury guards look thirty characters around a term. Dictionaries, term lists
and the values a pattern matches are constants. `MaskText` replaces pattern by
pattern, a value everywhere it stands, also inside a longer one; `MaskNames`
gives every occurrence its own placeholder and joins the words with blanks;
`Unmask` replaces placeholder by placeholder, the last mapping winning.
`InjurySignals` has the negation, blank-field and question guards and the care
window; `Located` searches exactly, then across white space, then without case.
`Scan`, `Replace`, `MaskText`, `Unmask` and the count of characters, `Chars`, are
the loops of the code, as recursive functions over the position they have reached, because that is what a proof can
unfold. A written atom and a placeholder differ in their number; a sender may
write what looks like a placeholder, and some texts of the run do.

`MessageContent` runs a text through the steps: mask or fail, sanity check (a
verdict with any span, a failure, or switched off), classification or fallback,
extraction (skipped, failed, or any combination of values and quotes), gate. It
has no transaction and no crash; those are in `ClaimPipeline`.

### AnswerChecks and QuestionService

A text is a sequence of tokens: a mention of personal data with what it shows and
the value its writer meant, a citation with the claim it meant, or a number. What
was meant is a history value the code never sees and the properties compare with.
A generated statement is a record of what the guard looks at.

| code | action |
|---|---|
| `handleSubmit`, `onRetry` on the question page | `Submit`, `Retry` |
| `ask_question`: time-out, unreachable, answer or error | `GiveUp`, `Unreachable`, `Deliver` |
| `soru`: a question outside the length bounds, or `ask` with `mask_question` | `Refuse`, `Accept` |
| `route_question` | `Route` |
| `generate_sql`: declined, or a statement with its vetting and one correction | `Decline`, `Write` |
| `run_query`, or the `except SQLAlchemyError` branch with its rollback | `Run`, `RunFails` |
| `narrate`: rows masked, numbers verified, answer revealed | `Narrate` |
| `search` and `pick_snippets`; the search fails | `Search`; `SearchFails` |
| `answer_question`: declined, no valid source, or renumbered | `AnswerFrom` |
| `_log_question`; its commit fails | `Audit`; `AuditFails` |
| any model call gives up | `LlmFails` |

A call's thread and the proxy's request are separate: after `GiveUp` the thread
runs to its audit row and the page may ask again. `due` counts the time a call
has taken in units of ten seconds; a model call takes its ceiling, or two of them
with a schema retry. The service gives `ask` a session of its own for the query;
callers that do not, run it on the session that writes the audit row. `Shared`
picks the latter, where a missing rollback would cost the row.

### QueueScreen

The state of the page (selection, announced reject, help, form), the cached list,
the GET under way and the one mutation, against a server other operators use and
a network that loses requests and answers. Every key and button is an action; a
key held down is the same action again. Of react-query three things are taken
from how the page uses them: a mutation is pending until the refetch its
`onSuccess` waits for has ended, `invalidateQueries` cancels a fetch under way and
sends a new one, and a failed fetch keeps the old list. Rendering and effects are
one with the event that causes them. `announced`, `own` and `stale` are history
variables.

### DemoSeeding

A run is a seeding (the first `--limit` texts) or a replay (a scenario of phases,
each taking the first matching texts no earlier phase took). `Post` is an accepted
ingest request, `PostFails` one that ends the run with its row written or not. The
worker takes a message in one step: a claim, with or without its vector, or a dead
letter. Offline each model call is answered by `Recorded`: the message's own
record, the wildcard, or a failure, also when the fixture set cannot be loaded.
The seeding then waits, gives up at its deadline, and counts in two queries.

## 3. Runs

| run | instance | distinct states |
|---|---|---|
| `pipeline` | 2 messages, 2 faults, sanity check and gate on | 779,188 |
| `review_queue` | 2 claims, 3 requests, 5 edits | 399,525 |
| `backfill` | 3 claims, 2 runs, 2 models, batches of 2 | 458,506 |
| `question` | 2 calls, 3 questions, 4 claims, 5 drafts, 4 results, 1 fault | 220,713 |
| `masking` | 38 texts of up to 7 words | 156,611 |
| `screen` | 3 claims, one urgent, a page of 2, 1 fault | 248,408 |
| `demo` | 3 texts, `--limit` 2, 2 runs, 2 faults | 1,583,808 |
| `pipeline_stepfail`, `review_race`, `backfill_force`, `masking_injury`, `question_audit` | the same or smaller | findings, section 7 |

**pipeline**
- `CommittedTogether`: a message that is still `received` left no trace, a
  classified one has its claim and trail, a dead letter only its error row, unless
  its commit was applied and not acknowledged.
- `ExtractionIsUnmasked`: no committed field holds a placeholder. It depends on
  `step_route`'s flush coming before `step_extract`'s query.
- `InjuryReachesAPerson`: an injury in the text is critical and queued even when
  every model call failed; one only the extraction saw is never approved.
- `ApprovedWasChecked`, `AuditMatchesClaim`: no failed step hides behind the
  gate's verdict, and the trail says what the claim holds.
- `LossNeedsAFault`: messages dead-lettered or stranded never outnumber the
  faults; so a failed model call, however often, loses nothing.
- `AcceptedIsProcessed` (liveness): an accepted message ends classified or
  dead-lettered, unless a fault took its id off the list.
- `ImplementsLifecycle`: the pipeline's half of `ClaimLifecycle`.

**review_queue**
- `StatusIsExplained`, `EditsAreTraceable`: hold even when requests race.
  `TrailReplays`: for every claim no two requests held at once, a single decision
  whose edits replay to the stored fields.
- `GaugesCoverTheQueue`: because the queue is counted first, a claim decided
  during a tick is counted twice, never not at all.
- `ImplementsLifecycle`: the operators' half; a second decision only after a race.

**backfill**
- `FinishedRunReached`, `OnlyForceReplaces`, `BatchesSurvive`: a run that ends
  left no claim it tried without a vector; without `--force` only overlapping
  runs replace a vector; a dying run keeps its batches.

**question**
- `NothingPersonalLeaves`: no plate or number of the question or of a result row
  is sent to a model. The text of claims whose masking failed at ingest is sent as
  it is, and names in a question are not looked for at all.
- `RevealedIsTrue`: question, rows and claims all number their placeholders from
  one; what is revealed is nevertheless the value that was meant.
- `SourcesAreTrue`: every marker leads to the claim the model meant, each shown
  with a sentence of its own, although snippets are cut from one batch and
  markers are dropped and renumbered.
- `ShownNumbersAreInTheResult`: a shown number, read as a Turkish reader does, is
  in the result. A database value with exactly three decimals is the exception.
- `AnsweredIsAudited`: every answer has its row, also when its query failed or its
  proxy gave up; only a fault loses one.
- `ShownAnswersTheAsked`, `AskedIsSettled` (liveness): the page shows the outcome
  of the last question, and comes to show one.
- `OutlastsPlainAnswers`: the proxy outlasts a call without retry or correction.

**masking**
- `RoundTrip`, `NothingKnownLeft`: unmasking gives the sender's words back, and no
  value that stands as a word of its own and no unambiguous name survives masking,
  also where one value is part of another, a name occurs twice, or punctuation
  stands beside it. (A value within a longer word is no match: the patterns ask for
  word boundaries. A step that fails to mask is left out, and hands on the raw text.)
- `SignalsMoveOnlyByMasking`: masking changes what the injury terms say of a text
  for five reasons and no other. A placeholder touches the term, or stands between
  it and a negation or care verb and changes their distance; `mask_names` evened
  out a run of white space between the term and a word its guards look for; a value
  that was replaced held the term or such a word (a plate that spells "yok"); or
  the term is the label of a blank form field, whose line end was lost.
- `EvidenceHolds`, `ApprovedRestsOnTheText`: a verified quote lies at its span and
  says, unmasked, what the operator is shown; what the gate approves quotes the
  sender.
- `SanityFailsClosed`: a failed check flags, and every stored span is in the text.

**screen**
- `RejectAnnounced`, `EditsOfThisClaim`: a reject is sent for the claim it was
  announced on and corrections for the one they were typed for, whatever list,
  answer or click comes in between.
- `OwnDecisionsLeave`: a claim this page decided does not come back with a list
  that was on its way, unless the refetch itself failed.
- `EditsOutlastFailures`: a failed request or poll throws nothing away.
- `EveryClaimIsDecided` (liveness): no failure leaves the page stuck, and a claim
  behind the limit moves up.

**demo**
- `ReportIsTrue`: a seeding that says "ready" has every text in, as a claim with
  its vector. Only if nothing else posted the same texts: the counts go by
  `external_ref`, so the rows of an earlier run stand in for missing ones.
- `RecordedAnswersAreTheirOwn`: offline, an answer is the message's own record, the
  wildcard or a failure; and a defective fixture set still makes claims.

Each property has a mutant in `PROJECT.json`: an operator of the model that
changes one definition the way a slip in the code would, and breaks the property.

**Bounds.** Pipeline: messages meet only in the list and the one worker, so two
show what one does to the next; two faults are enough for a fault in the handler
of a fault, and for a crash after a lost reply. Only one message reports an
injury. `Verdicts` and `Extractions` keep those members that differ in what a
later step does with them. Review: a race needs two requests, and the third is
the late one or the one on another claim; two fields and three values tell a lost
edit from a kept one; `Extracted` has one claim so that the conflict for a missing
extraction happens. Backfill: three claims with a flagged first one put a skip
before a full batch of two and leave a partial one; the violation uses four.
Question: two calls are a late one and its successor; the drafts are one with a
limit above the maximum, one with none, one with an expression, and two that are
refused; the results exercise the empty one, a decimal and a row left out; the
plates of question, row and claim compete for placeholder one. Masking: texts of
a small vocabulary chosen so that every guard of the injury terms, every
dictionary rule and every overlap of values happens; what lies between two words
is a blank or a line end. Screen: three claims and a page of two make a claim
fall off the page while it is selected and come back. Demo: a corpus of three
with a limit of two, and phases that compete for a text; two runs overlap or
repeat each other. Symmetry is used for requests, runs and models of the
review and backfill runs, and in no run with a liveness property under fairness.

**Fairness.** `ClaimPipeline`: a request that has committed its row goes on to
push or to fail, and the worker's next step is taken: its loop waits for nothing
but the list, every exception but the end of the process is caught in
`worker/main.py`, and compose starts the container again (`restart: always`).
`QuestionService`: some call under way goes on (`WF` of `Work`); model calls and
queries have ceilings and the proxy a timer, so none waits for ever, and each
call's work is finite. `QueueScreen`: the page polls, network and server answer
(`WF`), and the operator works (help is closed; strong fairness for opening a
claim and for approving it, because polls and other operators take the
opportunity away again and again). Nobody has to ask, type, reject or arrive.
Nothing makes a fault happen or stop happening except its bound. The other
modules state no fairness.

`CHECK_DEADLOCK FALSE` is set where the system stops: a finite set of messages with
the worker in BRPOP, a text that has been processed, calls or runs that are over.
The screen's run sets it too, though polling goes on for ever. The review queue
and the backfill never stop, since a tick or a new run is always possible.

## 4. What is proved

For every value of the constants that satisfies the named assumptions, with no
bound on messages, faults, requests, runs, batches, or the length of a text:

| module | theorems |
|---|---|
| `ClaimPipeline_proofs` | `TypeCorrect`, `Invariance`, `CommitIsAtomic`, `UnmaskedBeforeStored`, `InjuryReaches`, `ApprovalIsEarned`, `TrailIsTrue`, `ClaimsAreFinal`, `LossIsPaidFor`, `PipelineImplementsLifecycle` |
| `ReviewQueue_proofs` | `TypeCorrect`, `Invariance`, `StatusExplained`, `EditsTraced`, `TrailsReplay`, `DecisionsAreFinal`, `QueueImplementsLifecycle`, `GaugesCover` |
| `EmbeddingBackfill_proofs` | `TypeCorrect`, `Invariance`, `FinishedRunsReached`, `OnlyForceReplacesVectors`, `BatchesAreKept` |
| `QuestionService_proofs` | `Invariance`, `ShownIsAsked`, `AnswersAreAudited`, `PlainAnswersAreAwaited`, `DataInvariance`, `NothingPersonalIsSent`, `ValuesAreTrue`, `SourcesBelong`, `NumbersAreTheResults` |
| `MessageContent_proofs` | `Invariance`, `TheWordsComeBack`, `NothingKnownIsLeft`, `EvidenceIsThere`, `ApprovalRestsOnTheText`, `FailsClosed`, `SignalsMoveForAReason` |
| `QueueScreen_proofs` | `Invariance`, `EditsBelong`, `RejectsAnnounced`, `EditsOutlast`, `DecisionsLeave` |
| `DemoSeeding_proofs` | `Invariance`, `ReportsAreTrue`, `AnswersAreTheirOwn` |

**Pipeline.** The invariants speak of committed rows, and a commit copies the
open session into them; so the inductive invariant says of the session, phase by
phase, what the steps so far must have put into it (which audit steps, whether
the mapping rows are flushed, what the draft's extraction says of injury). At the
commit those facts are exactly the invariants for the message at hand. It also
says that the message at hand has no committed claim unless its commit went
unacknowledged, which is why a dead letter never overwrites a claim. The same
facts make every step a step of `ClaimLifecycle`: only a commit or the dead-letter
handler moves a stage, and the gate approves no injured report. For
`LossNeedsAFault` the messages that are lost are counted together with the one in
hand whose transaction cannot commit any more (a broken session, or the handler):
each step that adds a message to that set takes a fault, and the dead-letter
handler, which takes none, adds only the message that was counted already.

**Review queue.** A request between check and commit must be known to hold a
consistent proposal: its `fields` agree with `Written`, the trail and its own
`diffs`; and if its claim has not been raced for, the claim is still in review
with an empty trail and no other request holds it. That last part is also why a
second decision is an `Overrule` of a contested report. The gauges need another
argument: `refresh.review + refresh.approved` plus the rejections so far never
falls below `refresh.queued`, because a claim leaves the queue only by adding a
row that is counted later; the lemmas on `RowSet` turn that into cardinalities
with the library's theorems on finite sets.

**Backfill.** What a run has visited is split into skipped, failed and embedded;
every embedded claim is pending or already has a vector, of the run's own model
if it was alone. A pending update without `--force` implies an overlap. For the
batches, the position of the claim whose turn it is, in the run's order, is what the
loop's counter reaches with it, so the loop's test on its counter and the property's count
of positions speak of the same claim; a commit at a boundary empties what is
pending, and pending claims therefore lie behind the last boundary not skipped.

**Question service, the calls.** No text is looked into: every stage leaves the waiting, the
question, the session and the row of its call alone and puts its clock forward, so
one lemma on "a call moves to a stage" serves all of them. The page sends only when
nothing is pending, so one call at most is awaited, and it has the question asked
last. A failed query rolls back, so the session that writes the row is never
aborted, whichever it is. For the proxy each stage has a latest end for calls with
no retry and at most one statement (routing 3, writing 6, running 7, narrating 10
of the 12 units the proxy waits), and no step passes it.

**Question service, the texts.** A second invariant, `DInv`, says what a call holds
at each stage: the literals of its statement are tokens of the masked question,
its prompt shows no real value, rows or hits are there on one path only, and its
answer is true to them. It rests on four groups of lemmas.
- *Masking.* `Mask` leaves each token or puts a placeholder in it, and the mapping
  gives back the value that stood there. So a masked text shows nothing real
  (`NothingPersonalIsSent`), and unmasking with the mapping of one name space
  reveals only what its own text had: a `[PLATE_1]` of the rows and a `[Q_PLATE_1]`
  of the question are different, and the proof of `ValuesAreTrue` uses just that.
- *Snippets.* The batch of all sentences, cut at the sums of the lengths before,
  gives each text its own sentences again (`FlattenAt`), so the best of the piece is
  a sentence of that claim.
- *Markers.* `Once` and `Kept` leave each valid source once; the position a marker
  gets is where its source stands, and a marker without one is gone.
- *Numbers.* What `UnverifiedNumbers` lets through equals a number of the rendered
  rows, or their count, as the code parses it; a Turkish reader parses it the same,
  and PostgreSQL meant the same unless it wrote three decimals.
Two exceptions had to be named before the properties were true of every constant,
and TLC's instance has neither: rows that hold a placeholder themselves (a
statement may read `audit_trail.detail`, where an earlier masked question is), whose
tokens are then indistinguishable from those masking makes; and the number inside
a placeholder, which the check accepts as a number of the result because it reads
the masked rows.

**Message content.** Three things happen to a text that a proof must look through:
white space is evened out by `mask_names`, case is folded by `locate_quote`, and
values and placeholders are put for one another. All but the first are instances
of one operation, `Put(h, x)`: every atom a of x is replaced by the sequence `h[a]`.
The argument has five steps.
1. A replacement that makes words of the atoms of words and leaves white space
   alone (`Respects`) commutes with splitting and joining (`NormPut`): evening out
   the white space before or after is the same.
2. `unmask_text`, which replaces placeholder after placeholder, is one such
   replacement, provided no value contains a placeholder (`UnmaskPut`).
3. `str.replace` of a part by its placeholder cannot be seen by a replacement that
   puts the part back (`ReplacePut`), wherever the part stands, within a longer word
   or overlapping itself. By induction over the values found, whoever puts all
   values back has the text as it came (`MaskTextRestores`). Nothing is assumed of
   how the values overlap: a plate masked inside a longer one is put back there.
4. Placeholders of a type are numbered without gaps, those of names by the count of
   the names so far, so no placeholder stands for two values (`NameMappingsSound`,
   `SoundTogether`). With 1 to 3 that is `RoundTrip`.
5. A quote is found where the words are the same, up to white space and case; case
   folding and unmasking commute up to a second folding, so the unmasked quote and
   the unmasked text at the span have the same words too (`SameWordsBack`). That is
   `EvidenceHolds`; and since a piece of a text has its words together in the words
   of the whole (`NormWithin`), the quote is part of the raw text:
   `ApprovedRestsOnTheText`.

`NothingKnownLeft` needs the opposite direction: what is in the masked text and is
no part of a placeholder stood in the text before. `ReplaceTraced` says so of one
`str.replace`, with the places it came from in order and side by side. A value has
only written atoms, so a value found afterwards was there before (`ReplaceFree`);
by induction over the values found, none of them is left (`FoundIsFree`). Every
value that stands as a word is among those found (`ValuesAreFound`). Evening out
white space and putting in names keep it so, since a value has no white space in it
(`WordsFree`, `JoinFree`). For the names, a word that spells an unambiguous one
after `mask_names` would have been one it replaces (`NoNameIsLeft`).

`SignalsMoveOnlyByMasking` compares two texts position by position. `Carries(p, u, v, K)` says
where the atoms of u come to stand in v: the first i of them become the first `p[i]`
of v, those at K stay what they are, any other that is not white space becomes
one or more that are not, and the rest of v is white space. Three facts make the guards
of a term agree on both sides (`GuardsAgree`): its neighbours are the same or white
(`SameSides`), the words the guards look for are seen on both sides (`Sees`), and the
characters between the term and such a word are as many (`SameGap`, from
`GapChars`: if everything between them was carried, one position for one). The
comparison is made twice, with the evened-out raw text in the middle.
1. From the raw text to its evened-out form (`Evens`): every atom that is not white
   is carried, white space at the ends and runs of it are not. Without a run between
   the term and a word of its guards the distance is kept (`EvenGap`).
2. From the masked text back to the evened-out raw one (`Puts`, by the `RoundTrip`
   argument): every written atom is carried, a placeholder becomes its value. Without
   a placeholder between the term and a far word the distance is kept (`PutGap`),
   and without one beside it its neighbours are (`PutSides`); values without guard
   words add nothing to see (`PutSees`).
3. The blank-field guard is the only one that asks for a line end. The masked text
   has none (`PutOneLine`), so a label that looks blank there is blank up to the end of
   the text, and was in the raw text, which the property excepts. No value and no
   name hides a colon (`NoColonIsReplaced`), so both texts have the same ones.
The first form of this property held on the run and was refuted in the attempt to
prove it, in three ways: white space collapses and brings a negation within reach; a
plate may spell a negation; and a value may be joined to a term, which starts a word
once the value is replaced. These are now reasons the property names, with texts of
the run for each. The attempt also showed a fault of the model: the code looks for a
question only within the window behind a term, which `Asked` had left out.

The inductive invariant on top of this is short: after masking, text and mappings
are those of `mask_all` or the raw text with none; the data are one of the answers
`extract` can give to that text; an approval passed the gate. TLC checked it on
three of the run's texts (14,745 states) before it was proved. Two statements changed
because the general case refuted them: `RoundTrip` and the last part of the approval
hold of a text in which nothing looks like a placeholder (`PlainText`), since
unmasking replaces what the sender wrote as well; and an empty quote, which
`str.find` finds at the beginning of every text, has no words to stand anywhere.

**Induction over data.** The library's induction theorems take an operator and
cannot be used here. `SequenceLemmas` states induction with a set instead: a set of
numbers that holds 0 and with n also n + 1 holds them all (`SetInduction`, from
well-foundedness of `<` on Nat), and from it the versions for intervals and for
sequences, and that a recursive function over `0..N` exists (`Recursion`). Each
lemma by induction then defines the set of the n for which its claim holds.

**Queue page.** The flag of an announced reject and the form do not say whose they
are. The invariant says it for them: while the flag is set, the claim it was
announced on is the selected one, and what is in the form is of the claim that is
open, because each change of the selection takes the flag with it and each change
of the open claim mounts another form. Both theorems on requests follow at `Send`.
`DecisionsLeave` needs the lists: what the server sends has no decided claim in it
(what `Kept` keeps of the queue), the page's own decisions are among the decided ones,
and a fetch that was read before the acknowledgement is cancelled by it.

**Demo seeding.** A run that is alone with its texts has posted exactly the rows it
counts, one per record sent; a finished wait counted as many terminal rows as it
posted, so all of them (a subset of a finite set with its cardinality is the
set). The claims counted first can only grow, and a vector implies a claim, so
equal counts in two snapshots are counts of all.

Assumptions: the `ASSUME`s of each module (sets of messages and claims, shape of
the answers, `COMMIT_EVERY` positive, finite sets where something is counted).
TLC evaluates them in every run. Those the texts need say what the code's data
are: a real value is no placeholder (`RealAssumption`); a question as typed has no
placeholder, and the stored text of a claim only those of its own name space
(`TextsAssumption` of `QuestionService`); white space is white space in lower case
too and has the width of one character (`SpellingsAssumption`, `WidthsAssumption`); a
context term is an injury term and no dictionary of the injury rules holds white
space (`DictionariesAssumption`); no pattern matches the empty string, a placeholder
or a colon or full stop (each wants digits and letters without brackets around
them), and what one matches has one of the four types of `PATTERNS`
(`PatternsAssumption`); the texts and answers of `MessageContent` consist of atoms and placeholders (`TextsAssumption`).

## 5. What is only model-checked

Liveness (`AcceptedIsProcessed`, `AskedIsSettled`, `EveryClaimIsDecided`), which is
beyond the prover, as is `ENABLED`. Every invariant and every action property of a
passing run is a theorem.

## 6. What is not modelled

- Pipeline, review, backfill: the average wait (a mean of clock differences); the
  gauges being set one after another rather than at once; Prometheus counters;
  the worker's pauses; column widths and types; `--dry-run`.
- Extraction and validation: fields other than the plate and the injury take the
  same path; the validation rules that look at the extraction alone are one bit.
  The regular expressions and dictionaries are constants.
- Question service: SQL text, embeddings and distances, which are constants; the
  tables a draft reads rather than its parse tree; leaving the question page;
  authentication of the proxied request.
- Queue page: the time between an event and the renewal of the key handler;
  highlighting; the detail's read-only panels.
- Demo: the pacing of a replay, and the usage counters of recorded answers.
- Whole components, with the reason, in `PROJECT.json`: authentication and the
  read-only endpoints keep no state; evaluation and data generation are sequential
  offline tools; monitoring is configuration.

## 7. Where the code departs from what is written about it

1. `pipeline_stepfail`: `worker/pipeline.py:323-325` and `:427` say that a failed
   extraction or embedding must not dead-letter the claim. If what failed was a
   database statement, the transaction is gone and the commit is refused, so it does.
2. `review_race`: the docstring of `_transition` (`api/routers/queue.py:180-182`)
   allows one decision. Two requests that both pass the check both commit.
3. `backfill_force`: `docs/runbook.md:299-305` uses `--force` to regenerate every
   vector after a change of model. It skips flagged claims, which `step_embed` has
   embedded since ADR-005; their vectors stay in the old model's space.
4. `masking_injury`: `worker/pipeline.py:143-145` says an injury stays critical with
   no model involved. The terms are matched in the masked text: a placeholder that
   is shorter than its value brings a negation into the window, and a blank form
   label loses the line end that told it from a filled one.
5. `question_audit`: `worker/rag/ask.py:197-199` and `worker/rag/test_ask.py:685` say
   the audit row holds no raw personal data. The error text of a failed query does:
   it quotes the statement with the operator's value.

Without a run of their own, since a property above encodes what the code does:

- `demo/seed_demo_db.py:73-75` calls `classified` a status a message cannot leave. A
  commit that was applied but reported as failed sends the message to
  `dead_letter` beside its finished claim (the `unacked` case of `CommittedTogether`).
- `scripts/backfill_embeddings.py:31-33` promises batches of `COMMIT_EVERY`. A skipped
  claim at a boundary skips the commit with it, and batches merge.
- `api/routers/question.py:30-32` says the proxy's 120 seconds outlast the slowest
  honest answer. Four model calls, one of them the correction of a refused
  statement, and the query may take 130; `OutlastsPlainAnswers` excepts them.
- `worker/masking/sanity.py:136-139` says the pipeline skips extraction on flags;
  since ADR-005 it does not.
- `worker/llm/client.py:146-148` says a broken fixture set surfaces before the
  pipeline runs. It is read on the first call of the first message, whose step
  catches the error and goes on.
- `worker/llm/client.py:341` says a failed call dead-letters the message, while every
  caller in the pipeline catches it.
- An empty quote is found at position zero of every text and counts as evidence
  (`worker/extraction/extractor.py:108`); a plate that is the beginning of another
  is masked inside it and leaves its last digits ("[PLATE_1]3").

## 8. Plan

1. `ClaimsSystem`: pipeline, queue and backfill over one database, implementing
   `ClaimLifecycle` as a whole rather than by halves.
2. A larger vocabulary for `MessageContent`, with the remaining scalar fields.

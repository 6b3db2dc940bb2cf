----------------------------- MODULE DemoSeeding -----------------------------
(***************************************************************************)
(* The offline demo: seeding and replay post recorded texts to /ingest, the *)
(* worker answers every model call from the fixtures recorded for the       *)
(* message's external_ref, and the seeding waits and reports what it finds. *)
(* The scripts run on the host, may be run again and may overlap; all they  *)
(* know of their messages are the external_refs.                            *)
(*                                                                          *)
(* The pipeline is one step here; ClaimPipeline has its inside.             *)
(***************************************************************************)
EXTENDS Integers, Sequences, FiniteSets, SequencesExt

CONSTANTS
    Corpus,      \* the gt_ids of texts.jsonl, in its order
    Limit,       \* --limit
    Phases,      \* the scenario: for each phase the ids its filter lets through, and a count;
                 \* a replay without a scenario is one phase of the whole corpus
    Runs,        \* the runs that are started, 1..n
    FixtureSets, \* what may be recorded: for each response model the ids it has records for
    MaxFaults    \* bound: posts, queue entries and steps that fail

Wildcard == "*"

ASSUME CorpusAssumption ==
    /\ Corpus \in Seq(ToSet(Corpus)) /\ IsInjective(Corpus) /\ Wildcard \notin ToSet(Corpus)
    /\ Limit \in 1..Len(Corpus)

VARIABLES
    msgs,     \* the raw_messages rows, oldest first, each with what the worker made of it
    run,      \* the scripts
    recorded, \* demo/fixtures
    offline,  \* DEMO_OFFLINE in the worker's environment
    faults

vars == <<msgs, run, recorded, offline, faults>>

Models == {"sanity", "classification", "extraction"} \* response models of the pipeline's calls
Kinds  == {"seed", "replay"}

NoRun == [kind |-> "seed", pc |-> "idle", sent |-> 0, gave_up |-> FALSE, claims |-> 0, report |-> "none"]

\* Nothing is read while the worker is online.
NoFixtures == [model \in Models |-> {}]

Init == /\ msgs = <<>>
        /\ run = [r \in Runs |-> NoRun]
        /\ offline \in BOOLEAN
        /\ recorded \in IF offline THEN FixtureSets ELSE {NoFixtures}
        /\ faults = 0

Fault == faults < MaxFaults /\ faults' = faults + 1

-----------------------------------------------------------------------------
(* What is posted.                                                          *)

\* run_scenario: the first matching records that no earlier phase used.
Select(plan, phase) ==
    LET matching == SelectSeq(Corpus, LAMBDA id : id \in phase.filter /\ id \notin ToSet(plan))
    IN  plan \o SubSeq(matching, 1, IF Len(matching) < phase.count THEN Len(matching) ELSE phase.count)

Plan(kind) ==
    IF kind = "seed" THEN SubSeq(Corpus, 1, Limit) ELSE FoldLeft(Select, <<>>, Phases)

Start(r, kind) ==
    /\ run[r].pc = "idle" /\ \A earlier \in Runs : earlier < r => run[earlier].pc # "idle"
    /\ run' = [run EXCEPT ![r].kind = kind, ![r].pc = "posting"]
    /\ UNCHANGED <<msgs, recorded, offline, faults>>

NoAnswers == [model \in Models |-> "none"]

Row(id, r, queued) == [ref |-> id, by |-> r, status |-> "received", queued |-> queued,
                       claim |-> FALSE, vector |-> FALSE, answers |-> NoAnswers]

Finished(r) == run[r].sent = Len(Plan(run[r].kind))

NextRecord(r) == Plan(run[r].kind)[run[r].sent + 1]

Post(r) ==
    /\ run[r].pc = "posting" /\ ~Finished(r)
    /\ msgs' = Append(msgs, Row(NextRecord(r), r, TRUE))
    /\ run'  = [run EXCEPT ![r].sent = @ + 1]
    /\ UNCHANGED <<recorded, offline, faults>>

\* raise_for_status or a time-out ends the run; the row may have been written,
\* and even queued.
PostFails(r) ==
    /\ run[r].pc = "posting" /\ ~Finished(r) /\ Fault
    /\ run' = [run EXCEPT ![r].pc = "failed"]
    /\ \/ UNCHANGED msgs
       \/ \E queued \in BOOLEAN : msgs' = Append(msgs, Row(NextRecord(r), r, queued))
    /\ UNCHANGED <<recorded, offline>>

\* Replay is done when everything is posted; the seeding waits.
Posted(r) ==
    /\ run[r].pc = "posting" /\ Finished(r)
    /\ run' = [run EXCEPT ![r].pc = IF run[r].kind = "seed" THEN "waiting" ELSE "done"]
    /\ UNCHANGED <<msgs, recorded, offline, faults>>

-----------------------------------------------------------------------------
(* The worker.                                                              *)

\* Mutant: one client for the worker's life.
ClientOfTheFirst(i) == msgs[1].ref

\* get_llm_client(external_ref): a client for every call.
Client(i) == msgs[i].ref

\* _load_fixtures: every model that has records has the wildcard.
Usable == \A model \in Models : recorded[model] # {} => Wildcard \in recorded[model]

\* FixtureCompletions: the set is read on the first call, and again on every
\* call while it cannot be used; a model without records fails.
Recorded(model, ref) ==
    IF ~Usable \/ recorded[model] = {} THEN "failed"
    ELSE IF ref \in recorded[model] THEN ref
    ELSE Wildcard

\* What the three calls of a message are answered with: offline by a record, else
\* live, or not at all while the provider is away.
Answers(i) ==
    IF offline THEN {[model \in Models |-> Recorded(model, Client(i))]}
    ELSE {[model \in Models |-> answer] : answer \in {"live", "failed"}}

Incoming(i) == msgs[i].status = "received" /\ msgs[i].queued

IsNext(i) == Incoming(i) /\ \A earlier \in 1..(i - 1) : ~Incoming(earlier)

Claimed(i, vector) ==
    \E answers \in Answers(i) :
      msgs' = [msgs EXCEPT ![i].status = "classified", ![i].claim = TRUE, ![i].vector = vector,
                           ![i].answers = answers]

\* A message comes out as a claim, also when every call for it failed.
Process(i) ==
    /\ IsNext(i) /\ Claimed(i, TRUE)
    /\ UNCHANGED <<run, recorded, offline, faults>>

\* Its embedding fails, or the message as a whole.
ProcessFails(i) ==
    /\ IsNext(i) /\ Fault
    /\ Claimed(i, FALSE) \/ msgs' = [msgs EXCEPT ![i].status = "dead_letter"]
    /\ UNCHANGED <<run, recorded, offline>>

\* The id is lost on its way, or with the worker that held it.
Strand(i) ==
    /\ Incoming(i) /\ Fault
    /\ msgs' = [msgs EXCEPT ![i].queued = FALSE]
    /\ UNCHANGED <<run, recorded, offline>>

-----------------------------------------------------------------------------
(* Waiting and reporting, by external_ref.                                  *)

Terminal == {"classified", "dead_letter"}

Seeded == {i \in DOMAIN msgs : msgs[i].ref \in ToSet(SubSeq(Corpus, 1, Limit))}

Done == Cardinality({i \in Seeded : msgs[i].status \in Terminal})

WaitOver(r) ==
    /\ run[r].pc = "waiting" /\ Done >= Limit
    /\ run' = [run EXCEPT ![r].pc = "counting"]
    /\ UNCHANGED <<msgs, recorded, offline, faults>>

\* The deadline, which is looked at after the counts.
GiveUp(r) ==
    /\ run[r].pc = "waiting" /\ Done < Limit
    /\ run' = [run EXCEPT ![r].pc = "counting", ![r].gave_up = TRUE]
    /\ UNCHANGED <<msgs, recorded, offline, faults>>

\* verify: two queries, each with its own snapshot.
CountClaims(r) ==
    /\ run[r].pc = "counting"
    /\ run' = [run EXCEPT ![r].pc = "reporting",
                          ![r].claims = Cardinality({i \in Seeded : msgs[i].claim})]
    /\ UNCHANGED <<msgs, recorded, offline, faults>>

\* Mutant: the embeddings are counted and not compared.
ReadyWithout(claims, embeddings) == claims = Limit

Ready(claims, embeddings) == claims = Limit /\ embeddings = claims

Report(r) ==
    /\ run[r].pc = "reporting"
    /\ run' = [run EXCEPT ![r].pc = "done", ![r].claims = 0,
                          ![r].report =
                 IF Ready(run[r].claims, Cardinality({i \in Seeded : msgs[i].vector}))
                 THEN "ready" ELSE "warning"]
    /\ UNCHANGED <<msgs, recorded, offline, faults>>

-----------------------------------------------------------------------------
Seeding(r) == Post(r) \/ Posted(r) \/ WaitOver(r) \/ GiveUp(r) \/ CountClaims(r) \/ Report(r)

Next == \/ \E r \in Runs : (\E kind \in Kinds : Start(r, kind)) \/ Seeding(r) \/ PostFails(r)
        \/ \E i \in DOMAIN msgs : Process(i) \/ ProcessFails(i) \/ Strand(i)

Spec == Init /\ [][Next]_vars

-----------------------------------------------------------------------------
(* Properties.                                                              *)

Of(r) == {i \in DOMAIN msgs : msgs[i].by = r}

\* No other run has posted what this one counts.
Alone(r) == Seeded \subseteq Of(r)

\* What a seeding reports of its messages is so: a wait that ended by itself
\* ended with all of them finished, and a database that is called ready has each
\* of them in it, as a claim with its vector.  Only if nothing else ever posted
\* the same texts: the rows of an earlier, failed or repeated run are counted as
\* its own (seed_demo_db.py, wait_for_worker and verify).
ReportIsTrue ==
    \A r \in Runs : run[r].kind = "seed" /\ Alone(r) =>
      /\ run[r].pc \in {"counting", "reporting", "done"} /\ ~run[r].gave_up =>
           \A i \in Of(r) : msgs[i].status \in Terminal
      /\ run[r].report = "ready" =>
           Cardinality(Of(r)) = Limit /\ \A i \in Of(r) : msgs[i].claim /\ msgs[i].vector

\* Offline, a call is answered by the record of its own message if there is one,
\* else by the wildcard, never by another message's record and never live; and
\* where no record can answer, the claim is there all the same, with nothing in
\* it (client.py).
RecordedAnswersAreTheirOwn ==
    offline => \A i \in DOMAIN msgs : msgs[i].claim => \A model \in Models :
      LET answer == msgs[i].answers[model]
      IN  /\ answer \in {msgs[i].ref, Wildcard, "failed"}
          /\ Usable /\ recorded[model] # {} => answer \in {msgs[i].ref, Wildcard}
          /\ Usable /\ msgs[i].ref \in recorded[model] => answer = msgs[i].ref

==============================================================================

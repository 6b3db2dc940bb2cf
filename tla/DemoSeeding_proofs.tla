-------------------------- MODULE DemoSeeding_proofs --------------------------
(***************************************************************************)
(* Theorems about DemoSeeding, for every corpus, limit, scenario, fixture    *)
(* set and number of runs.                                                   *)
(***************************************************************************)
EXTENDS DemoSeeding, SequenceTheorems, FiniteSetTheorems, TLAPS

-----------------------------------------------------------------------------
(* Types.  What a scenario selects is not looked into: a record is whatever  *)
(* some plan has at some place.                                              *)

Refs == {Plan(kind)[n] : kind \in Kinds, n \in Nat}

Rows == [ref : Refs, by : Runs, status : {"received"} \cup Terminal, queued : BOOLEAN,
         claim : BOOLEAN, vector : BOOLEAN,
         answers : [Models -> {"none", "live", "failed", Wildcard} \cup Refs]]

RunPhases == {"idle", "posting", "waiting", "counting", "reporting", "done", "failed"}

RunStates == [kind : Kinds, pc : RunPhases, sent : Nat, gave_up : BOOLEAN, claims : Nat,
              report : {"none", "ready", "warning"}]

TypeInv == msgs \in Seq(Rows) /\ run \in [Runs -> RunStates]

\* A row the pipeline has not finished has no claim, and no vector without one.
RowInv == \A i \in DOMAIN msgs : /\ msgs[i].vector => msgs[i].claim
                                 /\ msgs[i].claim => msgs[i].status = "classified"

\* What a run has posted is what it counts as sent, in the order of its plan.
CountInv ==
    \A r \in Runs :
      /\ run[r].pc = "idle" => run[r].sent = 0 /\ Of(r) = {}
      /\ run[r].kind = "seed" => Of(r) \subseteq Seeded /\ run[r].sent <= Limit
      /\ run[r].kind = "seed" /\ run[r].pc # "failed" => Cardinality(Of(r)) = run[r].sent
      /\ run[r].kind = "seed" /\ run[r].pc \in {"waiting", "counting", "reporting", "done"} =>
           run[r].sent = Limit
      /\ run[r].report = "ready" => run[r].pc = "done"

DemoInv == TypeInv /\ RowInv /\ CountInv /\ ReportIsTrue

LEMMA SeedPlan ==
  /\ Plan("seed") = SubSeq(Corpus, 1, Limit)
  /\ Len(Plan("seed")) = Limit
  /\ \A n \in 1..Limit : Plan("seed")[n] \in ToSet(SubSeq(Corpus, 1, Limit))
<1>1. Plan("seed") = SubSeq(Corpus, 1, Limit)
  BY DEF Plan
<1>2. /\ Limit \in Nat /\ Limit <= Len(Corpus)
      /\ \A i \in 1..Limit : Corpus[i] \in ToSet(Corpus)
  BY CorpusAssumption, LenProperties
<1>3. /\ SubSeq(Corpus, 1, Limit) \in Seq(ToSet(Corpus))
      /\ Len(SubSeq(Corpus, 1, Limit)) = Limit
  BY <1>2, SubSeqProperties, CorpusAssumption
<1>4. DOMAIN SubSeq(Corpus, 1, Limit) = 1..Limit
  BY <1>3, LenProperties
<1>. QED BY <1>1, <1>3, <1>4 DEF ToSet

\* The rows of a run are a finite set.
LEMMA RowsFinite ==
  ASSUME TypeInv
  PROVE  /\ IsFiniteSet(DOMAIN msgs)
         /\ \A S \in SUBSET DOMAIN msgs : IsFiniteSet(S) /\ Cardinality(S) \in Nat
<1>1. DOMAIN msgs = 1..Len(msgs) /\ Len(msgs) \in Nat
  BY LenProperties DEF TypeInv
<1>2. IsFiniteSet(DOMAIN msgs)
  BY <1>1, FS_Interval
<1>. QED BY <1>2, FS_Subset, FS_CardinalityType

-----------------------------------------------------------------------------
(* Steps that change one row.                                                *)

\* Another state of a row that was still received.
RowStep(i, row) ==
    /\ msgs[i].status = "received"
    /\ row \in Rows /\ row.ref = msgs[i].ref /\ row.by = msgs[i].by
    /\ row.vector => row.claim
    /\ row.claim => row.status = "classified"
    /\ msgs' = [msgs EXCEPT ![i] = row]
    /\ UNCHANGED <<run, recorded, offline>>

LEMMA RowStepKeeps ==
  ASSUME DemoInv, NEW i \in DOMAIN msgs, NEW row, RowStep(i, row)
  PROVE  DemoInv'
<1> USE DEF DemoInv
<1>1. /\ DOMAIN msgs = 1..Len(msgs)
      /\ msgs' \in Seq(Rows) /\ Len(msgs') = Len(msgs)
      /\ DOMAIN msgs' = DOMAIN msgs
      /\ \A k \in DOMAIN msgs : msgs'[k] = IF k = i THEN row ELSE msgs[k]
  BY LenProperties, ExceptSeq DEF TypeInv, RowStep
<1>2. TypeInv' /\ run' = run
  BY <1>1 DEF TypeInv, RowStep
<1>3. RowInv'
  BY <1>1 DEF RowInv, RowStep
<1>4. /\ \A k \in DOMAIN msgs : msgs'[k].ref = msgs[k].ref /\ msgs'[k].by = msgs[k].by
      /\ Seeded' = Seeded /\ \A r \in Runs : Of(r)' = Of(r)
  BY <1>1 DEF Seeded, Of, RowStep
<1>5. CountInv'
  BY <1>2, <1>4 DEF CountInv
<1>6. ReportIsTrue'
  <2> SUFFICES ASSUME NEW r \in Runs, run[r].kind = "seed", Alone(r)
               PROVE  /\ run[r].pc \in {"counting", "reporting", "done"} /\ ~run[r].gave_up =>
                           \A k \in Of(r) : msgs'[k].status \in Terminal
                      /\ run[r].report = "ready" =>
                           /\ Cardinality(Of(r)) = Limit
                           /\ \A k \in Of(r) : msgs'[k].claim /\ msgs'[k].vector
    BY <1>2, <1>4 DEF ReportIsTrue, Alone
  <2>1. \A k \in Of(r) : k \in DOMAIN msgs
    BY DEF Of
  <2>2. \A k \in Of(r) : msgs[k].status \in Terminal \/ msgs[k].claim => k # i
    BY <2>1 DEF RowStep, RowInv, Terminal
  <2>. QED BY <2>1, <2>2, <1>1 DEF ReportIsTrue
<1>. QED BY <1>2, <1>3, <1>5, <1>6

\* Only scripts count and report; the worker changes rows, one at a time.
LEMMA WorkerKeeps ==
  ASSUME DemoInv, NEW i \in DOMAIN msgs, Process(i) \/ ProcessFails(i) \/ Strand(i)
  PROVE  DemoInv'
<1>1. msgs[i] \in Rows /\ DOMAIN msgs = 1..Len(msgs) /\ Len(msgs) \in Nat
  BY LenProperties, ElementOfSeq DEF DemoInv, TypeInv
<1>2. msgs[i].status = "received"
  BY DEF Process, ProcessFails, Strand, IsNext, Incoming
<1>3. ~msgs[i].claim /\ ~msgs[i].vector
  BY <1>1, <1>2 DEF DemoInv, RowInv, Rows
<1>4. UNCHANGED <<run, recorded, offline>>
  BY DEF Process, ProcessFails, Strand
<1>5. ASSUME NEW vector \in BOOLEAN, Claimed(i, vector)
      PROVE  DemoInv'
  <2>1. PICK answers \in Answers(i) :
          msgs' = [msgs EXCEPT ![i].status = "classified", ![i].claim = TRUE, ![i].vector = vector,
                               ![i].answers = answers]
    BY <1>5 DEF Claimed
  <2>2. answers \in [Models -> {"none", "live", "failed", Wildcard} \cup Refs]
    BY <1>1 DEF Answers, Recorded, Client, Rows
  <2> DEFINE row == [msgs[i] EXCEPT !.status = "classified", !.claim = TRUE, !.vector = vector,
                                    !.answers = answers]
  <2>3. row \in Rows /\ row.ref = msgs[i].ref /\ row.by = msgs[i].by
    BY <1>1, <2>2 DEF Rows, Terminal
  <2>4. row.claim /\ row.status = "classified"
    BY <1>1 DEF Rows
  <2>5. msgs' = [msgs EXCEPT ![i] = row]
    BY <2>1
  <2>6. RowStep(i, row)
    BY <1>2, <1>4, <2>3, <2>4, <2>5 DEF RowStep
  <2>. QED BY <2>6, RowStepKeeps
<1>6. ASSUME msgs' = [msgs EXCEPT ![i].status = "dead_letter"] PROVE DemoInv'
  <2> DEFINE row == [msgs[i] EXCEPT !.status = "dead_letter"]
  <2>1. row \in Rows /\ row.ref = msgs[i].ref /\ row.by = msgs[i].by /\ ~row.claim /\ ~row.vector
    BY <1>1, <1>3 DEF Rows, Terminal
  <2>2. msgs' = [msgs EXCEPT ![i] = row]
    BY <1>6
  <2>3. RowStep(i, row)
    BY <1>2, <1>4, <2>1, <2>2 DEF RowStep
  <2>. QED BY <2>3, RowStepKeeps
<1>7. ASSUME msgs' = [msgs EXCEPT ![i].queued = FALSE] PROVE DemoInv'
  <2> DEFINE row == [msgs[i] EXCEPT !.queued = FALSE]
  <2>1. row \in Rows /\ row.ref = msgs[i].ref /\ row.by = msgs[i].by /\ ~row.claim /\ ~row.vector
    BY <1>1, <1>3 DEF Rows
  <2>2. msgs' = [msgs EXCEPT ![i] = row]
    BY <1>7
  <2>3. RowStep(i, row)
    BY <1>2, <1>4, <2>1, <2>2 DEF RowStep
  <2>. QED BY <2>3, RowStepKeeps
<1>. QED BY <1>5, <1>6, <1>7 DEF Process, ProcessFails, Strand

-----------------------------------------------------------------------------
(* Steps of a script.                                                        *)

\* What one more row of run r does to the sets the scripts count.
LEMMA Appended ==
  ASSUME TypeInv, NEW r \in Runs, NEW row \in Rows, row.by = r, row.status = "received",
         ~row.claim, ~row.vector, msgs' = Append(msgs, row)
  PROVE  /\ msgs' \in Seq(Rows)
         /\ RowInv => RowInv'
         /\ \A q \in Runs \ {r} : Of(q)' = Of(q)
         /\ Seeded \subseteq Seeded'
         /\ \A k \in DOMAIN msgs : k \in DOMAIN msgs' /\ msgs'[k] = msgs[k]
         /\ Of(r)' = Of(r) \cup {Len(msgs) + 1}
         /\ Cardinality(Of(r)') = Cardinality(Of(r)) + 1
         /\ row.ref \in ToSet(SubSeq(Corpus, 1, Limit)) /\ Of(r) \subseteq Seeded =>
              Of(r)' \subseteq Seeded'
<1>1. /\ Len(msgs) \in Nat /\ DOMAIN msgs = 1..Len(msgs)
      /\ msgs' \in Seq(Rows) /\ Len(msgs') = Len(msgs) + 1
      /\ \A k \in 1..Len(msgs) : msgs'[k] = msgs[k]
      /\ msgs'[Len(msgs) + 1] = row
  BY LenProperties, AppendProperties DEF TypeInv
<1>2. DOMAIN msgs' = 1..(Len(msgs) + 1)
  BY <1>1, LenProperties
<1>3. DOMAIN msgs' = DOMAIN msgs \cup {Len(msgs) + 1} /\ Len(msgs) + 1 \notin DOMAIN msgs
  BY <1>1, <1>2
<1>4. \A q \in Runs \ {r} : Of(q)' = Of(q)
  BY <1>1, <1>3 DEF Of
<1>5. Of(r)' = Of(r) \cup {Len(msgs) + 1} /\ Len(msgs) + 1 \notin Of(r)
  BY <1>1, <1>3 DEF Of
<1>6. Cardinality(Of(r)') = Cardinality(Of(r)) + 1
  <2>1. IsFiniteSet(Of(r))
    BY RowsFinite DEF Of
  <2>. QED BY <2>1, <1>5, FS_AddElement
<1>7. Seeded \subseteq Seeded'
  BY <1>1, <1>3 DEF Seeded
<1>8. ASSUME row.ref \in ToSet(SubSeq(Corpus, 1, Limit)), Of(r) \subseteq Seeded
      PROVE  Of(r)' \subseteq Seeded'
  BY <1>1, <1>3, <1>5, <1>7, <1>8 DEF Seeded
<1>9. RowInv => RowInv'
  BY <1>1, <1>3 DEF RowInv
<1>. QED BY <1>1, <1>3, <1>4, <1>5, <1>6, <1>7, <1>8, <1>9

\* The row a run posts next.
LEMMA NextRow ==
  ASSUME DemoInv, NEW r \in Runs, run[r].pc = "posting", NEW queued \in BOOLEAN
  PROVE  LET row == Row(NextRecord(r), r, queued)
         IN  /\ row \in Rows /\ row.by = r /\ row.status = "received" /\ ~row.claim /\ ~row.vector
             /\ run[r].kind = "seed" /\ ~Finished(r) =>
                  row.ref \in ToSet(SubSeq(Corpus, 1, Limit))
<1> DEFINE row == Row(NextRecord(r), r, queued)
<1>1. run[r] \in RunStates
  BY DEF DemoInv, TypeInv
<1>2. NextRecord(r) \in Refs
  BY <1>1 DEF NextRecord, Refs, RunStates
<1>3. row = [ref |-> NextRecord(r), by |-> r, status |-> "received", queued |-> queued,
             claim |-> FALSE, vector |-> FALSE, answers |-> NoAnswers]
  BY DEF Row
<1>4. row \in Rows /\ row.ref = NextRecord(r) /\ row.by = r /\ row.status = "received"
      /\ ~row.claim /\ ~row.vector
  BY <1>2, <1>3 DEF Rows, NoAnswers
<1>5. ASSUME run[r].kind = "seed", ~Finished(r) PROVE row.ref \in ToSet(SubSeq(Corpus, 1, Limit))
  <2>1. run[r].sent # Limit
    BY <1>5, SeedPlan DEF Finished
  <2>2. run[r].sent <= Limit /\ run[r].sent \in Nat /\ Limit \in Nat
    BY <1>1, <1>5, CorpusAssumption DEF DemoInv, CountInv, RunStates
  <2>3. run[r].sent + 1 \in 1..Limit
    BY <2>1, <2>2
  <2>. QED BY <1>4, <1>5, <2>3, SeedPlan DEF NextRecord
<1>. QED BY <1>4, <1>5

\* A run that posts: the others have what they had, and see at most more of it
\* that is not theirs.
LEMMA OthersKeep ==
  ASSUME ReportIsTrue, NEW r \in Runs, NEW q \in Runs \ {r},
         Of(q)' = Of(q), Seeded \subseteq Seeded', run'[q] = run[q],
         \A k \in DOMAIN msgs : msgs'[k] = msgs[k],
         run[q].kind = "seed", Alone(q)'
  PROVE  /\ run[q].pc \in {"counting", "reporting", "done"} /\ ~run[q].gave_up =>
              \A k \in Of(q)' : msgs'[k].status \in Terminal
         /\ run[q].report = "ready" =>
              /\ Cardinality(Of(q)') = Limit
              /\ \A k \in Of(q)' : msgs'[k].claim /\ msgs'[k].vector
<1>1. Alone(q)
  BY DEF Alone
<1>2. \A k \in Of(q) : k \in DOMAIN msgs
  BY DEF Of
<1>. QED BY <1>1, <1>2 DEF ReportIsTrue

LEMMA PostKeeps ==
  ASSUME DemoInv, NEW r \in Runs, Post(r)
  PROVE  DemoInv'
<1> DEFINE row == Row(NextRecord(r), r, TRUE)
<1>1. run[r].pc = "posting" /\ ~Finished(r) /\ run' = [run EXCEPT ![r].sent = @ + 1]
  BY DEF Post
<1>2. msgs' = Append(msgs, row)
  BY DEF Post
<1>3. /\ row \in Rows /\ row.by = r /\ row.status = "received" /\ ~row.claim /\ ~row.vector
      /\ run[r].kind = "seed" => row.ref \in ToSet(SubSeq(Corpus, 1, Limit))
  BY <1>1, NextRow
<1> HIDE DEF row
<1>4. /\ msgs' \in Seq(Rows)
      /\ RowInv'
      /\ \A q \in Runs \ {r} : Of(q)' = Of(q)
      /\ Seeded \subseteq Seeded'
      /\ \A k \in DOMAIN msgs : k \in DOMAIN msgs' /\ msgs'[k] = msgs[k]
      /\ Cardinality(Of(r)') = Cardinality(Of(r)) + 1
      /\ run[r].kind = "seed" /\ Of(r) \subseteq Seeded => Of(r)' \subseteq Seeded'
  BY <1>2, <1>3, Appended DEF DemoInv
<1>5. /\ run \in [Runs -> RunStates] /\ run[r] \in RunStates
      /\ run'[r] = [run[r] EXCEPT !.sent = @ + 1]
      /\ \A q \in Runs \ {r} : run'[q] = run[q]
  BY <1>1 DEF DemoInv, TypeInv
<1>6. /\ run'[r].pc = "posting" /\ run'[r].kind = run[r].kind /\ run'[r].sent = run[r].sent + 1
      /\ run'[r].report = run[r].report /\ run'[r] \in RunStates
  BY <1>1, <1>5 DEF RunStates
<1>7. TypeInv'
  BY <1>1, <1>4, <1>5, <1>6 DEF TypeInv
<1>8. ASSUME run[r].kind = "seed" PROVE run[r].sent < Limit
  <2>1. run[r].sent # Limit
    BY <1>1, <1>8, SeedPlan DEF Finished
  <2>2. run[r].sent <= Limit /\ run[r].sent \in Nat /\ Limit \in Nat
    BY <1>5, <1>8, CorpusAssumption DEF DemoInv, CountInv, RunStates
  <2>. QED BY <2>1, <2>2
<1>9. run[r].report # "ready"
  BY <1>1 DEF DemoInv, CountInv
<1>10. CountInv'
  <2> SUFFICES ASSUME NEW q \in Runs
               PROVE  (/\ run[q].pc = "idle" => run[q].sent = 0 /\ Of(q) = {}
                       /\ run[q].kind = "seed" => Of(q) \subseteq Seeded /\ run[q].sent <= Limit
                       /\ run[q].kind = "seed" /\ run[q].pc # "failed" =>
                            Cardinality(Of(q)) = run[q].sent
                       /\ run[q].kind = "seed"
                          /\ run[q].pc \in {"waiting", "counting", "reporting", "done"} =>
                            run[q].sent = Limit
                       /\ run[q].report = "ready" => run[q].pc = "done")'
    BY DEF CountInv
  <2>1. CASE q = r
    <3>1. Limit \in Nat /\ run[r].sent \in Nat
      BY <1>5, CorpusAssumption DEF RunStates
    <3>2. run[r].kind = "seed" =>
            /\ Of(r) \subseteq Seeded /\ Cardinality(Of(r)) = run[r].sent
      BY <1>1 DEF DemoInv, CountInv
    <3>. QED BY <2>1, <3>1, <3>2, <1>4, <1>6, <1>8, <1>9
  <2>2. CASE q # r
    BY <2>2, <1>4, <1>5 DEF DemoInv, CountInv
  <2>. QED BY <2>1, <2>2
<1>11. ReportIsTrue'
  <2>1. \A q \in Runs \ {r} : run'[q].kind = "seed" /\ Alone(q)' =>
          /\ run'[q].pc \in {"counting", "reporting", "done"} /\ ~run'[q].gave_up =>
               \A k \in Of(q)' : msgs'[k].status \in Terminal
          /\ run'[q].report = "ready" =>
               Cardinality(Of(q)') = Limit /\ \A k \in Of(q)' : msgs'[k].claim /\ msgs'[k].vector
    BY <1>4, <1>5, OthersKeep DEF DemoInv
  <2>. QED BY <2>1, <1>6, <1>9 DEF ReportIsTrue
<1>. QED BY <1>4, <1>7, <1>10, <1>11 DEF DemoInv

\* A post that fails may have left its row; the run counts nothing any more.
LEMMA PostFailsKeeps ==
  ASSUME DemoInv, NEW r \in Runs, PostFails(r)
  PROVE  DemoInv'
<1>1. run[r].pc = "posting" /\ ~Finished(r) /\ run' = [run EXCEPT ![r].pc = "failed"]
  BY DEF PostFails
<1>2. /\ run \in [Runs -> RunStates] /\ run[r] \in RunStates
      /\ run'[r] = [run[r] EXCEPT !.pc = "failed"]
      /\ \A q \in Runs \ {r} : run'[q] = run[q]
  BY <1>1 DEF DemoInv, TypeInv
<1>3. /\ run'[r].pc = "failed" /\ run'[r].kind = run[r].kind /\ run'[r].sent = run[r].sent
      /\ run'[r].report = run[r].report /\ run'[r] \in RunStates /\ run' \in [Runs -> RunStates]
  BY <1>1, <1>2 DEF RunStates, RunPhases
<1>4. run[r].report # "ready"
  BY <1>1 DEF DemoInv, CountInv
<1>5. /\ msgs' \in Seq(Rows)
      /\ RowInv'
      /\ \A q \in Runs \ {r} : Of(q)' = Of(q)
      /\ Seeded \subseteq Seeded'
      /\ \A k \in DOMAIN msgs : k \in DOMAIN msgs' /\ msgs'[k] = msgs[k]
      /\ run[r].kind = "seed" /\ Of(r) \subseteq Seeded => Of(r)' \subseteq Seeded'
  <2>1. CASE UNCHANGED msgs
    BY <2>1 DEF DemoInv, TypeInv, RowInv, Of, Seeded
  <2>2. ASSUME NEW queued \in BOOLEAN, msgs' = Append(msgs, Row(NextRecord(r), r, queued))
        PROVE  <1>5!:
    <3> DEFINE row == Row(NextRecord(r), r, queued)
    <3>1. /\ row \in Rows /\ row.by = r /\ row.status = "received" /\ ~row.claim /\ ~row.vector
          /\ run[r].kind = "seed" => row.ref \in ToSet(SubSeq(Corpus, 1, Limit))
      BY <1>1, NextRow
    <3> HIDE DEF row
    <3>2. msgs' = Append(msgs, row)
      BY <2>2 DEF row
    <3>. QED BY <3>1, <3>2, Appended DEF DemoInv
  <2>. QED BY <2>1, <2>2 DEF PostFails
<1>6. CountInv'
  <2>1. \A q \in Runs \ {r} :
          (/\ run[q].pc = "idle" => run[q].sent = 0 /\ Of(q) = {}
           /\ run[q].kind = "seed" => Of(q) \subseteq Seeded /\ run[q].sent <= Limit
           /\ run[q].kind = "seed" /\ run[q].pc # "failed" => Cardinality(Of(q)) = run[q].sent
           /\ run[q].kind = "seed" /\ run[q].pc \in {"waiting", "counting", "reporting", "done"} =>
                run[q].sent = Limit
           /\ run[q].report = "ready" => run[q].pc = "done")'
    BY <1>2, <1>5 DEF DemoInv, CountInv
  <2>. QED BY <2>1, <1>3, <1>4, <1>5 DEF DemoInv, CountInv
<1>7. ReportIsTrue'
  <2>1. \A q \in Runs \ {r} : run'[q].kind = "seed" /\ Alone(q)' =>
          /\ run'[q].pc \in {"counting", "reporting", "done"} /\ ~run'[q].gave_up =>
               \A k \in Of(q)' : msgs'[k].status \in Terminal
          /\ run'[q].report = "ready" =>
               Cardinality(Of(q)') = Limit /\ \A k \in Of(q)' : msgs'[k].claim /\ msgs'[k].vector
    BY <1>2, <1>5, OthersKeep DEF DemoInv
  <2>. QED BY <2>1, <1>3, <1>4 DEF ReportIsTrue
<1>. QED BY <1>3, <1>5, <1>6, <1>7 DEF DemoInv, TypeInv

\* A script that moves on without posting.
Moves(r, state) ==
    /\ state \in RunStates /\ state.pc # "idle" /\ state.sent = run[r].sent
    /\ msgs' = msgs /\ run' = [run EXCEPT ![r] = state]

LEMMA MovesKeep ==
  ASSUME DemoInv, NEW r \in Runs, NEW state, Moves(r, state),
         state.kind = "seed" =>
           /\ Of(r) \subseteq Seeded /\ state.sent <= Limit
           /\ state.pc # "failed" => Cardinality(Of(r)) = state.sent
           /\ state.pc \in {"waiting", "counting", "reporting", "done"} => state.sent = Limit,
         state.report = "ready" => state.pc = "done",
         state.kind = "seed" /\ Alone(r) =>
           /\ state.pc \in {"counting", "reporting", "done"} /\ ~state.gave_up =>
                \A i \in Of(r) : msgs[i].status \in Terminal
           /\ state.report = "ready" =>
                Cardinality(Of(r)) = Limit /\ \A i \in Of(r) : msgs[i].claim /\ msgs[i].vector
  PROVE  DemoInv'
<1>1. /\ run \in [Runs -> RunStates] /\ run' \in [Runs -> RunStates]
      /\ run'[r] = state /\ \A q \in Runs \ {r} : run'[q] = run[q]
  BY DEF Moves, DemoInv, TypeInv
<1>2. msgs' = msgs /\ Seeded' = Seeded /\ \A q \in Runs : Of(q)' = Of(q)
  BY DEF Moves, Seeded, Of
<1>3. TypeInv' /\ RowInv'
  BY <1>1, <1>2 DEF DemoInv, TypeInv, RowInv
<1>4. CountInv'
  <2>1. \A q \in Runs \ {r} :
          (/\ run[q].pc = "idle" => run[q].sent = 0 /\ Of(q) = {}
           /\ run[q].kind = "seed" => Of(q) \subseteq Seeded /\ run[q].sent <= Limit
           /\ run[q].kind = "seed" /\ run[q].pc # "failed" => Cardinality(Of(q)) = run[q].sent
           /\ run[q].kind = "seed" /\ run[q].pc \in {"waiting", "counting", "reporting", "done"} =>
                run[q].sent = Limit
           /\ run[q].report = "ready" => run[q].pc = "done")'
    BY <1>1, <1>2 DEF DemoInv, CountInv
  <2>. QED BY <2>1, <1>1, <1>2 DEF CountInv, Moves
<1>5. ReportIsTrue'
  <2>1. \A q \in Runs \ {r} : run'[q].kind = "seed" /\ Alone(q)' =>
          /\ run'[q].pc \in {"counting", "reporting", "done"} /\ ~run'[q].gave_up =>
               \A k \in Of(q)' : msgs'[k].status \in Terminal
          /\ run'[q].report = "ready" =>
               Cardinality(Of(q)') = Limit /\ \A k \in Of(q)' : msgs'[k].claim /\ msgs'[k].vector
    BY <1>1, <1>2 DEF DemoInv, ReportIsTrue, Alone
  <2>. QED BY <2>1, <1>1, <1>2 DEF ReportIsTrue, Alone
<1>. QED BY <1>3, <1>4, <1>5 DEF DemoInv

LEMMA StartKeeps ==
  ASSUME DemoInv, NEW r \in Runs, NEW kind \in Kinds, Start(r, kind)
  PROVE  DemoInv'
<1> DEFINE state == [run[r] EXCEPT !.kind = kind, !.pc = "posting"]
<1>1. run[r] \in RunStates /\ run[r].pc = "idle" /\ run[r].sent = 0 /\ Of(r) = {}
  BY DEF Start, DemoInv, TypeInv, CountInv
<1>2. /\ state \in RunStates /\ state.pc = "posting" /\ state.sent = 0
      /\ state.report = run[r].report
  BY <1>1 DEF RunStates, RunPhases
<1>3. run' = [run EXCEPT ![r] = state] /\ msgs' = msgs
  BY DEF Start
<1> HIDE DEF state
<1>4. Moves(r, state)
  BY <1>1, <1>2, <1>3 DEF Moves
<1>5. Cardinality(Of(r)) = 0 /\ 0 <= Limit
  BY <1>1, FS_EmptySet, CorpusAssumption
<1>6. state.report # "ready"
  BY <1>1, <1>2 DEF DemoInv, CountInv
<1>. QED BY <1>1, <1>2, <1>4, <1>5, <1>6, MovesKeep

\* A run whose plan is posted, and which goes on to wait, or is done.
LEMMA PostedKeeps ==
  ASSUME DemoInv, NEW r \in Runs, Posted(r)
  PROVE  DemoInv'
<1> DEFINE pc == IF run[r].kind = "seed" THEN "waiting" ELSE "done"
           state == [run[r] EXCEPT !.pc = pc]
<1>1. run[r] \in RunStates /\ run[r].pc = "posting" /\ Finished(r) /\ run[r].report # "ready"
  BY DEF Posted, DemoInv, TypeInv, CountInv
<1>2. /\ state \in RunStates /\ state.pc = pc /\ state.kind = run[r].kind
      /\ state.sent = run[r].sent /\ state.report = run[r].report
  BY <1>1 DEF RunStates, RunPhases
<1>3. run' = [run EXCEPT ![r] = state] /\ msgs' = msgs
  BY DEF Posted
<1> HIDE DEF state
<1>4. Moves(r, state)
  BY <1>2, <1>3 DEF Moves
<1>5. run[r].kind = "seed" => run[r].sent = Limit
  BY <1>1, SeedPlan DEF Finished
<1>6. run[r].kind = "seed" => /\ Of(r) \subseteq Seeded /\ run[r].sent <= Limit
                              /\ Cardinality(Of(r)) = run[r].sent
  BY <1>1 DEF DemoInv, CountInv
<1>. QED BY <1>1, <1>2, <1>4, <1>5, <1>6, MovesKeep

\* What a seeding that has posted everything knows of its rows when nothing
\* else has posted the same texts.
LEMMA AllMine ==
  ASSUME DemoInv, NEW r \in Runs, run[r].kind = "seed", Alone(r),
         run[r].pc \in {"waiting", "counting", "reporting"},
         NEW S \in SUBSET Seeded, Cardinality(S) >= Limit
  PROVE  S = Of(r) /\ Cardinality(Of(r)) = Limit
<1>1. Of(r) = Seeded /\ Cardinality(Of(r)) = Limit
  BY DEF DemoInv, CountInv, Alone
<1>2. Of(r) \in SUBSET DOMAIN msgs /\ S \in SUBSET Of(r)
  BY <1>1 DEF Of
<1>3. IsFiniteSet(Of(r))
  BY <1>2, RowsFinite DEF DemoInv
<1>4. Limit \in Nat /\ Cardinality(S) \in Nat /\ Cardinality(S) <= Cardinality(Of(r))
  BY <1>2, <1>3, FS_Subset, FS_CardinalityType, CorpusAssumption
<1>5. Cardinality(S) = Cardinality(Of(r))
  BY <1>1, <1>4
<1>. QED BY <1>1, <1>2, <1>3, <1>5, FS_Subset

LEMMA WaitKeeps ==
  ASSUME DemoInv, NEW r \in Runs, WaitOver(r) \/ GiveUp(r) \/ CountClaims(r) \/ Report(r)
  PROVE  DemoInv'
<1>1. /\ run[r] \in RunStates /\ run[r].pc \in {"waiting", "counting", "reporting"}
      /\ run[r].report # "ready"
  BY DEF WaitOver, GiveUp, CountClaims, Report, DemoInv, TypeInv, CountInv
<1>2. run[r].kind = "seed" => /\ Of(r) \subseteq Seeded /\ run[r].sent <= Limit
                              /\ Cardinality(Of(r)) = run[r].sent /\ run[r].sent = Limit
  BY <1>1 DEF DemoInv, CountInv
<1>3. CASE WaitOver(r)
  <2> DEFINE state == [run[r] EXCEPT !.pc = "counting"]
             finished == {i \in Seeded : msgs[i].status \in Terminal}
  <2>1. /\ state \in RunStates /\ state.pc = "counting" /\ state.kind = run[r].kind
        /\ state.sent = run[r].sent /\ state.report = run[r].report
    BY <1>1 DEF RunStates, RunPhases
  <2>2. Cardinality(finished) >= Limit /\ run' = [run EXCEPT ![r] = state] /\ msgs' = msgs
    BY <1>3 DEF WaitOver, Done
  <2>3. run[r].kind = "seed" /\ Alone(r) => finished = Of(r)
    BY <1>1, <2>2, AllMine
  <2>4. run[r].kind = "seed" /\ Alone(r) => \A i \in Of(r) : msgs[i].status \in Terminal
    BY <2>3
  <2> HIDE DEF state
  <2>5. Moves(r, state)
    BY <2>1, <2>2 DEF Moves
  <2>. QED BY <1>1, <1>2, <2>1, <2>4, <2>5, MovesKeep
<1>4. CASE GiveUp(r)
  <2> DEFINE state == [run[r] EXCEPT !.pc = "counting", !.gave_up = TRUE]
  <2>1. /\ state \in RunStates /\ state.pc = "counting" /\ state.kind = run[r].kind
        /\ state.gave_up /\ state.sent = run[r].sent /\ state.report = run[r].report
    BY <1>1 DEF RunStates, RunPhases
  <2>2. run' = [run EXCEPT ![r] = state] /\ msgs' = msgs
    BY <1>4 DEF GiveUp
  <2> HIDE DEF state
  <2>3. Moves(r, state)
    BY <2>1, <2>2 DEF Moves
  <2>. QED BY <1>1, <1>2, <2>1, <2>3, MovesKeep
<1>5. CASE CountClaims(r)
  <2> DEFINE counted == Cardinality({i \in Seeded : msgs[i].claim})
             state == [run[r] EXCEPT !.pc = "reporting", !.claims = counted]
  <2>1. counted \in Nat
    BY RowsFinite DEF Seeded, DemoInv
  <2>2. /\ state \in RunStates /\ state.pc = "reporting" /\ state.kind = run[r].kind
        /\ state.gave_up = run[r].gave_up /\ state.sent = run[r].sent
        /\ state.report = run[r].report
    BY <1>1, <2>1 DEF RunStates, RunPhases
  <2>3. run' = [run EXCEPT ![r] = state] /\ msgs' = msgs /\ run[r].pc = "counting"
    BY <1>5 DEF CountClaims
  <2>4. run[r].kind = "seed" /\ Alone(r) /\ ~run[r].gave_up =>
          \A i \in Of(r) : msgs[i].status \in Terminal
    BY <2>3 DEF DemoInv, ReportIsTrue
  <2> HIDE DEF state
  <2>5. Moves(r, state)
    BY <2>2, <2>3 DEF Moves
  <2>. QED BY <1>1, <1>2, <2>2, <2>4, <2>5, MovesKeep
<1>6. CASE Report(r)
  <2> DEFINE embedded == {i \in Seeded : msgs[i].vector}
             report == IF Ready(run[r].claims, Cardinality(embedded)) THEN "ready" ELSE "warning"
             state == [run[r] EXCEPT !.pc = "done", !.claims = 0, !.report = report]
  <2>1. /\ state \in RunStates /\ state.pc = "done" /\ state.kind = run[r].kind
        /\ state.gave_up = run[r].gave_up /\ state.sent = run[r].sent
        /\ state.report = report
    BY <1>1 DEF RunStates, RunPhases
  <2>2. run' = [run EXCEPT ![r] = state] /\ msgs' = msgs /\ run[r].pc = "reporting"
    BY <1>6 DEF Report
  <2>3. run[r].kind = "seed" /\ Alone(r) /\ ~run[r].gave_up =>
          \A i \in Of(r) : msgs[i].status \in Terminal
    BY <2>2 DEF DemoInv, ReportIsTrue
  <2>4. run[r].kind = "seed" /\ Alone(r) /\ report = "ready" =>
          Cardinality(Of(r)) = Limit /\ \A i \in Of(r) : msgs[i].claim /\ msgs[i].vector
    <3> SUFFICES ASSUME run[r].kind = "seed", Alone(r), report = "ready"
                 PROVE  Cardinality(Of(r)) = Limit /\ \A i \in Of(r) : msgs[i].claim /\ msgs[i].vector
      OBVIOUS
    <3>1. Cardinality(embedded) = Limit
      BY DEF Ready
    <3>2. embedded = Of(r) /\ Cardinality(Of(r)) = Limit
      BY <1>1, <3>1, AllMine, CorpusAssumption
    <3>3. \A i \in Of(r) : msgs[i].vector /\ i \in DOMAIN msgs
      BY <3>2 DEF Of
    <3>. QED BY <3>2, <3>3 DEF DemoInv, RowInv
  <2> HIDE DEF state
  <2>5. Moves(r, state)
    BY <2>1, <2>2 DEF Moves
  <2>. QED BY <1>1, <1>2, <2>1, <2>3, <2>4, <2>5, MovesKeep
<1>. QED BY <1>3, <1>4, <1>5, <1>6

-----------------------------------------------------------------------------
(* The theorems.                                                             *)

LEMMA InitDemo == Init => DemoInv
<1> SUFFICES ASSUME Init PROVE DemoInv
  OBVIOUS
<1>1. msgs = <<>> /\ DOMAIN msgs = {} /\ msgs \in Seq(Rows)
  BY EmptySeq DEF Init
<1>2. \A r \in Runs : run[r] = NoRun
  BY DEF Init
<1>3. NoRun \in RunStates /\ NoRun.pc = "idle" /\ NoRun.sent = 0 /\ NoRun.report = "none"
  BY DEF NoRun, RunStates, RunPhases, Kinds
<1>4. \A r \in Runs : Of(r) = {} /\ Cardinality(Of(r)) = 0
  BY <1>1, FS_EmptySet DEF Of
<1>5. TypeInv /\ RowInv
  BY <1>1, <1>3 DEF TypeInv, RowInv, Init
<1>6. CountInv
  BY <1>2, <1>3, <1>4, CorpusAssumption DEF CountInv
<1>7. ReportIsTrue
  BY <1>2, <1>3 DEF ReportIsTrue
<1>. QED BY <1>5, <1>6, <1>7 DEF DemoInv

LEMMA NextDemo == DemoInv /\ [Next]_vars => DemoInv'
<1> SUFFICES ASSUME DemoInv, [Next]_vars PROVE DemoInv'
  OBVIOUS
<1>1. CASE UNCHANGED vars
  <2>1. UNCHANGED <<msgs, run>> /\ Seeded' = Seeded /\ \A r \in Runs : Of(r)' = Of(r)
    BY <1>1 DEF vars, Seeded, Of
  <2>2. TypeInv' /\ RowInv'
    BY <2>1 DEF DemoInv, TypeInv, RowInv
  <2>3. CountInv'
    BY <2>1 DEF DemoInv, CountInv
  <2>4. ReportIsTrue'
    BY <2>1 DEF DemoInv, ReportIsTrue, Alone
  <2>. QED BY <2>2, <2>3, <2>4 DEF DemoInv
<1>2. ASSUME NEW r \in Runs, (\E kind \in Kinds : Start(r, kind)) \/ Seeding(r) \/ PostFails(r)
      PROVE  DemoInv'
  BY <1>2, StartKeeps, PostKeeps, PostedKeeps, WaitKeeps, PostFailsKeeps DEF Seeding
<1>3. ASSUME NEW i \in DOMAIN msgs, Process(i) \/ ProcessFails(i) \/ Strand(i) PROVE DemoInv'
  BY <1>3, WorkerKeeps
<1>. QED BY <1>1, <1>2, <1>3 DEF Next

\* The rows, the scripts' counters and their reports agree in every reachable
\* state, whatever runs, fails and overlaps.
THEOREM Invariance == Spec => []DemoInv
BY InitDemo, NextDemo, PTL DEF Spec

\* What a seeding reports of messages nothing else has posted is so.
THEOREM ReportsAreTrue == Spec => []ReportIsTrue
<1>1. DemoInv => ReportIsTrue
  BY DEF DemoInv
<1>. QED BY <1>1, Invariance, PTL

-----------------------------------------------------------------------------
(* Offline answers.                                                          *)

\* A row that has just been written has no claim, and a claim gets the answers
\* recorded for its own row.
LEMMA AnswersStep ==
  ASSUME DemoInv, RecordedAnswersAreTheirOwn, [Next]_vars
  PROVE  RecordedAnswersAreTheirOwn'
<1>1. UNCHANGED <<recorded, offline>>
  BY DEF Next, vars, Start, Seeding, Post, Posted, WaitOver, GiveUp, CountClaims, Report,
         PostFails, Process, ProcessFails, Strand
<1>2. Usable' = Usable
  BY <1>1 DEF Usable
<1>3. DOMAIN msgs = 1..Len(msgs) /\ Len(msgs) \in Nat
  BY LenProperties DEF DemoInv, TypeInv
<1>4. CASE msgs' = msgs
  BY <1>1, <1>2, <1>4 DEF RecordedAnswersAreTheirOwn
<1>5. ASSUME NEW row, ~row.claim, msgs' = Append(msgs, row), row \in Rows
      PROVE  RecordedAnswersAreTheirOwn'
  <2>1. /\ DOMAIN msgs' = 1..(Len(msgs) + 1)
        /\ \A k \in 1..Len(msgs) : msgs'[k] = msgs[k]
        /\ msgs'[Len(msgs) + 1] = row
    BY <1>5, AppendProperties, LenProperties DEF DemoInv, TypeInv
  <2>2. \A k \in DOMAIN msgs' : msgs'[k].claim => k \in DOMAIN msgs /\ msgs'[k] = msgs[k]
    BY <1>3, <1>5, <2>1
  <2>. QED BY <1>1, <1>2, <2>2 DEF RecordedAnswersAreTheirOwn
<1>6. ASSUME NEW r \in Runs, Post(r) \/ PostFails(r) PROVE RecordedAnswersAreTheirOwn'
  <2>1. run[r].pc = "posting"
    BY <1>6 DEF Post, PostFails
  <2>2. \/ msgs' = msgs
        \/ \E queued \in BOOLEAN : msgs' = Append(msgs, Row(NextRecord(r), r, queued))
    BY <1>6 DEF Post, PostFails
  <2>. QED BY <2>1, <2>2, <1>4, <1>5, NextRow
<1>7. ASSUME NEW i \in DOMAIN msgs, NEW row, row.ref = msgs[i].ref,
             msgs' = [msgs EXCEPT ![i] = row],
             offline => \/ row.answers = [model \in Models |-> Recorded(model, Client(i))]
                        \/ row.answers = msgs[i].answers /\ row.claim = msgs[i].claim
      PROVE  RecordedAnswersAreTheirOwn'
  <2>1. /\ DOMAIN msgs' = DOMAIN msgs /\ msgs'[i] = row
        /\ \A k \in DOMAIN msgs \ {i} : msgs'[k] = msgs[k]
    BY <1>3, <1>7 DEF DemoInv, TypeInv
  <2> SUFFICES ASSUME offline, row.claim, NEW model \in Models
               PROVE  /\ row.answers[model] \in {row.ref, Wildcard, "failed"}
                      /\ Usable /\ recorded[model] # {} =>
                           row.answers[model] \in {row.ref, Wildcard}
                      /\ Usable /\ row.ref \in recorded[model] => row.answers[model] = row.ref
    BY <1>1, <1>2, <2>1 DEF RecordedAnswersAreTheirOwn
  <2>2. CASE row.answers = msgs[i].answers /\ row.claim = msgs[i].claim
    BY <1>7, <2>2 DEF RecordedAnswersAreTheirOwn
  <2>3. CASE row.answers = [model_1 \in Models |-> Recorded(model_1, Client(i))]
    <3>1. row.answers[model] = Recorded(model, row.ref)
      BY <1>7, <2>3 DEF Client
    <3>. QED BY <3>1 DEF Recorded
  <2>. QED BY <1>7, <2>2, <2>3
<1>8. ASSUME NEW i \in DOMAIN msgs, Process(i) \/ ProcessFails(i) \/ Strand(i)
      PROVE  RecordedAnswersAreTheirOwn'
  <2>1. msgs[i] \in Rows
    BY <1>3, ElementOfSeq DEF DemoInv, TypeInv
  <2>2. ASSUME NEW vector \in BOOLEAN, Claimed(i, vector) PROVE RecordedAnswersAreTheirOwn'
    <3>1. PICK answers \in Answers(i) :
            msgs' = [msgs EXCEPT ![i].status = "classified", ![i].claim = TRUE,
                                 ![i].vector = vector, ![i].answers = answers]
      BY <2>2 DEF Claimed
    <3> DEFINE row == [msgs[i] EXCEPT !.status = "classified", !.claim = TRUE,
                                      !.vector = vector, !.answers = answers]
    <3>2. row.ref = msgs[i].ref /\ row.answers = answers /\ row.claim
      BY <2>1 DEF Rows
    <3>3. msgs' = [msgs EXCEPT ![i] = row]
      BY <3>1
    <3>4. offline => answers = [model \in Models |-> Recorded(model, Client(i))]
      BY DEF Answers
    <3> HIDE DEF row
    <3>5. msgs[i].status = "received"
      BY <1>8 DEF Process, ProcessFails, Strand, IsNext, Incoming
    <3>. QED BY <3>2, <3>3, <3>4, <1>7
  <2>3. CASE msgs' = [msgs EXCEPT ![i].status = "dead_letter"]
    <3> DEFINE row == [msgs[i] EXCEPT !.status = "dead_letter"]
    <3>1. /\ row.ref = msgs[i].ref /\ row.answers = msgs[i].answers /\ row.claim = msgs[i].claim
          /\ msgs' = [msgs EXCEPT ![i] = row]
      BY <2>1, <2>3 DEF Rows
    <3> HIDE DEF row
    <3>. QED BY <3>1, <1>7
  <2>4. CASE msgs' = [msgs EXCEPT ![i].queued = FALSE]
    <3> DEFINE row == [msgs[i] EXCEPT !.queued = FALSE]
    <3>1. /\ row.ref = msgs[i].ref /\ row.answers = msgs[i].answers /\ row.claim = msgs[i].claim
          /\ msgs' = [msgs EXCEPT ![i] = row]
      BY <2>1, <2>4 DEF Rows
    <3> HIDE DEF row
    <3>. QED BY <3>1, <1>7
  <2>. QED BY <1>8, <2>2, <2>3, <2>4 DEF Process, ProcessFails, Strand
<1>9. ASSUME NEW r \in Runs, (\E kind \in Kinds : Start(r, kind)) \/ Posted(r) \/ WaitOver(r)
               \/ GiveUp(r) \/ CountClaims(r) \/ Report(r)
      PROVE  RecordedAnswersAreTheirOwn'
  BY <1>9, <1>4 DEF Start, Posted, WaitOver, GiveUp, CountClaims, Report
<1>10. CASE UNCHANGED vars
  BY <1>10, <1>4 DEF vars
<1>. QED BY <1>6, <1>8, <1>9, <1>10 DEF Next, Seeding

\* Offline, every answer is its own message's record, or the wildcard's.
THEOREM AnswersAreTheirOwn == Spec => []RecordedAnswersAreTheirOwn
<1>1. Init => RecordedAnswersAreTheirOwn
  BY DEF Init, RecordedAnswersAreTheirOwn
<1>2. DemoInv /\ RecordedAnswersAreTheirOwn /\ [Next]_vars => RecordedAnswersAreTheirOwn'
  BY AnswersStep
<1>. QED BY <1>1, <1>2, Invariance, PTL DEF Spec
===============================================================================

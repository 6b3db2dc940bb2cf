----------------------- MODULE EmbeddingBackfill_proofs -----------------------
(***************************************************************************)
(* Theorems about EmbeddingBackfill, for every set of claims, every batch   *)
(* size, and every number of overlapping runs.                              *)
(***************************************************************************)
EXTENDS EmbeddingBackfill, FiniteSetTheorems, TLAPS

Visits(r) == run[r].selected \ run[r].left

\* What holds of a run between its select and its end.
\* Visits go up in id order, and only visited claims are pending or failed.
OrderInv(r) ==
    /\ run[r].model \in Models
    /\ run[r].selected \subseteq arrived
    /\ run[r].left \subseteq run[r].selected
    /\ Pending(r) \cup run[r].failed \subseteq Visits(r)
    /\ \A c \in run[r].left, d \in Visits(r) : d < c

\* A claim that was visited, and neither skipped nor failed, has a vector, or
\* will with the next commit.
ReachedInv(r) ==
    \A c \in Visits(r) \ (Flagged \cup Blank \cup run[r].failed) :
        /\ c \in Pending(r) \/ vector[c] # "none"
        /\ r \in alone => c \in Pending(r) \/ vector[c] = run[r].model

\* A run that nothing overlaps finds the rows as its select saw them.
AloneInv(r) ==
    r \in alone =>
        /\ \A s \in Runs \ {r} : ~Active(s)
        /\ ~run[r].force => /\ run[r].updates = {}
                            /\ \A c \in run[r].left : vector[c] = "none"

RunInv(r) == Active(r) => OrderInv(r) /\ ReachedInv(r) /\ AloneInv(r)

IdleInv(r) == ~Active(r) => Pending(r) = {}

IInv == TypeOK /\ \A r \in Runs : RunInv(r) /\ IdleInv(r)

LEMMA InitInv == Init => IInv
BY DEF Init, IInv, TypeOK, RunInv, IdleInv, Active, Pending, NoRun, Run, Phases

\* A run's session changes, and no other.
LEMMA BecomesOnly ==
  ASSUME TypeOK, NEW r \in Runs, NEW session \in Run, Becomes(r, session)
  PROVE  /\ run' \in [Runs -> Run] /\ run'[r] = session
         /\ \A s \in Runs \ {r} : run'[s] = run[s]
BY DEF TypeOK, Becomes

\* What a run knows stays true when nothing but another run's session changes.
LEMMA OthersKeep ==
  ASSUME NEW s \in Runs, RunInv(s), IdleInv(s), run'[s] = run[s],
         UNCHANGED <<arrived, vector>>, s \in alone' => s \in alone,
         Active(s) /\ s \in alone' => \A t \in Runs \ {s} : ~Active(t)'
  PROVE  RunInv(s)' /\ IdleInv(s)'
BY DEF RunInv, IdleInv, Active, Pending, Visits, OrderInv, ReachedInv, AloneInv

LEMMA ArriveInv == ASSUME IInv, NEW c \in Claims, Arrive(c) PROVE IInv'
<1>1. TypeOK'
  BY DEF IInv, TypeOK, Arrive
<1>2. ASSUME NEW r \in Runs PROVE RunInv(r)' /\ IdleInv(r)'
  <2>1. RunInv(r) /\ IdleInv(r)
    BY DEF IInv
  <2>2. \A d \in arrived : d # c /\ vector'[d] = vector[d]
    BY DEF IInv, TypeOK, Arrive
  <2>3. UNCHANGED <<run, alone>> /\ arrived \subseteq arrived'
    BY DEF Arrive
  <2>. QED BY <2>1, <2>2, <2>3
           DEF RunInv, IdleInv, Active, Pending, Visits, OrderInv, ReachedInv, AloneInv
<1>. QED BY <1>1, <1>2 DEF IInv

\* A select: rows that exist, and without --force only such as have no vector.
LEMMA StartSelects ==
  ASSUME NEW r \in Runs, Start(r)
  PROVE  \E m \in Models, force \in BOOLEAN, selected \in SUBSET arrived :
            /\ ~force => \A c \in selected : vector[c] = "none"
            /\ Becomes(r, [NoRun EXCEPT !.phase = "loop", !.model = m, !.force = force,
                                        !.selected = selected, !.left = selected])
<1> PICK m \in Models, force \in BOOLEAN, last \in Claims :
       LET selected == {c \in Wanted(force) : c <= last} IN
       Becomes(r, [NoRun EXCEPT !.phase = "loop", !.model = m, !.force = force,
                                !.selected = selected, !.left = selected])
  BY DEF Start
<1> DEFINE selected == {c \in Wanted(force) : c <= last}
<1>1. \A c \in selected : c \in arrived /\ (~force => vector[c] = "none")
  BY DEF Wanted
<1>2. Becomes(r, [NoRun EXCEPT !.phase = "loop", !.model = m, !.force = force,
                               !.selected = selected, !.left = selected])
  OBVIOUS
<1> HIDE DEF selected
<1>. QED BY <1>1, <1>2

LEMMA StartInv == ASSUME IInv, NEW r \in Runs, Start(r) PROVE IInv'
<1> PICK m \in Models, force \in BOOLEAN, selected \in SUBSET arrived :
       /\ ~force => \A c \in selected : vector[c] = "none"
       /\ Becomes(r, [NoRun EXCEPT !.phase = "loop", !.model = m, !.force = force,
                                   !.selected = selected, !.left = selected])
  BY StartSelects
<1> DEFINE session == [NoRun EXCEPT !.phase = "loop", !.model = m, !.force = force,
                                   !.selected = selected, !.left = selected]
<1>0. TypeOK
  BY DEF IInv
<1>1. /\ selected \subseteq arrived /\ arrived \subseteq Claims
      /\ ~force => \A c \in selected : vector[c] = "none"
  BY <1>0 DEF TypeOK
<1>2. session \in Run /\ Becomes(r, session)
  <2>1. selected \in SUBSET Claims
    BY <1>1
  <2>2. session \in Run
    BY <2>1 DEF NoRun, Run, Phases
  <2>. QED BY <2>2
<1>3. /\ run' \in [Runs -> Run] /\ run'[r] = session
      /\ \A s \in Runs \ {r} : run'[s] = run[s]
  BY <1>0, <1>2, BecomesOnly
<1>4. /\ UNCHANGED <<arrived, vector>> /\ ~Active(r)
      /\ r \in alone' => \A s \in Runs \ {r} : ~Active(s)
      /\ \A s \in Runs \ {r} : (s \in alone' => s \in alone) /\ (Active(s) => s \notin alone')
      /\ alone' \subseteq Runs
  BY <1>0 DEF Start, TypeOK
<1>5. TypeOK'
  BY <1>0, <1>3, <1>4 DEF TypeOK
<1>6. RunInv(r)' /\ IdleInv(r)'
  <2>0. /\ run'[r].model = m /\ run'[r].force = force /\ run'[r].selected = selected
        /\ run'[r].left = selected /\ run'[r].inserts = {} /\ run'[r].updates = {}
        /\ run'[r].failed = {}
    BY <1>3 DEF NoRun
  <2> HIDE DEF session
  <2>1. \A s \in Runs \ {r} : Active(s)' = Active(s)
    BY <1>3 DEF Active
  <2>2. OrderInv(r)' /\ ReachedInv(r)' /\ IdleInv(r)'
    BY <1>1, <1>4, <2>0 DEF OrderInv, ReachedInv, IdleInv, Visits, Pending
  <2>3. AloneInv(r)'
    BY <1>1, <1>4, <2>0, <2>1 DEF AloneInv
  <2>. QED BY <2>2, <2>3 DEF RunInv
<1>7. ASSUME NEW s \in Runs \ {r} PROVE RunInv(s)' /\ IdleInv(s)'
  BY <1>3, <1>4, <1>7, OthersKeep DEF IInv
<1>. QED BY <1>5, <1>6, <1>7 DEF IInv

\* The end of an iteration: the claim whose turn it was is visited, and skipped,
\* failed, or in the session.
LEMMA VisitInv ==
  ASSUME IInv, NEW r \in Runs, NEW c \in Claims, Turn(r, c), NEW session \in Run,
         Becomes(r, session), UNCHANGED <<arrived, vector, alone>>,
         session.model = run[r].model, session.force = run[r].force,
         session.selected = run[r].selected, session.left = run[r].left \ {c},
         session.phase \in {"loop", "batch"},
         session.inserts \cup session.updates \cup session.failed
            \subseteq Pending(r) \cup run[r].failed \cup {c},
         Pending(r) \subseteq session.inserts \cup session.updates,
         run[r].failed \subseteq session.failed,
         session.updates # run[r].updates => vector[c] # "none",
         c \in Flagged \cup Blank \cup session.failed \cup session.inserts \cup session.updates
  PROVE  IInv'
<1>0. TypeOK /\ RunInv(r) /\ Active(r)
  BY DEF IInv, Turn, Active
<1>1. /\ run' \in [Runs -> Run] /\ run'[r] = session
      /\ \A s \in Runs \ {r} : run'[s] = run[s]
  BY <1>0, BecomesOnly
<1>2. \A s \in Runs : Active(s)' = Active(s)
  BY <1>0, <1>1 DEF Active
<1>3. TypeOK'
  BY <1>0, <1>1 DEF TypeOK
<1>4. OrderInv(r) /\ ReachedInv(r) /\ AloneInv(r)
  BY <1>0 DEF RunInv
<1>5. /\ c \in run[r].left /\ c \in run[r].selected
      /\ \A d \in run[r].left : c <= d /\ d \in Nat /\ c \in Nat
  BY <1>0, <1>4, ClaimsAssumption DEF Turn, OrderInv, TypeOK
<1>6. Visits(r)' = Visits(r) \cup {c}
  BY <1>1, <1>5 DEF Visits
<1>7. OrderInv(r)'
  BY <1>1, <1>4, <1>5, <1>6 DEF OrderInv, Pending
<1>8. ReachedInv(r)'
  BY <1>1, <1>4, <1>6 DEF ReachedInv, Pending
<1>9. AloneInv(r)'
  BY <1>1, <1>2, <1>4, <1>5 DEF AloneInv
<1>10. RunInv(r)' /\ IdleInv(r)'
  BY <1>0, <1>2, <1>7, <1>8, <1>9 DEF RunInv, IdleInv
<1>11. ASSUME NEW s \in Runs \ {r} PROVE RunInv(s)' /\ IdleInv(s)'
  BY <1>1, <1>2, <1>11, OthersKeep DEF IInv, RunInv, AloneInv
<1>. QED BY <1>3, <1>10, <1>11 DEF IInv

LEMMA SkipInv == ASSUME IInv, NEW r \in Runs, NEW c \in Claims, Skip(r, c) PROVE IInv'
<1> DEFINE session == [run[r] EXCEPT !.left = @ \ {c}]
<1>1. run[r] \in Run
  BY DEF IInv, TypeOK
<1>2. session \in Run
  BY <1>1 DEF Run
<1>3. /\ session.model = run[r].model /\ session.force = run[r].force
      /\ session.selected = run[r].selected /\ session.left = run[r].left \ {c}
      /\ session.phase = run[r].phase /\ session.failed = run[r].failed
      /\ session.inserts = run[r].inserts /\ session.updates = run[r].updates
  BY <1>1 DEF Run
<1>4. Turn(r, c) /\ Becomes(r, session) /\ UNCHANGED <<arrived, vector, alone>>
      /\ c \in Flagged \cup Blank /\ run[r].phase = "loop"
  BY DEF Skip, Turn
<1> HIDE DEF session
<1>. QED BY <1>2, <1>3, <1>4, VisitInv DEF Pending

LEMMA EmbedInv == ASSUME IInv, NEW r \in Runs, NEW c \in Claims, Embed(r, c) PROVE IInv'
<1> DEFINE phase == IF Due(r) THEN "batch" ELSE "loop"
           inserts == IF vector[c] = "none" THEN run[r].inserts \cup {c} ELSE run[r].inserts
           updates == IF vector[c] = "none" THEN run[r].updates ELSE run[r].updates \cup {c}
           session == [run[r] EXCEPT !.left = @ \ {c}, !.phase = phase,
                                     !.inserts = inserts, !.updates = updates]
<1>1. run[r] \in Run
  BY DEF IInv, TypeOK
<1>2. session \in Run
  BY <1>1 DEF Run, Phases
<1>3. Turn(r, c) /\ UNCHANGED <<arrived, vector, alone>> /\ phase \in {"loop", "batch"}
  BY DEF Embed, Visited
<1>4. Becomes(r, session)
  <2>1. [[run[r] EXCEPT !.inserts = @ \cup {c}] EXCEPT !.left = @ \ {c}, !.phase = phase]
          = [run[r] EXCEPT !.left = @ \ {c}, !.phase = phase, !.inserts = run[r].inserts \cup {c},
                           !.updates = run[r].updates]
    BY <1>1 DEF Run
  <2>2. [[run[r] EXCEPT !.updates = @ \cup {c}] EXCEPT !.left = @ \ {c}, !.phase = phase]
          = [run[r] EXCEPT !.left = @ \ {c}, !.phase = phase, !.inserts = run[r].inserts,
                           !.updates = run[r].updates \cup {c}]
    BY <1>1 DEF Run
  <2>3. CASE vector[c] = "none"
    BY <2>1, <2>3 DEF Embed, Visited
  <2>4. CASE vector[c] # "none"
    BY <2>2, <2>4 DEF Embed, Visited
  <2>. QED BY <2>3, <2>4
<1>5. /\ session.model = run[r].model /\ session.force = run[r].force
      /\ session.selected = run[r].selected /\ session.left = run[r].left \ {c}
      /\ session.phase = phase /\ session.failed = run[r].failed
      /\ session.inserts = inserts /\ session.updates = updates
  BY <1>1 DEF Run
<1>6. /\ inserts \cup updates = Pending(r) \cup {c}
      /\ updates # run[r].updates => vector[c] # "none"
  BY DEF Pending
<1> HIDE DEF session, phase, inserts, updates
<1>. QED BY <1>2, <1>3, <1>4, <1>5, <1>6, VisitInv

LEMMA EmbedFailsInv == ASSUME IInv, NEW r \in Runs, NEW c \in Claims, EmbedFails(r, c) PROVE IInv'
<1> PICK broken \in {run[r].broken, TRUE} :
       Visited(r, c, [run[r] EXCEPT !.failed = @ \cup {c}, !.broken = broken])
  BY DEF EmbedFails
<1> DEFINE phase == IF Due(r) THEN "batch" ELSE "loop"
           session == [run[r] EXCEPT !.left = @ \ {c}, !.phase = phase,
                                     !.failed = @ \cup {c}, !.broken = broken]
<1>1. run[r] \in Run /\ broken \in BOOLEAN
  BY DEF IInv, TypeOK, Run
<1>2. session \in Run
  BY <1>1 DEF Run, Phases
<1>3. Turn(r, c) /\ UNCHANGED <<arrived, vector, alone>> /\ phase \in {"loop", "batch"}
  BY DEF Visited
<1>4. Becomes(r, session)
  <2>1. [[run[r] EXCEPT !.failed = @ \cup {c}, !.broken = broken]
            EXCEPT !.left = @ \ {c}, !.phase = phase] = session
    BY <1>1 DEF Run
  <2>. QED BY <2>1 DEF Visited
<1>5. /\ session.model = run[r].model /\ session.force = run[r].force
      /\ session.selected = run[r].selected /\ session.left = run[r].left \ {c}
      /\ session.phase = phase /\ session.failed = run[r].failed \cup {c}
      /\ session.inserts = run[r].inserts /\ session.updates = run[r].updates
  BY <1>1 DEF Run
<1> HIDE DEF session, phase
<1>. QED BY <1>2, <1>3, <1>4, <1>5, VisitInv DEF Pending

\* A commit that is not refused: a run that is alone is the only writer, and
\* nothing that had a vector loses it.
LEMMA CommitInv == ASSUME IInv, NEW r \in Runs, Commit(r) PROVE IInv'
<1> DEFINE phase == IF run[r].phase = "batch" THEN "loop" ELSE "done"
           session == [run[r] EXCEPT !.inserts = {}, !.updates = {}, !.broken = FALSE,
                                     !.phase = phase]
<1>0. TypeOK /\ RunInv(r) /\ Active(r)
  BY DEF IInv, Commit, AtCommit, Active
<1>1. run[r] \in Run /\ session \in Run
  BY <1>0 DEF TypeOK, Run, Phases
<1>2. Becomes(r, session)
  BY DEF Commit
<1>3. /\ session.model = run[r].model /\ session.force = run[r].force
      /\ session.selected = run[r].selected /\ session.left = run[r].left
      /\ session.phase = phase /\ session.failed = run[r].failed
      /\ session.inserts = {} /\ session.updates = {}
  BY <1>1 DEF Run
<1> HIDE DEF session
<1>4. /\ run' \in [Runs -> Run] /\ run'[r] = session
      /\ \A s \in Runs \ {r} : run'[s] = run[s]
  BY <1>0, <1>1, <1>2, BecomesOnly
<1>5. OrderInv(r) /\ ReachedInv(r) /\ AloneInv(r)
  BY <1>0 DEF RunInv
<1>6. /\ UNCHANGED <<arrived, alone>>
      /\ run[r].model \in Models /\ Pending(r) \subseteq arrived
      /\ \A c \in Claims : vector'[c] = IF c \in Pending(r) THEN run[r].model ELSE vector[c]
      /\ vector' \in [Claims -> Models \cup {"none"}]
  BY <1>0, <1>5 DEF Commit, OrderInv, Visits, TypeOK
<1>7. TypeOK'
  BY <1>0, <1>4, <1>6 DEF TypeOK
<1>8. \A c \in Claims : vector[c] # "none" => vector'[c] # "none"
  BY <1>6, ModelsAssumption
<1>9. RunInv(r)' /\ IdleInv(r)'
  <2>1. Visits(r)' = Visits(r) /\ Pending(r)' = {} /\ arrived \subseteq Claims
        /\ Visits(r) \subseteq Claims
    BY <1>0, <1>3, <1>4, <1>5 DEF Visits, Pending, OrderInv, TypeOK
  <2>2. OrderInv(r)'
    BY <1>3, <1>4, <1>5, <1>6, <2>1 DEF OrderInv
  <2>3. ReachedInv(r)'
    BY <1>3, <1>4, <1>5, <1>6, <1>8, <2>1, ModelsAssumption DEF ReachedInv
  <2>4. AloneInv(r)'
    <3>1. \A s \in Runs \ {r} : Active(s)' = Active(s)
      BY <1>4 DEF Active
    <3>2. \A c \in run[r].left : c \in Claims /\ vector'[c] = vector[c]
      BY <1>0, <1>5, <1>6 DEF OrderInv, Visits, TypeOK
    <3>. QED BY <1>3, <1>4, <1>5, <1>6, <3>1, <3>2 DEF AloneInv
  <2>. QED BY <2>1, <2>2, <2>3, <2>4 DEF RunInv, IdleInv
<1>10. ASSUME NEW s \in Runs \ {r} PROVE RunInv(s)' /\ IdleInv(s)'
  <2>1. RunInv(s) /\ IdleInv(s) /\ run'[s] = run[s] /\ Active(s)' = Active(s)
    BY <1>4 DEF IInv, Active
  <2>2. CASE ~Active(s)
    BY <2>1, <2>2 DEF RunInv, IdleInv, Active, Pending
  <2>3. CASE Active(s)
    <3>1. s \notin alone
      BY <1>0, <2>1, <2>3 DEF RunInv, AloneInv
    <3>2. Visits(s) \subseteq Claims /\ Visits(s)' = Visits(s) /\ Pending(s)' = Pending(s)
      BY <1>0, <2>1, <2>3 DEF RunInv, OrderInv, Visits, Pending, TypeOK
    <3>. QED BY <1>6, <1>8, <2>1, <2>3, <3>1, <3>2
             DEF RunInv, IdleInv, OrderInv, ReachedInv, AloneInv
  <2>. QED BY <2>2, <2>3
<1>. QED BY <1>7, <1>9, <1>10 DEF IInv

LEMMA DieInv == ASSUME IInv, NEW r \in Runs, Die(r) PROVE IInv'
<1> DEFINE session == [NoRun EXCEPT !.phase = "died"]
<1>0. TypeOK
  BY DEF IInv
<1>1. session \in Run /\ session.phase = "died" /\ session.inserts = {} /\ session.updates = {}
  BY DEF NoRun, Run, Phases
<1>2. Becomes(r, session) /\ UNCHANGED <<arrived, vector, alone>>
  BY DEF Die
<1> HIDE DEF session
<1>3. /\ run' \in [Runs -> Run] /\ run'[r] = session
      /\ \A s \in Runs \ {r} : run'[s] = run[s]
  BY <1>0, <1>1, <1>2, BecomesOnly
<1>4. TypeOK'
  BY <1>0, <1>2, <1>3 DEF TypeOK
<1>5. RunInv(r)' /\ IdleInv(r)'
  BY <1>1, <1>3 DEF RunInv, IdleInv, Active, Pending
<1>6. \A s \in Runs : Active(s)' => Active(s)
  BY <1>1, <1>3 DEF Active
<1>7. ASSUME NEW s \in Runs \ {r} PROVE RunInv(s)' /\ IdleInv(s)'
  BY <1>2, <1>3, <1>6, <1>7, OthersKeep DEF IInv, RunInv, AloneInv
<1>. QED BY <1>4, <1>5, <1>7 DEF IInv

LEMMA NextInv == IInv /\ [Next]_vars => IInv'
<1> SUFFICES ASSUME IInv, [Next]_vars PROVE IInv'
  OBVIOUS
<1>1. CASE UNCHANGED vars
  BY <1>1 DEF vars, IInv, TypeOK, RunInv, IdleInv, Active, Pending, Visits, OrderInv, ReachedInv,
              AloneInv
<1>2. CASE Next
  BY <1>2, ArriveInv, StartInv, SkipInv, EmbedInv, EmbedFailsInv, CommitInv, DieInv
  DEF Next, Backfill
<1>. QED BY <1>1, <1>2

\* The inductive invariant holds in every reachable state.
THEOREM Invariance == Spec => []IInv
BY InitInv, NextInv, PTL DEF Spec

\* Every variable stays in its range.
THEOREM TypeCorrect == Spec => []TypeOK
<1>1. IInv => TypeOK
  BY DEF IInv
<1>. QED BY <1>1, Invariance, PTL

\* A run that ends without an error has left no claim it tried behind, whatever
\* other runs and the worker did meanwhile.
THEOREM FinishedRunsReached == Spec => FinishedRunReached
<1>1. IInv /\ IInv' /\ [Next]_vars =>
        [\A r \in Runs : Finishes(r) =>
           \A c \in run[r].selected \ (Flagged \cup Blank \cup run[r].failed) :
              /\ vector'[c] # "none"
              /\ r \in alone => vector'[c] = run[r].model]_vars
  <2> SUFFICES ASSUME IInv, Next, NEW r \in Runs, Finishes(r),
                      NEW c \in run[r].selected \ (Flagged \cup Blank \cup run[r].failed)
               PROVE  vector'[c] # "none" /\ (r \in alone => vector'[c] = run[r].model)
    BY DEF vars, Finishes
  <2>1. Commit(r)
    <3>1. ASSUME NEW s \in Runs, NEW session, Becomes(s, session), session.phase # "done"
          PROVE  FALSE
      <4>1. run'[r] = run[r] \/ run'[r] = session
        BY <3>1 DEF IInv, TypeOK, Becomes
      <4>. QED BY <3>1, <4>1 DEF Finishes
    <3>2. ASSUME NEW s \in Runs, Commit(s) PROVE s = r
      BY <3>2 DEF IInv, TypeOK, Commit, Becomes, Finishes
    <3>3. ASSUME NEW s \in Runs, Backfill(s) PROVE Commit(s)
      <4>1. CASE Start(s) \/ Die(s)
        BY <3>1, <4>1, StartSelects DEF Die, NoRun
      <4>2. ASSUME NEW d \in Claims, Skip(s, d) PROVE FALSE
        BY <3>1, <4>2 DEF IInv, TypeOK, Run, Skip, Turn
      <4>3. ASSUME NEW d \in Claims, NEW session \in Run, Visited(s, d, session) PROVE FALSE
        BY <3>1, <4>3 DEF Visited, Run
      <4>4. ASSUME NEW d \in Claims, Embed(s, d) \/ EmbedFails(s, d) PROVE FALSE
        <5>1. run[s] \in Run
          BY DEF IInv, TypeOK
        <5>2. /\ [run[s] EXCEPT !.inserts = @ \cup {d}] \in Run
              /\ [run[s] EXCEPT !.updates = @ \cup {d}] \in Run
              /\ \A broken \in BOOLEAN :
                    [run[s] EXCEPT !.failed = @ \cup {d}, !.broken = broken] \in Run
          BY <5>1 DEF Run
        <5>3. {run[s].broken, TRUE} \subseteq BOOLEAN
          BY <5>1 DEF Run
        <5>. QED BY <4>3, <4>4, <5>2, <5>3 DEF Embed, EmbedFails
      <4>. QED BY <3>3, <4>1, <4>2, <4>4 DEF Backfill
    <3>4. ASSUME NEW d \in Claims, Arrive(d) PROVE FALSE
      BY <3>4 DEF Arrive, Finishes
    <3>. QED BY <3>2, <3>3, <3>4 DEF Next
  <2>2. run[r].phase = "loop" /\ run[r].left = {}
    BY <2>1 DEF IInv, TypeOK, Commit, AtCommit, Becomes, Finishes
  <2>3. OrderInv(r) /\ ReachedInv(r)
    BY <2>2 DEF IInv, RunInv, Active
  <2>4. c \in Visits(r) /\ c \in Claims
    BY <2>2, <2>3 DEF Visits, OrderInv, IInv, TypeOK
  <2>5. vector'[c] = IF c \in Pending(r) THEN run[r].model ELSE vector[c]
    BY <2>1, <2>4 DEF Commit
  <2>. QED BY <2>3, <2>4, <2>5, ModelsAssumption DEF ReachedInv, OrderInv
<1>. QED BY <1>1, Invariance, PTL DEF Spec, FinishedRunReached

\* Without --force only overlapping runs replace a vector.
THEOREM OnlyForceReplacesVectors == Spec => OnlyForceReplaces
<1>1. IInv /\ [Next]_vars =>
        [\A c \in Claims : vector[c] # "none" /\ vector'[c] # vector[c] =>
            \E r \in Runs : c \in Pending(r) /\ (run[r].force \/ r \notin alone)]_vars
  <2> SUFFICES ASSUME IInv, Next, NEW c \in Claims, vector[c] # "none", vector'[c] # vector[c]
               PROVE  \E r \in Runs : c \in Pending(r) /\ (run[r].force \/ r \notin alone)
    BY DEF vars
  <2>1. ASSUME NEW d \in Claims, Arrive(d) PROVE FALSE
    BY <2>1 DEF IInv, TypeOK, Arrive
  <2>2. PICK r \in Runs : Commit(r)
    BY <2>1
    DEF Next, Backfill, Start, Die, Skip, Embed, EmbedFails, Visited
  <2>3. c \in Pending(r) /\ c \notin run[r].inserts
    BY <2>2 DEF Commit, Refused
  <2>4. AloneInv(r)
    BY <2>2 DEF IInv, RunInv, Commit, AtCommit, Active
  <2>. QED BY <2>3, <2>4 DEF AloneInv, Pending
<1>. QED BY <1>1, Invariance, PTL DEF Spec, OnlyForceReplaces

-----------------------------------------------------------------------------
(* Batches.                                                                 *)

\* The claim whose turn it is stands right behind those that were visited, so
\* its position is what the loop counts.
LEMMA TurnPosition ==
  ASSUME IInv, NEW r \in Runs, NEW c \in Claims, Turn(r, c)
  PROVE  /\ Due(r) <=> Position(r, c) % CommitEvery = 0
         /\ \A b \in Boundaries(r) : b < c
<1>1. /\ OrderInv(r) /\ run[r].selected \subseteq Claims /\ Claims \subseteq Nat
      /\ c \in run[r].left /\ \A d \in run[r].left : c <= d
  BY ClaimsAssumption DEF IInv, RunInv, Active, Turn, TypeOK, Run
<1>2. {d \in run[r].selected : d <= c} = Visits(r) \cup {c}
  <2>1. ASSUME NEW d \in run[r].selected PROVE d <= c <=> d \in Visits(r) \cup {c}
    <3>1. d \in Nat /\ c \in Nat /\ (d \in run[r].left => c <= d) /\ (d \in Visits(r) => d < c)
      BY <1>1 DEF OrderInv
    <3>. QED BY <1>1, <3>1 DEF Visits
  <2>2. Visits(r) \cup {c} \subseteq run[r].selected
    BY <1>1 DEF OrderInv, Visits
  <2>. QED BY <2>1, <2>2
<1>3. IsFiniteSet(Visits(r)) /\ c \notin Visits(r)
  BY <1>1, ClaimsAssumption, FS_Subset DEF Visits
<1>4. Cardinality(Visits(r) \cup {c}) = Cardinality(Visits(r)) + 1
  BY <1>3, FS_AddElement
<1>5. Due(r) <=> Position(r, c) % CommitEvery = 0
  BY <1>2, <1>4 DEF Due, Position, Visits
<1>6. \A b \in Boundaries(r) : b < c
  BY <1>1 DEF Boundaries, OrderInv, Visits
<1>. QED BY <1>5, <1>6

\* A visit adds a boundary only where a commit is due, and only its own claim.
LEMMA VisitBatches ==
  ASSUME IInv, BatchesSurvive, NEW r \in Runs, NEW c \in Claims, Turn(r, c),
         run'[r].selected = run[r].selected, run'[r].left = run[r].left \ {c},
         Pending(r)' \subseteq Pending(r) \cup {c},
         \/ c \in Flagged \cup Blank /\ Pending(r)' = Pending(r)
         \/ ~Due(r)
  PROVE  \A p \in Pending(r)', b \in Boundaries(r)' : b < p
<1>1. \A p \in Pending(r), b \in Boundaries(r) : b < p
  BY DEF BatchesSurvive, Turn
<1>2. /\ Due(r) <=> Position(r, c) % CommitEvery = 0
      /\ \A b \in Boundaries(r) : b < c
  BY TurnPosition
<1>3. \A b : Position(r, b)' = Position(r, b)
  BY DEF Position
<1>4. Boundaries(r)' \subseteq Boundaries(r) \cup {c}
  BY <1>3 DEF Boundaries
<1>5. c \notin Boundaries(r)' \/ (c \notin Flagged \cup Blank /\ Due(r))
  BY <1>2, <1>3 DEF Boundaries
<1>6. CASE c \in Flagged \cup Blank /\ Pending(r)' = Pending(r)
  BY <1>1, <1>4, <1>5, <1>6
<1>7. CASE ~Due(r)
  BY <1>1, <1>2, <1>4, <1>5, <1>7
<1>. QED BY <1>6, <1>7

LEMMA NextBatches == IInv /\ BatchesSurvive /\ [Next]_vars => BatchesSurvive'
<1> SUFFICES ASSUME IInv, BatchesSurvive, [Next]_vars, NEW r \in Runs, run'[r].phase = "loop"
             PROVE  \A p \in Pending(r)', b \in Boundaries(r)' : b < p
  BY DEF BatchesSurvive
<1>1. CASE run'[r] = run[r]
  <2>1. Pending(r)' = Pending(r) /\ Boundaries(r)' = Boundaries(r)
    BY <1>1 DEF Pending, Boundaries, Position
  <2>. QED BY <1>1, <2>1 DEF BatchesSurvive
<1>2. ASSUME NEW s \in Runs, NEW session, Becomes(s, session), s # r
      PROVE  run'[r] = run[r]
  BY <1>2 DEF Becomes, IInv, TypeOK
<1>3. run[r] \in Run /\ \A session : Becomes(r, session) => run'[r] = session
  BY DEF Becomes, IInv, TypeOK
<1>4. CASE Start(r)
  <2>1. Pending(r)' = {}
    BY <1>3, <1>4, StartSelects DEF Pending, NoRun
  <2>. QED BY <2>1
<1>5. CASE Commit(r)
  <2>1. Pending(r)' = {}
    BY <1>3, <1>5 DEF Commit, Pending, Run
  <2>. QED BY <2>1
<1>6. CASE Die(r)
  BY <1>3, <1>6 DEF Die, NoRun
<1>7. ASSUME NEW c \in Claims, Skip(r, c)
      PROVE  \A p \in Pending(r)', b \in Boundaries(r)' : b < p
  <2>1. /\ Turn(r, c) /\ c \in Flagged \cup Blank
        /\ run'[r] = [run[r] EXCEPT !.left = @ \ {c}]
    BY <1>3, <1>7 DEF Skip
  <2>2. /\ run'[r].selected = run[r].selected /\ run'[r].left = run[r].left \ {c}
        /\ Pending(r)' = Pending(r)
    BY <1>3, <2>1 DEF Run, Pending
  <2>. QED BY <2>1, <2>2, VisitBatches
<1>8. ASSUME NEW c \in Claims, NEW session \in Run, Visited(r, c, session),
             session.selected = run[r].selected, session.left = run[r].left,
             session.inserts \cup session.updates \subseteq Pending(r) \cup {c}
      PROVE  \A p \in Pending(r)', b \in Boundaries(r)' : b < p
  <2>1. /\ Turn(r, c)
        /\ run'[r] = [session EXCEPT !.left = @ \ {c}, !.phase = IF Due(r) THEN "batch" ELSE "loop"]
    BY <1>3, <1>8 DEF Visited
  <2>2. /\ run'[r].selected = run[r].selected /\ run'[r].left = run[r].left \ {c}
        /\ Pending(r)' \subseteq Pending(r) \cup {c} /\ ~Due(r)
    BY <1>8, <2>1 DEF Run, Pending
  <2>. QED BY <2>1, <2>2, VisitBatches
<1>9. ASSUME NEW c \in Claims, Embed(r, c) \/ EmbedFails(r, c)
      PROVE  \A p \in Pending(r)', b \in Boundaries(r)' : b < p
  <2>1. /\ [run[r] EXCEPT !.inserts = @ \cup {c}] \in Run
        /\ [run[r] EXCEPT !.updates = @ \cup {c}] \in Run
        /\ \A broken \in BOOLEAN : [run[r] EXCEPT !.failed = @ \cup {c}, !.broken = broken] \in Run
        /\ {run[r].broken, TRUE} \subseteq BOOLEAN
    BY <1>3 DEF Run
  <2>2. CASE Embed(r, c)
    <3>1. PICK session \in {[run[r] EXCEPT !.inserts = @ \cup {c}], [run[r] EXCEPT !.updates = @ \cup {c}]} :
             Visited(r, c, session)
      BY <2>2 DEF Embed
    <3>2. session \in Run
      BY <2>1
    <3>3. CASE session = [run[r] EXCEPT !.inserts = @ \cup {c}]
      <4>1. /\ session.selected = run[r].selected /\ session.left = run[r].left
            /\ session.inserts \cup session.updates \subseteq Pending(r) \cup {c}
        BY <1>3, <3>3 DEF Run, Pending
      <4>. QED BY <1>8, <3>1, <3>2, <4>1
    <3>4. CASE session = [run[r] EXCEPT !.updates = @ \cup {c}]
      <4>1. /\ session.selected = run[r].selected /\ session.left = run[r].left
            /\ session.inserts \cup session.updates \subseteq Pending(r) \cup {c}
        BY <1>3, <3>4 DEF Run, Pending
      <4>. QED BY <1>8, <3>1, <3>2, <4>1
    <3>. QED BY <3>3, <3>4
  <2>3. CASE EmbedFails(r, c)
    <3>1. PICK broken \in BOOLEAN : Visited(r, c, [run[r] EXCEPT !.failed = @ \cup {c}, !.broken = broken])
      BY <2>1, <2>3 DEF EmbedFails
    <3> DEFINE session == [run[r] EXCEPT !.failed = @ \cup {c}, !.broken = broken]
    <3>2. session \in Run
      BY <2>1
    <3>3. /\ session.selected = run[r].selected /\ session.left = run[r].left
          /\ session.inserts \cup session.updates \subseteq Pending(r) \cup {c}
      BY <1>3 DEF Run, Pending
    <3> HIDE DEF session
    <3>. QED
      <4>1. Visited(r, c, session)
        BY <3>1 DEF session
      <4>. QED BY <1>8, <3>2, <3>3, <4>1
  <2>. QED BY <1>9, <2>2, <2>3
<1>10. ASSUME NEW s \in Runs, Backfill(s), s # r PROVE run'[r] = run[r]
  BY <1>2, <1>10 DEF Backfill, Start, Commit, Die, Skip, Embed, EmbedFails, Visited
<1>11. CASE UNCHANGED run
  BY <1>1, <1>11
<1>12. CASE Backfill(r)
  BY <1>4, <1>5, <1>6, <1>7, <1>9, <1>12 DEF Backfill
<1>13. UNCHANGED run \/ \E s \in Runs : Backfill(s)
  BY DEF Next, vars, Arrive
<1>. QED BY <1>1, <1>10, <1>11, <1>12, <1>13

\* A run that dies loses nothing it embedded before a batch boundary at which
\* the claim was not skipped.
THEOREM BatchesAreKept == Spec => []BatchesSurvive
<1>1. Init => BatchesSurvive
  BY DEF Init, BatchesSurvive, NoRun
<1>. QED BY <1>1, NextBatches, Invariance, PTL DEF Spec
=============================================================================

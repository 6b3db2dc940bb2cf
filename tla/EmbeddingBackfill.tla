-------------------------- MODULE EmbeddingBackfill --------------------------
(***************************************************************************)
(* scripts/backfill_embeddings.py next to the worker: a run selects claims  *)
(* once, visits them in id order, keeps the vectors in its session and      *)
(* commits them in batches.  Several runs may overlap, by hand or from a    *)
(* second container, and a run may die between any two statements.          *)
(*                                                                          *)
(* store_embedding reads claim_embeddings when it visits a claim and        *)
(* decides there between an insert and an update; the statement itself is   *)
(* sent with the batch, so the two can be far apart.                        *)
(***************************************************************************)
EXTENDS Naturals, FiniteSets

CONSTANTS
    Claims,      \* claim ids
    Flagged,     \* claims with masking sanity flags
    Blank,       \* claims whose masked_text is empty
    Models,      \* what EMBED_MODEL may name
    Runs,        \* invocations of the script, each of which may be repeated
    CommitEvery  \* COMMIT_EVERY

ASSUME ClaimsAssumption ==
    Claims \subseteq Nat /\ IsFiniteSet(Claims) /\ Flagged \subseteq Claims /\ Blank \subseteq Claims

ASSUME ModelsAssumption == "none" \notin Models

ASSUME CommitEveryAssumption == CommitEvery \in Nat \ {0}

VARIABLES
    arrived,  \* claims the worker has committed
    vector,   \* claim_embeddings: the model a committed vector is from, or "none"
    run,      \* each invocation and what its session holds
    alone     \* history: active invocations no other one has overlapped

vars == <<arrived, vector, run, alone>>

Phases == {"idle", "loop", "batch", "done", "died"}

Run == [phase    : Phases,
        model    : Models \cup {"none"},
        force    : BOOLEAN,
        selected : SUBSET Claims,
        left     : SUBSET Claims,   \* selected and not visited yet
        inserts  : SUBSET Claims,   \* vectors added to the session
        updates  : SUBSET Claims,   \* and rows changed in it
        failed   : SUBSET Claims,
        broken   : BOOLEAN]         \* the transaction was aborted by a statement

NoRun == [phase |-> "idle", model |-> "none", force |-> FALSE, selected |-> {}, left |-> {},
          inserts |-> {}, updates |-> {}, failed |-> {}, broken |-> FALSE]

Active(r)  == run[r].phase \in {"loop", "batch"}
Pending(r) == run[r].inserts \cup run[r].updates

Init == /\ arrived = {}
        /\ vector  = [c \in Claims |-> "none"]
        /\ run     = [r \in Runs |-> NoRun]
        /\ alone   = {}

Becomes(r, session) == run' = [run EXCEPT ![r] = session]

-----------------------------------------------------------------------------
\* Mutant: the vector has a transaction of its own, before the claim's.
ArriveVectorFirst(c) ==
    /\ c \notin arrived
    /\ \E m \in Models : vector' = [vector EXCEPT ![c] = m]
    /\ UNCHANGED <<arrived, run, alone>>

\* The worker commits a claim, with its vector unless the embedding failed.
\* It embeds flagged claims, with the model it loaded when it was started.
Arrive(c) ==
    /\ c \notin arrived
    /\ arrived' = arrived \cup {c}
    /\ \E m \in {"none"} \cup (IF c \in Blank THEN {} ELSE Models) :
          vector' = [vector EXCEPT ![c] = m]
    /\ UNCHANGED <<run, alone>>

\* Mutant: the outer join's condition is forgotten.
WantedAll(force) == arrived

\* The rows of the select: those without a vector, or with --force all.
Wanted(force) == {c \in arrived : force \/ vector[c] = "none"}

\* The select, cut off after the first ids when --limit is given.
Start(r) ==
    /\ ~Active(r)
    /\ \E m \in Models, force \in BOOLEAN, last \in Claims :
          LET selected == {c \in Wanted(force) : c <= last} IN
          Becomes(r, [NoRun EXCEPT !.phase = "loop", !.model = m, !.force = force,
                                   !.selected = selected, !.left = selected])
    /\ alone' = LET others == {s \in Runs \ {r} : Active(s)} IN
                IF others = {} THEN alone \cup {r} ELSE alone \ (others \cup {r})
    /\ UNCHANGED <<arrived, vector>>

\* Mutant: counts the vectors, not the claims of the loop.
DueOnEmbedded(r) == Cardinality(Pending(r)) = CommitEvery

\* i % COMMIT_EVERY = 0 at the claim that is being visited.
Due(r) == (Cardinality(run[r].selected \ run[r].left) + 1) % CommitEvery = 0

\* The next claim in id order.
Turn(r, c) == /\ run[r].phase = "loop"
               /\ c \in run[r].left
               /\ \A d \in run[r].left : c <= d

\* A flagged claim, or one without text: continue jumps over the commit too.
Skip(r, c) ==
    /\ Turn(r, c)
    /\ c \in Flagged \cup Blank
    /\ Becomes(r, [run[r] EXCEPT !.left = @ \ {c}])
    /\ UNCHANGED <<arrived, vector, alone>>

\* The end of an iteration that reached the commit check.
Visited(r, c, session) ==
    /\ Turn(r, c)
    /\ c \notin Flagged \cup Blank
    /\ Becomes(r, [session EXCEPT !.left = @ \ {c}, !.phase = IF Due(r) THEN "batch" ELSE "loop"])
    /\ UNCHANGED <<arrived, vector, alone>>

Embed(r, c) ==
    /\ ~run[r].broken
    /\ Visited(r, c, IF vector[c] = "none" THEN [run[r] EXCEPT !.inserts = @ \cup {c}]
                                           ELSE [run[r] EXCEPT !.updates = @ \cup {c}])

\* The encoder failed, or a statement did and took the transaction with it;
\* after that every claim fails until the commit.
EmbedFails(r, c) ==
    \E broken \in {run[r].broken, TRUE} :
        Visited(r, c, [run[r] EXCEPT !.failed = @ \cup {c}, !.broken = broken])

AtCommit(r) == run[r].phase = "batch" \/ (run[r].phase = "loop" /\ run[r].left = {})

\* An insert of a row that another run has inserted since, or any write in an
\* aborted transaction.
Refused(r) == \/ \E c \in run[r].inserts : vector[c] # "none"
              \/ run[r].broken /\ Pending(r) # {}

\* Mutant: the loop ends without its last commit.
CommitForgotten(r) ==
    /\ AtCommit(r) /\ ~Refused(r)
    /\ vector' = [c \in Claims |-> IF c \in Pending(r) /\ run[r].phase = "batch"
                                   THEN run[r].model ELSE vector[c]]
    /\ Becomes(r, [run[r] EXCEPT !.inserts = {}, !.updates = {}, !.broken = FALSE,
                                 !.phase = IF @ = "batch" THEN "loop" ELSE "done"])
    /\ UNCHANGED <<arrived, alone>>

\* db.commit(), in the loop or after it.
Commit(r) ==
    /\ AtCommit(r) /\ ~Refused(r)
    /\ vector' = [c \in Claims |-> IF c \in Pending(r) THEN run[r].model ELSE vector[c]]
    /\ Becomes(r, [run[r] EXCEPT !.inserts = {}, !.updates = {}, !.broken = FALSE,
                                 !.phase = IF @ = "batch" THEN "loop" ELSE "done"])
    /\ UNCHANGED <<arrived, alone>>

\* A refused commit leaves the loop through finally; a failing encoder load, a
\* lost connection or a kill may end a run anywhere.
Die(r) ==
    /\ Active(r)
    /\ Becomes(r, [NoRun EXCEPT !.phase = "died"])
    /\ UNCHANGED <<arrived, vector, alone>>

Backfill(r) ==
    \/ Start(r) \/ Commit(r) \/ Die(r)
    \/ \E c \in Claims : Skip(r, c) \/ Embed(r, c) \/ EmbedFails(r, c)

Next == (\E c \in Claims : Arrive(c)) \/ (\E r \in Runs : Backfill(r))

Spec == Init /\ [][Next]_vars

-----------------------------------------------------------------------------
(* Properties.                                                              *)

\* Every variable stays in its declared range, and only claims that exist are
\* selected or carry a vector.
TypeOK ==
    /\ arrived \subseteq Claims
    /\ vector \in [Claims -> Models \cup {"none"}]
    /\ run \in [Runs -> Run]
    /\ alone \subseteq Runs
    /\ \A c \in Claims \ arrived : vector[c] = "none"

Finishes(r) == run[r].phase # "done" /\ run'[r].phase = "done"

\* A run that gets to its end has left no claim behind but those it skipped or
\* reported as failed; and if no other run overlapped it, their vectors are of
\* its own model.
FinishedRunReached ==
    [][\A r \in Runs : Finishes(r) =>
          \A c \in run[r].selected \ (Flagged \cup Blank \cup run[r].failed) :
              /\ vector'[c] # "none"
              /\ r \in alone => vector'[c] = run[r].model
      ]_vars

\* Without --force a stored vector is replaced only when runs overlap: by one
\* that selected the claim while it had none.
OnlyForceReplaces ==
    [][\A c \in Claims : vector[c] # "none" /\ vector'[c] # vector[c] =>
          \E r \in Runs : c \in Pending(r) /\ (run[r].force \/ r \notin alone)
      ]_vars

\* The batch boundaries of a run that it has passed without a skip.
Position(r, c) == Cardinality({d \in run[r].selected : d <= c})
Boundaries(r)  == {c \in run[r].selected \ (run[r].left \cup Flagged \cup Blank) :
                      Position(r, c) % CommitEvery = 0}

\* When a run dies it loses nothing it embedded before the last batch boundary,
\* unless the claim at the boundary was skipped.
BatchesSurvive ==
    \A r \in Runs : run[r].phase = "loop" =>
        \A c \in Pending(r), b \in Boundaries(r) : b < c

-----------------------------------------------------------------------------
(* What documentation and comments say of the script; see the README.       *)

\* docs/runbook.md: after a change of the model, --force regenerates all
\* vectors; a partial change silently breaks retrieval.
ForceReembedsEverything ==
    [][\A r \in Runs : Finishes(r) /\ run[r].force /\ r \in alone /\ run[r].failed = {} =>
          \A c \in run[r].selected : vector'[c] \in {"none", run[r].model}
      ]_vars

=============================================================================

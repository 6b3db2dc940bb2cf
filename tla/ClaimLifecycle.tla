---------------------------- MODULE ClaimLifecycle ----------------------------
(***************************************************************************)
(* What the cockpit promises about one report, whoever handles it: it is    *)
(* received once; the pipeline either brings it in as a claim or gives it   *)
(* up, once; a claim in review is decided by a person, once; and nothing    *)
(* that must be seen by a person is approved without one.  ClaimPipeline    *)
(* and ReviewQueue implement the two halves.                                *)
(*                                                                          *)
(* The stages are those of raw_messages.status until there is a claim, and  *)
(* of claims.status from then on.                                           *)
(***************************************************************************)
CONSTANTS
    Reports,
    MustBeSeen \* reports the pipeline may not approve by itself

VARIABLES
    stage,
    contested \* reports that more than one decision was under way for

vars == <<stage, contested>>

Stages    == {"absent", "received", "dead_letter", "in_human_review", "approved", "archived"}
Decisions == {"approved", "archived"}

Init == /\ stage \in [Reports -> {"absent", "received"}]
        /\ contested = {}

Move(m, from, to) ==
    /\ stage[m] \in from
    /\ \E s \in to : stage' = [stage EXCEPT ![m] = s]
    /\ UNCHANGED contested

Receive(m) == Move(m, {"absent"}, {"received"})

Discard(m) == Move(m, {"received"}, {"dead_letter"})

Triage(m) == Move(m, {"received"},
                  {"in_human_review"} \cup (IF m \in MustBeSeen THEN {} ELSE {"approved"}))

Decide(m) == Move(m, {"in_human_review"}, Decisions)

\* Decisions that overlap may each take effect; only then is one overruled.
Contest(m) == /\ stage[m] = "in_human_review"
              /\ contested' = contested \cup {m}
              /\ UNCHANGED stage

Overrule(m) == m \in contested /\ Move(m, Decisions, Decisions)

Next == \E m \in Reports : \/ Receive(m) \/ Discard(m) \/ Triage(m)
                           \/ Decide(m) \/ Contest(m) \/ Overrule(m)

Spec == Init /\ [][Next]_vars
===============================================================================

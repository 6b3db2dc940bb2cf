---------------------------- MODULE MCReviewQueue ----------------------------
(* Two claims, one of them with an extraction, and three requests: enough for *)
(* two that race for one claim while a third decides the other or comes late. *)
EXTENDS ReviewQueue, TLC

CONSTANTS c1, c2, r1, r2, r3, plate, amount, v0, v1, v2

MCClaims    == {c1, c2}
MCRequests  == {r1, r2, r3}
MCFields    == {plate, amount}
MCValues    == {v0, v1, v2}
MCExtracted == {c1}
MCWritten   == [c \in MCClaims |-> [f \in MCFields |-> v0]]

\* No edits, one that changes nothing, one field, the same field otherwise, both.
MCEdits == {<<>>, plate :> v0, plate :> v1, plate :> v2, plate :> v1 @@ amount :> v1}

Symmetry == Permutations(MCRequests)
=============================================================================

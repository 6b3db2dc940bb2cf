--------------------------- MODULE MCQuestionService ---------------------------
(* Two calls, the second one a retry or a new question while the first may    *)
(* still be running.  One question names a plate, one does not, one is too    *)
(* short.  Of the four claims one has no text, one was never masked, and the  *)
(* filter drops one; both rows' plates take the placeholder number that the   *)
(* question's and a claim's plate have.                                       *)
EXTENDS QuestionService

CONSTANTS k1, k2, k3, k4, plates, counts, short, vq, vrow, vclaim, vraw

MCReal      == {vq, vrow, vclaim, vraw}
MCTables    == {"claims_flat", "audit_trail"}
MCQuestions == {plates, counts, short}
MCWording   == plates :> <<Mention(vq, vq)>> @@ counts :> <<>> @@ short :> <<>>
MCTooShort  == {short}
MCClaims    == {k1, k2, k3, k4}
MCUrgency   == k1 :> "normal" @@ k2 :> "critical" @@ k3 :> "critical" @@ k4 :> "critical"
MCClosest   == plates :> <<k1, k2, k3, k4>> @@ counts :> <<k4, k3, k2>> @@ short :> <<>>

Sentence(k, close, text) == [claim |-> k, close |-> close, text |-> text]

MCSentences ==
    k1 :> <<Sentence(k1, 1, <<>>), Sentence(k1, 2, <<Mention(Placeholder("", 1), vclaim)>>)>> @@
    k2 :> <<>> @@
    k3 :> <<Sentence(k3, 3, <<>>)>> @@
    k4 :> <<Sentence(k4, 1, <<Mention(vraw, vraw)>>), Sentence(k4, 0, <<>>)>>

Select == [NoDraft EXCEPT !.statements = 1, !.select = TRUE, !.tables = {"claims_flat"}]

\* A limit above the ceiling, none, an expression; and two refused statements.
MCDrafts == {[Select EXCEPT !.limit = 9], Select, [Select EXCEPT !.limit = Expression],
             [Select EXCEPT !.tables = {"claims"}], NoDraft}

\* 12500.00 with two plates, so that a placeholder has the number 2; two rows,
\* 12.50 and 3; three rows; and a placeholder of an earlier question.
MCResults == {<<>>,
              << <<Mention(vrow, vrow), Mention(vq, vq), Number(Token(12500, ".", 0, 2))>> >>,
              << <<Mention(vq, vq), Number(Token(12, ".", 50, 2))>>, <<Number(Whole(3))>> >>,
              << <<Number(Whole(7))>>, <<Number(Whole(8))>>, <<Number(Whole(9))>> >>,
              << <<Mention(Placeholder("Q_", 1), vrow)>> >>}

\* 12.500, 12,5 and 2.
MCInvented == {Token(12, ".", 500, 3), Token(12, ",", 5, 1), Whole(2)}
================================================================================

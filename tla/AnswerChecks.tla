----------------------------- MODULE AnswerChecks -----------------------------
(***************************************************************************)
(* What the question service does to texts on their way to a model and      *)
(* back, as operators: the question's placeholders, the vetting of a        *)
(* generated query, the snippets and citations of the retrieval path and    *)
(* the number check of the SQL path.                                        *)
(*                                                                          *)
(* A text is a sequence of tokens; only the tokens a check looks at are     *)
(* kept.  A mention of personal data carries in "of" the value its writer   *)
(* meant, which the code never sees, and in "shows" what stands in the      *)
(* text: the value itself or a placeholder.                                 *)
(***************************************************************************)
EXTENDS Integers, Sequences, FiniteSets, SequencesExt, Selections

CONSTANTS
    Real,          \* real values of the kinds the regular expressions know
    AllowedTables, \* ALLOWED_TABLES
    MaxLimit       \* MAX_LIMIT

Placeholder(space, i) == [space |-> space, nr |-> i]

Mention(shown, value) == [shows |-> shown, of |-> value]
Cite(n, claim)        == [cites |-> n, of |-> claim]
Number(n)             == [number |-> n]

IsMention(t) == "shows" \in DOMAIN t
IsCite(t)    == "cites" \in DOMAIN t
IsNumber(t)  == "number" \in DOMAIN t

Mentions(text) == {t \in ToSet(text) : IsMention(t)}
Cites(text)    == {t \in ToSet(text) : IsCite(t)}
Numbers(text)  == {t \in ToSet(text) : IsNumber(t)}

\* What a reader of the text sees of the personal data it mentions.
Shown(text) == {t.shows : t \in Mentions(text)}

-----------------------------------------------------------------------------
(* Placeholders.  A mapping is the sequence of the values replaced: value i *)
(* got the i-th placeholder of the name space.                              *)

Position(s, e) == CHOOSE i \in DOMAIN s : s[i] = e

\* mask_text: every occurrence of a real value, one placeholder per value.
Mask(text, space) ==
    LET exposed  == Kept(text, {t \in Mentions(text) : t.shows \in Real})
        replaced == Once([i \in DOMAIN exposed |-> exposed[i].shows])
    IN  [text     |-> [i \in DOMAIN text |->
                         IF IsMention(text[i]) /\ text[i].shows \in Real
                         THEN [text[i] EXCEPT !.shows = Placeholder(space, Position(replaced, @))]
                         ELSE text[i]],
         mappings |-> replaced]

RowSpace == ""

\* Mutant: question placeholders in the name space of the claim texts.
QuestionSpacePlain == ""

QuestionSpace == "Q_"

MaskQuestion(text) == Mask(text, QuestionSpace)

Placeholders == [space : {RowSpace, QuestionSpace}, nr : Nat]

\* No placeholder is a plate or a number.
ASSUME RealAssumption == Real \cap Placeholders = {}

\* A text nobody has masked.
Bare(text) == Shown(text) \cap Placeholders = {}

\* A text to begin with: where it shows a real value, its writer meant that one.
IsText(text) ==
    /\ text \in Seq(ToSet(text))
    /\ \A t \in ToSet(text) :
         \/ DOMAIN t = {"number"}
         \/ DOMAIN t = {"shows", "of"} /\ (t.shows \in Real => t.of = t.shows)

\* unmask_text with the mappings of one name space.
Unmask(text, space, mappings) ==
    [i \in DOMAIN text |->
       IF IsMention(text[i]) /\ \E n \in DOMAIN mappings : text[i].shows = Placeholder(space, n)
       THEN [text[i] EXCEPT !.shows = mappings[@.nr]]
       ELSE text[i]]

-----------------------------------------------------------------------------
(* The guard.  A draft is the statement the model wrote: how many           *)
(* statements, whether the outermost is a SELECT, whether a forbidden node  *)
(* or function occurs anywhere in it, the tables it reads (common table     *)
(* expressions excluded), its LIMIT and the personal data in its literals.  *)

NoLimit    == -1
Expression == -2 \* a LIMIT that is no integer literal

WithinLimit(draft) == draft.limit \in 0..MaxLimit

ApplyLimit(draft) == IF WithinLimit(draft) THEN draft ELSE [draft EXCEPT !.limit = MaxLimit]

Acceptable(draft) ==
    /\ draft.statements = 1
    /\ draft.select
    /\ ~draft.forbidden
    /\ draft.tables \subseteq AllowedTables

-----------------------------------------------------------------------------
(* Retrieval: the sentence a hit is shown with, and the citations.          *)

\* pick_snippets embeds the sentences of all texts in one batch and cuts the
\* batch up again by their lengths; close is the similarity to the question.
Offset(texts, i) ==
    LET end[n \in 0..Len(texts)] == IF n = 0 THEN 0 ELSE end[n - 1] + Len(texts[n])
    IN  end[i - 1]

EmptySnippet == [claim |-> "none", close |-> 0, text |-> <<>>]

PickSnippets(texts) ==
    LET batch   == FlattenSeq(texts)
        end(i)   == Offset(texts, i) + Len(texts[i])
        chunk(i) == SubSeq(batch, Offset(texts, i) + 1, IF end(i) < Len(batch) THEN end(i) ELSE Len(batch))
        best(i)  == CHOOSE n \in DOMAIN chunk(i) :
                      \A k \in DOMAIN chunk(i) : chunk(i)[k].close <= chunk(i)[n].close
    IN  [i \in DOMAIN texts |->
           IF texts[i] = <<>> \/ chunk(i) = <<>> THEN EmptySnippet ELSE chunk(i)[best(i)]]

SplitCitations(cited, count) == Kept(Once(cited), 1..count)

\* Mutant: the markers keep the numbers the model wrote.
RenumberNothing(answer, valid) ==
    Kept(answer, {t \in ToSet(answer) : IsCite(t) => Contains(valid, t.cites)})

\* Markers move to the position their source has among the cited ones; a
\* marker of a source that is not shipped is dropped.
Renumber(answer, valid) ==
    LET kept == Kept(answer, {t \in ToSet(answer) : IsCite(t) => Contains(valid, t.cites)})
    IN  [i \in DOMAIN kept |->
           IF IsCite(kept[i]) THEN [kept[i] EXCEPT !.cites = Position(valid, @)] ELSE kept[i]]

-----------------------------------------------------------------------------
(* Numbers.  A number token is head, an optional separator and the digits   *)
(* after it; values are in thousandths.                                     *)

Token(head, sep, tail, digits) == [head |-> head, sep |-> sep, tail |-> tail, digits |-> digits]
Whole(n) == Token(n, "", 0, 0)

Decimals(t) == 1000 * t.head + t.tail * 10 ^ (3 - t.digits)

Grouped(t) == 1000 * (1000 * t.head + t.tail)

\* How PostgreSQL means what it renders, and a Turkish reader what is shown.
WrittenByPostgres(t) == Decimals(t)
ReadInTurkish(t)     == IF t.sep = "." /\ t.digits = 3 THEN Grouped(t) ELSE Decimals(t)

\* Mutant: a lone dot is always a decimal point.
ParseNumberPlain(t) == Decimals(t)

\* _looks_grouped: a lone dot groups only when three digits follow.
ParseNumber(t) == IF t.sep = "." /\ t.digits = 3 THEN Grouped(t) ELSE Decimals(t)

\* Placeholders carry a digit run as well.
NumbersIn(text) ==
    {t.number : t \in Numbers(text)}
        \cup {Whole(p.nr) : p \in {s \in Shown(text) : s \notin Real}}

UnverifiedNumbers(answer, rendered, rowCount) ==
    LET present == NumbersIn(rendered)
        values  == {ParseNumber(t) : t \in present} \cup {1000 * rowCount}
    IN  {t \in NumbersIn(answer) : t \notin present /\ ParseNumber(t) \notin values}

\* render_rows: numbered rows up to a limit, then how many are not shown.
RenderRows(rows, limit) ==
    LET shown == SubSeq(rows, 1, IF Len(rows) < limit THEN Len(rows) ELSE limit)
        lines == FlattenSeq([i \in DOMAIN shown |-> <<Number(Whole(i))>> \o shown[i]])
    IN  IF Len(rows) > limit THEN Append(lines, Number(Whole(Len(rows) - limit))) ELSE lines

=============================================================================

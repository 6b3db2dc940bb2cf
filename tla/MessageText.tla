----------------------------- MODULE MessageText -----------------------------
(***************************************************************************)
(* What masking, the injury terms and the quote search do to a message's    *)
(* text, as operators.                                                      *)
(*                                                                          *)
(* A text is a sequence of atoms: stretches of characters that every rule   *)
(* treats alike, white space and punctuation included.  A word is a run of  *)
(* atoms between white space.  Width counts an atom's characters, because   *)
(* the injury guards look a fixed number of characters around a term.       *)
(***************************************************************************)
EXTENDS Integers, Sequences, FiniteSets, SequencesExt, Selections

CONSTANTS
    Width,       \* characters of a written atom, as a function of its spelling
    Lower,       \* its spelling in lower case
    PiiOf,       \* the atom sequences a pattern matches, and the pattern's type
    CommonNames, Ambiguous, Surnames, Markers, \* name_dict's dictionaries
    InjuryTerms, ContextTerms, Negations, NegationSuffixes, Questions, CareActions

ASSUME DictionariesAssumption ==
    /\ Ambiguous \subseteq CommonNames /\ ContextTerms \subseteq InjuryTerms
    /\ {"sp", "nl"} \cap (InjuryTerms \cup Negations \cup NegationSuffixes \cup Questions \cup CareActions) = {}

\* White space is evened out one character for one.
ASSUME WidthsAssumption == Width["sp"] = 1 /\ Width["nl"] = 1

\* Case does not make white space of a word, or a word of white space.
ASSUME SpellingsAssumption ==
    /\ {"sp", "nl"} \subseteq DOMAIN Lower
    /\ \A w \in DOMAIN Lower :
         /\ Lower[w] \in DOMAIN Lower
         /\ {w, Lower[w]} \cap {"sp", "nl"} # {} => Lower[w] = w

Atom(spelling)       == [word |-> spelling, nr |-> 0]
Placeholder(type, n) == [word |-> type, nr |-> n]

Space   == Atom("sp")
NewLine == Atom("nl")
Colon   == Atom("colon")

White == {Space, NewLine}
Punct == {Colon, Atom("dot")}

PiiTypes == <<"TC", "PHONE", "PLATE", "IBAN">> \* PATTERNS, in its order

Written == [word : DOMAIN Lower, nr : {0}] \* the atoms a sender writes
Tokens  == Written \cup [word : ToSet(PiiTypes) \cup {"NAME"}, nr : Nat \ {0}]

\* No pattern matches the empty string, a placeholder, or a punctuation mark.
ASSUME PatternsAssumption ==
    /\ DOMAIN PiiOf \subseteq Seq(Written) \ {<<>>}
    /\ \A value \in DOMAIN PiiOf : PiiOf[value] \in ToSet(PiiTypes) /\ ToSet(value) \cap Punct = {}

\* len("[TYPE_n]")
PlaceholderWidth == [type \in ToSet(PiiTypes) \cup {"NAME"} |->
                       CASE type = "TC" -> 6 [] type \in {"PHONE", "PLATE"} -> 9 [] OTHER -> 8]

Chars(text) ==
    LET width == [i \in DOMAIN text |-> IF text[i].nr = 0 THEN Width[text[i].word]
                                       ELSE PlaceholderWidth[text[i].word]]
        upto[n \in 0..Len(text)] == IF n = 0 THEN 0 ELSE upto[n - 1] + width[n]
    IN  upto[Len(text)]

\* str.split and " ".join.  A scan knows the words that have ended and the one
\* that has not.
EndWord(scan) == IF scan.word = <<>> THEN scan.words ELSE Append(scan.words, scan.word)

NextAtom(scan, a) ==
    IF a \notin White THEN [words |-> scan.words, word |-> Append(scan.word, a)]
    ELSE [words |-> EndWord(scan), word |-> <<>>]

Scan(text) ==
    LET upto[n \in 0..Len(text)] ==
          IF n = 0 THEN [words |-> <<>>, word |-> <<>>] ELSE NextAtom(upto[n - 1], text[n])
    IN  upto[Len(text)]

SplitWords(text) == EndWord(Scan(text))

\* Mutant: the words are put together without the blanks.
JoinWordsGlued(words) == FlattenSeq(words)

JoinWords(words) ==
    FlattenSeq([i \in DOMAIN words |-> IF i = 1 THEN words[i] ELSE <<Space>> \o words[i]])

Find(part, text) ==
    LET at == {i \in 1..(Len(text) - Len(part) + 1) : SubSeq(text, i, i + Len(part) - 1) = part}
    IN  IF at = {} THEN 0 ELSE CHOOSE i \in at : \A k \in at : i <= k

\* str.replace: from left to right, on behind what was replaced.
Replace(text, part, by) ==
    LET stands(i) == i + Len(part) - 1 <= Len(text) /\ SubSeq(text, i, i + Len(part) - 1) = part
        upto[n \in 0..Len(text)] ==
          IF n = 0 THEN [text |-> <<>>, next |-> 1]
          ELSE LET done == upto[n - 1]
               IN  IF n < done.next THEN done
                   ELSE IF stands(n) THEN [text |-> done.text \o by, next |-> n + Len(part)]
                   ELSE [text |-> Append(done.text, text[n]), next |-> n + 1]
    IN  upto[Len(text)].text

Strip(word) ==
    LET core == {i \in DOMAIN word : word[i] \notin Punct}
    IN  IF core = {} THEN <<>>
        ELSE SubSeq(word, CHOOSE i \in core : \A k \in core : i <= k,
                          CHOOSE i \in core : \A k \in core : i >= k)

-----------------------------------------------------------------------------
(* Masking.  Mappings are in the order they were made.                      *)

Mapping(placeholder, value) == [placeholder |-> placeholder, value |-> value]

Matches(text, type) ==
    LET words == SplitWords(text)
    IN  Kept([i \in DOMAIN words |-> Strip(words[i])], {value \in DOMAIN PiiOf : PiiOf[value] = type})

\* Each new value gets a placeholder and is replaced wherever it stands, inside
\* a longer one too.
MaskValue(done, value) ==
    LET ofType == {n \in DOMAIN done.mappings : done.mappings[n].placeholder.word = PiiOf[value]}
        new    == Mapping(Placeholder(PiiOf[value], Cardinality(ofType) + 1), value)
        known  == {m \in ToSet(done.mappings) : m.value = value}
        m      == IF known = {} THEN new ELSE CHOOSE k \in known : TRUE
    IN  [text     |-> Replace(done.text, value, <<m.placeholder>>),
         mappings |-> IF known = {} THEN Append(done.mappings, new) ELSE done.mappings]

\* mask_text: the matches are found in the text as it came.
MaskText(text) ==
    LET found == FlattenSeq([t \in DOMAIN PiiTypes |-> Matches(text, PiiTypes[t])])
        upto[n \in 0..Len(found)] ==
          IF n = 0 THEN [text |-> text, mappings |-> <<>>] ELSE MaskValue(upto[n - 1], found[n])
    IN  upto[Len(found)]

Lookback == 4 \* _CONTEXT_LOOKBACK

Spells(words, i, dictionary) ==
    i \in DOMAIN words /\ \E spelling \in dictionary : Strip(words[i]) = <<Atom(spelling)>>

LooksLikeAName(words, i) ==
    \/ Spells(words, i - 1, Surnames) \/ Spells(words, i + 1, Surnames)
    \/ \E k \in (i - Lookback)..(i - 1) : Spells(words, k, Markers)

\* Mutant: punctuation is not stripped before the look-up.
IsNameUnstripped(words, i) ==
    /\ \E spelling \in CommonNames : words[i] = <<Atom(spelling)>>
    /\ Spells(words, i, Ambiguous) => LooksLikeAName(words, i)

IsName(words, i) ==
    /\ Spells(words, i, CommonNames)
    /\ Spells(words, i, Ambiguous) => LooksLikeAName(words, i)

\* Mutant: the same placeholder for every name.
NameNumberFixed(words, i) == 1

NameNumber(words, i) == Cardinality({k \in 1..i : IsName(words, k)})

\* mask_names: a placeholder for every occurrence; the white space is lost.
MaskNames(text) ==
    LET words == SplitWords(text)
        p(i)  == Placeholder("NAME", NameNumber(words, i))
        names == Kept([i \in DOMAIN words |-> i], {i \in DOMAIN words : IsName(words, i)})
    IN  [text     |-> JoinWords([i \in DOMAIN words |->
                        IF IsName(words, i) THEN Replace(words[i], Strip(words[i]), <<p(i)>>)
                        ELSE words[i]]),
         mappings |-> [n \in DOMAIN names |-> Mapping(p(names[n]), Strip(words[names[n]]))]]

MaskAll(text) ==
    LET pii   == MaskText(text)
        names == MaskNames(pii.text)
    IN  [text |-> names.text, mappings |-> pii.mappings \o names.mappings]

\* Of two mappings of one placeholder the later counts.
ValueOf(p, mappings) ==
    mappings[CHOOSE n \in DOMAIN mappings :
               /\ mappings[n].placeholder = p
               /\ \A k \in DOMAIN mappings : k > n => mappings[k].placeholder # p].value

\* unmask_text: dict(placeholder -> value), each replaced in turn.
Unmask(text, mappings) ==
    LET upto[n \in 0..Len(mappings)] ==
          IF n = 0 THEN text
          ELSE Replace(upto[n - 1], <<mappings[n].placeholder>>,
                       ValueOf(mappings[n].placeholder, mappings))
    IN  upto[Len(mappings)]

-----------------------------------------------------------------------------
(* find_injury_signals.                                                     *)

Window == 30 \* _NEGATION_WINDOW, and _CARE_WINDOW

Atoms(spellings) == {Atom(w) : w \in spellings}

StartsWord(text, i) == i = 1 \/ text[i - 1] \in White \cup Punct \/ text[i - 1].nr > 0

\* Some atom of a dictionary stands wholly within the window after or before i.
After(text, i, dictionary) ==
    \E k \in (i + 1)..Len(text) :
        text[k] \in Atoms(dictionary) /\ Chars(SubSeq(text, i + 1, k)) <= Window
Before(text, i, dictionary) ==
    \E k \in 1..(i - 1) :
        text[k] \in Atoms(dictionary) /\ Chars(SubSeq(text, k, i - 1)) <= Window

Negated(text, i) ==
    \/ After(text, i, Negations) \/ Before(text, i, Negations)
    \/ i < Len(text) /\ text[i + 1] \in Atoms(NegationSuffixes)

Blank(text, i, k) == \A j \in i..k : text[j] \in White

\* A colon, and nothing after it on its line.
EmptyField(text, i) ==
    \E k \in (i + 1)..Len(text) :
        /\ text[k] = Colon /\ Blank(text, i + 1, k - 1)
        /\ \/ Blank(text, k + 1, Len(text))
           \/ \E n \in (k + 1)..Len(text) : text[n] = NewLine /\ Blank(text, k + 1, n)

Asked(text, i) ==
    \E k \in (i + 1)..Len(text) :
        text[k] \in Atoms(Questions) /\ Blank(text, i + 1, k - 1) /\ Chars(SubSeq(text, i + 1, k)) <= Window

\* A context term counts when it is inflected or a care action follows.
Qualifies(text, i) ==
    \/ i < Len(text) /\ text[i + 1] \notin White \cup Punct /\ text[i + 1].nr = 0
    \/ After(text, i, CareActions)

Asserts(text, i) ==
    /\ text[i] \in Atoms(InjuryTerms)
    /\ StartsWord(text, i)
    /\ ~Negated(text, i)
    /\ ~EmptyField(text, i)
    /\ ~Asked(text, i)
    /\ text[i].word \in ContextTerms => Qualifies(text, i)

InjurySignals(text) == {text[i].word : i \in {k \in DOMAIN text : Asserts(text, k)}}

-----------------------------------------------------------------------------
(* locate_quote.                                                            *)

Span(from, to) == [from |-> from, to |-> to] \* characters, the end excluded

NoSpan == Span(-1, -1)

Lowered(text) == [i \in DOMAIN text |-> IF text[i].nr = 0 THEN Atom(Lower[text[i].word]) ELSE text[i]]

Nowhere == <<0, 0>>

\* The first and the last atom of a quote's words in a text, with any white space
\* between them.
FindWords(quote, text) ==
    LET words == JoinWords(SplitWords(quote))
        same(i, k) == JoinWords(SplitWords(SubSeq(text, i, k))) = words
                        /\ text[i] \notin White /\ text[k] \notin White
        at == {p \in (1..Len(text)) \X (1..Len(text)) : p[1] <= p[2] /\ same(p[1], p[2])}
    IN  IF words = <<>> \/ at = {} THEN Nowhere
        ELSE CHOOSE p \in at : \A q \in at : p[1] <= q[1]

SpanOf(text, p) == Span(Chars(SubSeq(text, 1, p[1] - 1)), Chars(SubSeq(text, 1, p[2])))

\* locate_quote: exactly, across white space, and ignoring case.  The empty quote
\* is found at the beginning.
Located(quote, text) ==
    IF Find(quote, text) # 0 THEN <<Find(quote, text), Find(quote, text) + Len(quote) - 1>>
    ELSE IF FindWords(quote, text) # Nowhere THEN FindWords(quote, text)
    ELSE FindWords(Lowered(quote), Lowered(text))

SpanAt(text, p) == IF p = Nowhere THEN NoSpan ELSE SpanOf(text, p)

=============================================================================

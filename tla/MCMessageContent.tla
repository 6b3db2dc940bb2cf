--------------------------- MODULE MCMessageContent ---------------------------
(* Texts of up to three words out of a small vocabulary, with a blank or a line *)
(* end between them, and a few longer ones: two plates of which one is the      *)
(* beginning of the other, an account number or a name between an injury term   *)
(* and the word that negates or supports it, a blank form field, ambiguous      *)
(* names with and without a sign that they are names, a plate that spells a      *)
(* negation, one that is joined to a term, a run of blanks that keeps a negation *)
(* out of reach, and a text that holds what looks like a placeholder.            *)
EXTENDS MessageContent

MCWidth ==
    "sp" :> 1 @@ "nl" :> 1 @@ "colon" :> 1 @@ "dot" :> 1 @@
    "Kaza" :> 4 @@ "kaza" :> 4 @@ "yaralandi" :> 9 @@ "yaralanma" :> 9 @@ "di" :> 2 @@
    "hastane" :> 7 @@ "ye" :> 2 @@ "cagirdik" :> 8 @@ "yok" :> 3 @@ "varmi" :> 6 @@
    "iban" :> 26 @@ "34AB12" :> 6 @@ "34" :> 2 @@ "3" :> 1 @@ "06ZZ99" :> 6 @@
    "ali" :> 3 @@ "deniz" :> 5 @@ "kaya" :> 4 @@ "sayin" :> 5 @@ "uzun" :> 22

MCLower == [w \in DOMAIN MCWidth |-> IF w = "Kaza" THEN "kaza" ELSE w]

Plate(word) == <<Atom(word)>>

MCPiiOf ==
    <<Atom("iban")>> :> "IBAN" @@ <<Atom("34AB12")>> :> "PLATE" @@
    <<Atom("34AB12"), Atom("3")>> :> "PLATE" @@ <<Atom("06ZZ99")>> :> "PLATE" @@
    <<Atom("34"), Atom("yok"), Atom("3")>> :> "PLATE"

MCNames       == {"ali", "deniz"}
MCAmbiguous   == {"deniz"}
MCSurnames    == {"kaya"}
MCMarkers     == {"sayin"}
MCTerms       == {"yaralandi", "yaralanma", "hastane"}
MCContext     == {"hastane"}
MCNegations   == {"yok"}
MCSuffixes    == {"di"}
MCQuestions   == {"varmi"}
MCCareActions == {"cagirdik"}

W(spelling) == <<Atom(spelling)>>

Vocabulary == {W("Kaza"), W("ali"), W("34AB12"), W("34AB12") \o W("3"), W("yaralandi"), W("yok"),
               W("yaralanma") \o W("colon"), W("iban") \o W("dot")}

Joined(words, white) == FlattenSeq([i \in DOMAIN words |-> IF i = 1 THEN words[i] ELSE white \o words[i]])
Line(words)   == Joined(words, W("sp"))
Broken(words) == Joined(words, W("nl"))
Blanks(n)     == [i \in 1..n |-> Space]

Pairs == {<<a, b>> : a \in Vocabulary \ {W("yaralanma") \o W("colon"), W("34AB12") \o W("3")}, b \in {W("34AB12"), W("yaralandi")}} \cup {<<W("yaralandi"), W("yok")>>}

MCTexts ==
    {Line(s) : s \in Pairs} \cup {Broken(s) : s \in {<<W("yaralanma") \o W("colon"), w>> : w \in Vocabulary}}
      \cup {Line(s) : s \in {
              <<W("34AB12"), W("ali"), W("34AB12") \o W("3")>>,
              <<W("34AB12") \o W("3"), W("34AB12"), W("iban") \o W("dot")>>,
              <<W("ali"), W("ali") \o W("dot"), W("34AB12")>>,
              <<W("yaralanma") \o W("di"), W("34AB12")>>,
              <<W("yaralandi"), W("varmi")>>,
              <<W("yaralandi"), W("iban"), W("yok")>>,
              <<W("yok"), W("iban"), W("yaralandi")>>,
              <<W("hastane"), W("uzun"), W("cagirdik")>>,
              <<W("hastane"), W("iban"), W("cagirdik")>>,
              <<W("hastane") \o W("ye"), W("ali")>>,
              <<W("yaralandi"), W("34") \o W("yok") \o W("3")>>,
              <<W("34AB12"), W("34AB12") \o W("yaralandi")>>,
              <<W("yaralandi"), W("uzun") \o Blanks(5), W("yok")>>,
              <<W("deniz"), W("Kaza")>>,
              <<W("sayin"), W("Kaza"), W("Kaza"), W("Kaza"), W("deniz"), W("ali"), W("deniz")>>,
              <<W("deniz"), W("kaya") \o W("dot")>>,
              <<<<Placeholder("PLATE", 1)>>, W("34AB12")>>}}

MCInventedPlate == Plate("06ZZ99")
MCInventedQuote == <<Atom("uzun"), Space, Atom("uzun")>>
===============================================================================

------------------------ MODULE MessageContent_proofs ------------------------
(***************************************************************************)
(* What masking, unmasking and the quote search do to every text, for every *)
(* dictionary and every pattern, and the invariants of MessageContent.      *)
(*                                                                          *)
(* Unmasking, lower case and the white space that masking loses are seen as *)
(* one thing: every atom is replaced by a sequence of atoms (Put).  Masking *)
(* is what such a replacement undoes.                                       *)
(***************************************************************************)
EXTENDS MessageContent, SequenceLemmas, FiniteSetTheorems

-----------------------------------------------------------------------------
(* Words: a text is split atom by atom.                                     *)

Solid == Tokens \ White           \* the atoms of a word

Words == Seq(Solid) \ {<<>>}

NoScan == [words |-> <<>>, word |-> <<>>]

LEMMA Blanks == Space \in Tokens /\ NewLine \in Tokens /\ White \subseteq Tokens
BY SpellingsAssumption DEF Space, NewLine, Atom, Tokens, Written, White

LEMMA ConcatTokens ==
  \A r, s, t \in Seq(Tokens) : r \o s \in Seq(Tokens) /\ (r \o s) \o t = r \o (s \o t)
<1> SUFFICES ASSUME NEW r \in Seq(Tokens), NEW s \in Seq(Tokens), NEW t \in Seq(Tokens)
             PROVE  r \o s \in Seq(Tokens) /\ (r \o s) \o t = r \o (s \o t)
  OBVIOUS
<1>1. (r \o s) \o t = r \o (s \o t)
  BY ConcatAssociates
<1>2. r \o s \in Seq(Tokens)
  OBVIOUS
<1>. QED BY <1>1, <1>2

LEMMA NextAtomType ==
  ASSUME NEW X, NEW scan \in [words : Seq(Seq(X)), word : Seq(X)], NEW a \in X
  PROVE  NextAtom(scan, a) \in [words : Seq(Seq(X)), word : Seq(X)]
<1>1. scan.words \in Seq(Seq(X)) /\ scan.word \in Seq(X)
  OBVIOUS
<1>2. EndWord(scan) \in Seq(Seq(X)) /\ Append(scan.word, a) \in Seq(X) /\ <<>> \in Seq(X)
  BY <1>1 DEF EndWord
<1>3. CASE a \in White
  BY <1>2, <1>3 DEF NextAtom
<1>4. CASE a \notin White
  <2>1. NextAtom(scan, a) = [words |-> scan.words, word |-> Append(scan.word, a)]
    BY <1>4 DEF NextAtom
  <2>. QED BY <1>1, <1>2, <2>1
<1>. QED BY <1>3, <1>4

Scanning(f, x) ==
    f = [n \in 0..Len(x) |->
           IF n = 0 THEN [words |-> <<>>, word |-> <<>>] ELSE NextAtom(f[n - 1], x[n])]

LEMMA ScanRuns ==
  ASSUME NEW x \in Seq(Tokens)
  PROVE  \E f : /\ Scan(x) = f[Len(x)]
                /\ f[0] = NoScan
                /\ \A n \in 1..Len(x) : f[n] = NextAtom(f[n - 1], x[n])
<1> DEFINE N == Len(x)
           A == [words : Seq(Seq(Tokens)), word : Seq(Tokens)]
           move == [n \in 1..N |-> [s \in A |-> NextAtom(s, x[n])]]
<1>1. N \in Nat /\ NoScan \in A
  BY DEF NoScan
<1>2. move \in [1..N -> [A -> A]]
  <2>1. \A n \in 1..N : x[n] \in Tokens
    OBVIOUS
  <2>2. \A n \in 1..N : \A s \in A : NextAtom(s, x[n]) \in A
    BY <2>1, NextAtomType
  <2> HIDE DEF N, A
  <2>. QED BY <2>2
<1>3. PICK f \in [0..N -> A] : Runs(f, N, NoScan, move)
  <2> HIDE DEF N, A, move
  <2>. QED BY <1>1, <1>2, Recursion
<1>4. \A n \in 0..N : f[n] = IF n = 0 THEN NoScan ELSE NextAtom(f[n - 1], x[n])
  <2> TAKE n \in 0..N
  <2>1. CASE n = 0
    BY <1>1, <1>3, <2>1 DEF Runs
  <2>2. CASE n # 0
    <3>1. n \in 1..N /\ n - 1 \in 0..N
      BY <1>1, <2>2
    <3>2. f[n - 1] \in A
      BY <1>3, <3>1
    <3>3. f[n] = move[n][f[n - 1]]
      BY <1>3, <2>2 DEF Runs
    <3> HIDE DEF N, A
    <3>. QED BY <2>2, <3>1, <3>2, <3>3
  <2>. QED BY <2>1, <2>2
<1>5. Scanning(f, x)
  BY <1>3, <1>4 DEF Scanning, NoScan
<1>6. PICK g : g = CHOOSE k : Scanning(k, x)
  OBVIOUS
<1>7. Scanning(g, x)
  BY <1>5, <1>6, Zenon
<1>8. Scan(x) = g[Len(x)]
  BY <1>6 DEF Scan, Scanning
<1>9. g[0] = NoScan
  BY <1>1, <1>7 DEF Scanning, NoScan
<1>10. ASSUME NEW n \in 1..Len(x)
       PROVE  g[n] = NextAtom(g[n - 1], x[n])
  <2>1. n \in 0..Len(x) /\ n # 0
    BY <1>1
  <2>. QED BY <1>7, <2>1 DEF Scanning
<1>. QED BY <1>8, <1>9, <1>10, Zenon

\* A scan goes on where it stopped.
LEMMA ScanAppend ==
  ASSUME NEW x \in Seq(Tokens), NEW a \in Tokens
  PROVE  /\ Scan(<<>>) = NoScan
         /\ Scan(Append(x, a)) = NextAtom(Scan(x), a)
<1>1. Scan(<<>>) = NoScan
  <2>1. <<>> \in Seq(Tokens) /\ Len(<<>>) = 0
    OBVIOUS
  <2>. QED BY <2>1, ScanRuns
<1>2. /\ Append(x, a) \in Seq(Tokens) /\ Len(Append(x, a)) = Len(x) + 1 /\ Len(x) \in Nat
      /\ Append(x, a)[Len(x) + 1] = a /\ \A n \in 1..Len(x) : Append(x, a)[n] = x[n]
  OBVIOUS
<1>3. PICK f : /\ Scan(x) = f[Len(x)]
               /\ f[0] = NoScan
               /\ \A n \in 1..Len(x) : f[n] = NextAtom(f[n - 1], x[n])
  BY ScanRuns
<1>4. PICK g : /\ Scan(Append(x, a)) = g[Len(Append(x, a))]
               /\ g[0] = NoScan
               /\ \A n \in 1..Len(Append(x, a)) : g[n] = NextAtom(g[n - 1], Append(x, a)[n])
  BY <1>2, ScanRuns
<1> DEFINE I == {n \in 0..Len(x) : g[n] = f[n]}
<1>5. 0 \in I
  BY <1>2, <1>3, <1>4
<1>6. ASSUME NEW n \in 1..Len(x), n - 1 \in I PROVE n \in I
  <2>1. n \in 1..Len(Append(x, a)) /\ n \in 0..Len(x) /\ g[n - 1] = f[n - 1]
    BY <1>2, <1>6
  <2>2. g[n] = f[n]
    BY <1>2, <1>3, <1>4, <2>1
  <2>. QED BY <2>1, <2>2
<1>7. g[Len(x)] = f[Len(x)]
  <2>1. Len(x) \in 0..Len(x)
    BY <1>2
  <2> HIDE DEF I
  <2>2. 0..Len(x) \subseteq I
    BY <1>2, <1>5, <1>6, IntervalInduction
  <2>3. Len(x) \in I
    BY <2>1, <2>2
  <2>. QED BY <2>3 DEF I
<1>8. Len(x) + 1 \in 1..Len(Append(x, a)) /\ (Len(x) + 1) - 1 = Len(x)
  BY <1>2
<1>9. Scan(Append(x, a)) = NextAtom(Scan(x), a)
  BY <1>2, <1>3, <1>4, <1>7, <1>8
<1>. QED BY <1>1, <1>9

\* What a scan knows are words.
LEMMA ScanType ==
  ASSUME NEW x \in Seq(Tokens)
  PROVE  /\ Scan(x) \in [words : Seq(Words), word : Seq(Solid)]
         /\ SplitWords(x) \in Seq(Words)
<1> DEFINE A == [words : Seq(Words), word : Seq(Solid)]
           S == {z \in Seq(Tokens) : Scan(z) \in A}
<1>1. <<>> \in S
  <2>1. NoScan \in A /\ <<>> \in Seq(Tokens)
    BY DEF NoScan
  <2>2. Scan(<<>>) = NoScan
    <3>1. Space \in Tokens
      BY Blanks
    <3> HIDE DEF S, A
    <3>. QED BY <2>1, <3>1, ScanAppend
  <2>. QED BY <2>1, <2>2
<1>2. ASSUME NEW s \in A PROVE EndWord(s) \in Seq(Words)
  <2>1. s.words \in Seq(Words) /\ s.word \in Seq(Solid)
    OBVIOUS
  <2>2. s.word # <<>> => s.word \in Words
    BY <2>1 DEF Words
  <2>. QED BY <2>1, <2>2 DEF EndWord
<1>3. ASSUME NEW z \in Seq(Tokens), NEW a \in Tokens, z \in S PROVE Append(z, a) \in S
  <2>1. Append(z, a) \in Seq(Tokens) /\ Scan(Append(z, a)) = NextAtom(Scan(z), a)
    <3>1. Append(z, a) \in Seq(Tokens)
      OBVIOUS
    <3> HIDE DEF S
    <3>. QED BY <3>1, ScanAppend
  <2>2. Scan(z) \in A
    BY <1>3
  <2>3. Scan(z).words \in Seq(Words) /\ Scan(z).word \in Seq(Solid) /\ EndWord(Scan(z)) \in Seq(Words)
    BY <1>2, <2>2
  <2>4. CASE a \in White
    <3>1. NextAtom(Scan(z), a) = [words |-> EndWord(Scan(z)), word |-> <<>>]
      BY <2>4 DEF NextAtom
    <3>2. <<>> \in Seq(Solid)
      OBVIOUS
    <3>3. NextAtom(Scan(z), a) \in A
      BY <2>3, <3>1, <3>2
    <3>. QED BY <2>1, <3>3
  <2>5. CASE a \notin White
    <3>1. a \in Solid
      BY <2>5 DEF Solid
    <3>2. NextAtom(Scan(z), a) = [words |-> Scan(z).words, word |-> Append(Scan(z).word, a)]
      BY <2>5 DEF NextAtom
    <3>3. Append(Scan(z).word, a) \in Seq(Solid)
      BY <2>3, <3>1
    <3>4. NextAtom(Scan(z), a) \in A
      BY <2>3, <3>2, <3>3
    <3>. QED BY <2>1, <3>4
  <2>. QED BY <2>4, <2>5
<1>4. Scan(x) \in A
  <2> HIDE DEF S
  <2>1. Seq(Tokens) \subseteq S
    BY <1>1, <1>3, SequenceInduction
  <2>. QED BY <2>1 DEF S
<1>. QED BY <1>2, <1>4 DEF SplitWords

-----------------------------------------------------------------------------
(* Words put together again.                                                *)

Spaced(ws) == [i \in DOMAIN ws |-> IF i = 1 THEN ws[i] ELSE <<Space>> \o ws[i]]

LEMMA SpacedType ==
  ASSUME NEW ws \in Seq(Seq(Tokens))
  PROVE  /\ Spaced(ws) \in Seq(Seq(Tokens)) /\ Len(Spaced(ws)) = Len(ws)
         /\ JoinWords(ws) = FlattenSeq(Spaced(ws))
         /\ JoinWords(ws) \in Seq(Tokens)
         /\ JoinWords(<<>>) = <<>>
<1>1. DOMAIN ws = 1..Len(ws) /\ Len(ws) \in Nat /\ \A i \in 1..Len(ws) : ws[i] \in Seq(Tokens)
  OBVIOUS
<1>2. <<Space>> \in Seq(Tokens)
  BY Blanks
<1>3. \A w \in Seq(Tokens) : <<Space>> \o w \in Seq(Tokens)
  BY <1>2
<1>4. Spaced(ws) \in [1..Len(ws) -> Seq(Tokens)]
  BY <1>1, <1>3 DEF Spaced
<1>5. Spaced(ws) \in Seq(Seq(Tokens)) /\ Len(Spaced(ws)) = Len(ws)
  BY <1>1, <1>4, SequenceOf, Zenon
<1>6. FlattenSeq(Spaced(ws)) \in Seq(Tokens)
  BY <1>2, <1>5, FlattenAppend
<1>7. JoinWords(ws) = FlattenSeq(Spaced(ws))
  BY DEF JoinWords, Spaced
<1>8. JoinWords(<<>>) = <<>>
  BY DEF JoinWords, FlattenSeq
<1>. QED BY <1>5, <1>6, <1>7, <1>8

LEMMA JoinAppend ==
  ASSUME NEW ws \in Seq(Seq(Tokens)), NEW w \in Seq(Tokens)
  PROVE  JoinWords(Append(ws, w)) = IF ws = <<>> THEN w ELSE JoinWords(ws) \o (<<Space>> \o w)
<1> DEFINE last == IF ws = <<>> THEN w ELSE <<Space>> \o w
<1>0. <<Space>> \in Seq(Tokens)
  BY Blanks
<1>1. last \in Seq(Tokens)
  BY <1>0
<1>2. /\ Len(Append(ws, w)) = Len(ws) + 1 /\ Len(ws) \in Nat
      /\ \A i \in 1..Len(ws) : Append(ws, w)[i] = ws[i]
      /\ Append(ws, w)[Len(ws) + 1] = w
  OBVIOUS
<1>3. Append(ws, w) \in Seq(Seq(Tokens)) /\ DOMAIN Append(ws, w) = 1..(Len(ws) + 1) /\ DOMAIN ws = 1..Len(ws)
  OBVIOUS
<1>4. ws = <<>> <=> Len(ws) = 0
  OBVIOUS
<1>5. Spaced(Append(ws, w)) = Append(Spaced(ws), last)
  <2>1. Spaced(ws) \in Seq(Seq(Tokens)) /\ Len(Spaced(ws)) = Len(ws)
    BY SpacedType
  <2>2. Spaced(Append(ws, w)) \in Seq(Seq(Tokens)) /\ Len(Spaced(Append(ws, w))) = Len(ws) + 1
    BY <1>2, <1>3, SpacedType
  <2>3. /\ Append(Spaced(ws), last) \in Seq(Seq(Tokens))
        /\ Len(Append(Spaced(ws), last)) = Len(ws) + 1
        /\ Append(Spaced(ws), last)[Len(ws) + 1] = last
        /\ \A i \in 1..Len(ws) : Append(Spaced(ws), last)[i] = Spaced(ws)[i]
    <3> HIDE DEF last
    <3>. QED BY <1>1, <1>2, <2>1
  <2>4. \A i \in 1..Len(ws) : Spaced(ws)[i] = Spaced(Append(ws, w))[i]
    <3>1. \A i \in 1..Len(ws) : Spaced(ws)[i] = IF i = 1 THEN ws[i] ELSE <<Space>> \o ws[i]
      BY <1>3 DEF Spaced
    <3>2. \A i \in 1..Len(ws) : Spaced(Append(ws, w))[i] = IF i = 1 THEN Append(ws, w)[i] ELSE <<Space>> \o Append(ws, w)[i]
      BY <1>2, <1>3 DEF Spaced
    <3>. QED BY <1>2, <3>1, <3>2
  <2>5. Spaced(Append(ws, w))[Len(ws) + 1] = last
    <3>1. Len(ws) + 1 \in 1..(Len(ws) + 1) /\ (Len(ws) + 1 = 1 <=> ws = <<>>)
      BY <1>2, <1>4
    <3>2. Spaced(Append(ws, w))[Len(ws) + 1] = IF Len(ws) + 1 = 1 THEN Append(ws, w)[Len(ws) + 1]
                                               ELSE <<Space>> \o Append(ws, w)[Len(ws) + 1]
      BY <1>3, <3>1 DEF Spaced
    <3>. QED BY <1>2, <3>1, <3>2
  <2> HIDE DEF last
  <2>6. \A i \in 1..(Len(ws) + 1) : Spaced(Append(ws, w))[i] = Append(Spaced(ws), last)[i]
    <3> TAKE i \in 1..(Len(ws) + 1)
    <3>1. CASE i = Len(ws) + 1
      BY <2>3, <2>5, <3>1
    <3>2. CASE i # Len(ws) + 1
      <4>1. i \in 1..Len(ws)
        BY <1>2, <3>2
      <4>. QED BY <2>3, <2>4, <4>1
    <3>. QED BY <3>1, <3>2
  <2>. QED BY <2>2, <2>3, <2>6
<1>6. FlattenSeq(Append(Spaced(ws), last)) = FlattenSeq(Spaced(ws)) \o last
  <2> HIDE DEF last
  <2>. QED BY <1>1, SpacedType, FlattenAppend
<1>7. JoinWords(Append(ws, w)) = JoinWords(ws) \o last
  <2>1. JoinWords(Append(ws, w)) = FlattenSeq(Spaced(Append(ws, w)))
    BY <1>3, SpacedType
  <2>2. JoinWords(ws) = FlattenSeq(Spaced(ws))
    BY SpacedType
  <2>. QED BY <1>5, <1>6, <2>1, <2>2, Zenon
<1>8. CASE ws = <<>>
  <2>1. JoinWords(ws) = <<>>
    BY <1>8, SpacedType
  <2>. QED BY <1>1, <1>7, <1>8, <2>1
<1>9. CASE ws # <<>>
  BY <1>7, <1>9
<1>. QED BY <1>8, <1>9

\* Atoms of a word go to the word that has not ended.
LEMMA ScanConcat ==
  ASSUME NEW x \in Seq(Tokens), NEW y \in Seq(Solid)
  PROVE  Scan(x \o y) = [words |-> Scan(x).words, word |-> Scan(x).word \o y]
<1> DEFINE S == {z \in Seq(Solid) : Scan(x \o z) = [words |-> Scan(x).words, word |-> Scan(x).word \o z]}
<1>0. Scan(x).words \in Seq(Words) /\ Scan(x).word \in Seq(Solid) /\ Scan(x) \in [words : Seq(Words), word : Seq(Solid)]
  <2>1. Scan(x) \in [words : Seq(Words), word : Seq(Solid)]
    BY ScanType
  <2>. QED BY <2>1
<1>a. Solid \subseteq Tokens
  BY DEF Solid
<1>b. ASSUME NEW u \in Seq(Solid), NEW v \in Seq(Solid), NEW e \in Solid
      PROVE  Append(u \o v, e) = u \o Append(v, e)
  <2> HIDE DEF S
  <2>. QED BY ConcatAppend
<1>1. <<>> \in S
  <2>1. x \o <<>> = x /\ Scan(x).word \o <<>> = Scan(x).word /\ <<>> \in Seq(Solid)
    BY <1>0
  <2>2. Scan(x) = [words |-> Scan(x).words, word |-> Scan(x).word]
    BY <1>0
  <2>. QED BY <2>1, <2>2
<1>2. ASSUME NEW z \in Seq(Solid), NEW a \in Solid, z \in S PROVE Append(z, a) \in S
  <2>1. /\ x \o Append(z, a) = Append(x \o z, a) /\ x \o z \in Seq(Tokens)
        /\ a \in Tokens /\ a \notin White /\ Append(z, a) \in Seq(Solid)
    <3>1. z \in Seq(Tokens) /\ a \in Tokens
      BY <1>a
    <3>. QED BY <3>1 DEF Solid
  <2>2. Scan(x \o Append(z, a)) = NextAtom(Scan(x \o z), a)
    BY <2>1, ScanAppend
  <2>3. Scan(x \o z) = [words |-> Scan(x).words, word |-> Scan(x).word \o z]
    BY <1>2
  <2>4. NextAtom(Scan(x \o z), a) = [words |-> Scan(x).words, word |-> Append(Scan(x).word \o z, a)]
    <3>1. NextAtom(Scan(x \o z), a) = [words |-> Scan(x \o z).words, word |-> Append(Scan(x \o z).word, a)]
      BY <2>1 DEF NextAtom
    <3>. QED BY <2>3, <3>1
  <2>5. Append(Scan(x).word \o z, a) = Scan(x).word \o Append(z, a)
    BY <1>0, <1>b, Zenon
  <2>. QED BY <2>1, <2>2, <2>4, <2>5
<1>. QED
  <2> HIDE DEF S
  <2>1. Seq(Solid) \subseteq S
    BY <1>1, <1>2, SequenceInduction
  <2>. QED BY <2>1 DEF S

-----------------------------------------------------------------------------
(* Replacements that leave the words apart.                                 *)

Norm(x) == JoinWords(SplitWords(x))

LEMMA PutTokens ==
  ASSUME NEW h, Swaps(h, Tokens)
  PROVE  /\ Put(h, <<>>) = <<>>
         /\ \A x \in Seq(Tokens) : Put(h, x) \in Seq(Tokens)
         /\ \A a \in Tokens : h[a] \in Seq(Tokens) /\ Put(h, <<a>>) = h[a]
         /\ \A x \in Seq(Tokens), a \in Tokens : Put(h, Append(x, a)) = Put(h, x) \o h[a]
         /\ \A x, y \in Seq(Tokens) : Put(h, x \o y) = Put(h, x) \o Put(h, y)
<1>1. ASSUME NEW x \in Seq(Tokens) PROVE Put(h, x) \in Seq(Tokens)
  BY PutType
<1>2. ASSUME NEW a \in Tokens PROVE h[a] \in Seq(Tokens)
  BY DEF Swaps
<1>3. ASSUME NEW a \in Tokens PROVE Put(h, <<a>>) = h[a]
  <2>1. <<>> \in Seq(Tokens)
    OBVIOUS
  <2>. QED BY <2>1, PutAppend
<1>4. ASSUME NEW x \in Seq(Tokens), NEW a \in Tokens PROVE Put(h, Append(x, a)) = Put(h, x) \o h[a]
  BY PutAppend
<1>5. ASSUME NEW x \in Seq(Tokens), NEW y \in Seq(Tokens) PROVE Put(h, x \o y) = Put(h, x) \o Put(h, y)
  BY PutConcat
<1>6. Put(h, <<>>) = <<>>
  BY DEF Put, FlattenSeq
<1>. QED BY <1>1, <1>2, <1>3, <1>4, <1>5, <1>6

\* A replacement that makes words of the atoms of words and leaves white space alone.
Respects(h) ==
    /\ Swaps(h, Tokens)
    /\ \A a \in White : h[a] = <<a>>
    /\ \A a \in Solid : h[a] \in Words

LEMMA SolidTokens == Solid \subseteq Tokens /\ Seq(Solid) \subseteq Seq(Tokens) /\ Words \subseteq Seq(Solid)
<1>1. Solid \subseteq Tokens
  BY DEF Solid
<1>. QED BY <1>1 DEF Words

\* The same of words of the same length.
LEMMA PutSolid ==
  ASSUME NEW h, Respects(h), NEW x \in Seq(Solid)
  PROVE  Put(h, x) \in Seq(Solid) /\ (x # <<>> => Put(h, x) # <<>>)
<1> DEFINE S == {z \in Seq(Solid) : Put(h, z) \in Seq(Solid) /\ (z # <<>> => Put(h, z) # <<>>)}
<1>0. Swaps(h, Tokens)
  BY DEF Respects
<1>1. <<>> \in S
  <2>1. Put(h, <<>>) = <<>> /\ <<>> \in Seq(Solid)
    BY DEF Put, FlattenSeq
  <2>. QED BY <2>1
<1>2. ASSUME NEW z \in Seq(Solid), NEW a \in Solid, z \in S PROVE Append(z, a) \in S
  <2>1. z \in Seq(Tokens) /\ a \in Tokens
    BY SolidTokens
  <2>2. Append(z, a) \in Seq(Solid) /\ Put(h, z) \in Seq(Solid)
    BY <1>2
  <2>3. h[a] \in Seq(Solid) /\ h[a] # <<>>
    BY DEF Respects, Words
  <2>4. Put(h, Append(z, a)) = Put(h, z) \o h[a]
    <3> HIDE DEF S
    <3>. QED BY <1>0, <2>1, PutTokens
  <2>5. Put(h, z) \o h[a] \in Seq(Solid) /\ Put(h, z) \o h[a] # <<>>
    <3>1. \A u, v \in Seq(Solid) : u \o v \in Seq(Solid) /\ (v # <<>> => u \o v # <<>>)
      OBVIOUS
    <3>. QED BY <2>2, <2>3, <3>1, Zenon
  <2>. QED BY <2>2, <2>4, <2>5
<1>. QED
  <2> HIDE DEF S
  <2>1. Seq(Solid) \subseteq S
    BY <1>1, <1>2, SequenceInduction
  <2>. QED BY <2>1 DEF S

PutEach(h, ws) == [i \in DOMAIN ws |-> Put(h, ws[i])]

LEMMA PutEachAppend ==
  ASSUME NEW h, Swaps(h, Tokens), NEW ws \in Seq(Seq(Tokens)), NEW w \in Seq(Tokens)
  PROVE  /\ PutEach(h, <<>>) = <<>>
         /\ PutEach(h, ws) \in Seq(Seq(Tokens)) /\ Len(PutEach(h, ws)) = Len(ws)
         /\ PutEach(h, Append(ws, w)) = Append(PutEach(h, ws), Put(h, w))
<1>0. \A x \in Seq(Tokens) : Put(h, x) \in Seq(Tokens)
  BY PutTokens
<1>1. ASSUME NEW s \in Seq(Seq(Tokens))
      PROVE  PutEach(h, s) \in Seq(Seq(Tokens)) /\ Len(PutEach(h, s)) = Len(s)
  <2>1. DOMAIN s = 1..Len(s) /\ Len(s) \in Nat /\ \A i \in 1..Len(s) : s[i] \in Seq(Tokens)
    OBVIOUS
  <2>2. PutEach(h, s) \in [1..Len(s) -> Seq(Tokens)]
    BY <1>0, <2>1 DEF PutEach
  <2>3. Len(s) \in Nat
    BY <2>1
  <2>. QED BY <2>2, <2>3, SequenceOf
<1>2. /\ Len(Append(ws, w)) = Len(ws) + 1 /\ Len(ws) \in Nat
      /\ \A i \in 1..Len(ws) : Append(ws, w)[i] = ws[i]
      /\ Append(ws, w)[Len(ws) + 1] = w
  OBVIOUS
<1>3. /\ Append(ws, w) \in Seq(Seq(Tokens)) /\ DOMAIN Append(ws, w) = 1..(Len(ws) + 1) /\ DOMAIN ws = 1..Len(ws)
  OBVIOUS
<1>4. PutEach(h, Append(ws, w)) \in Seq(Seq(Tokens)) /\ Len(PutEach(h, Append(ws, w))) = Len(ws) + 1
  BY <1>1, <1>2, <1>3
<1>5. /\ Append(PutEach(h, ws), Put(h, w)) \in Seq(Seq(Tokens))
      /\ Len(Append(PutEach(h, ws), Put(h, w))) = Len(ws) + 1
      /\ Append(PutEach(h, ws), Put(h, w))[Len(ws) + 1] = Put(h, w)
      /\ \A i \in 1..Len(ws) : Append(PutEach(h, ws), Put(h, w))[i] = PutEach(h, ws)[i]
  <2>1. PutEach(h, ws) \in Seq(Seq(Tokens)) /\ Len(PutEach(h, ws)) = Len(ws) /\ Put(h, w) \in Seq(Tokens)
    BY <1>0, <1>1
  <2>. QED BY <1>2, <2>1
<1>6. \A i \in 1..(Len(ws) + 1) : PutEach(h, Append(ws, w))[i] = Put(h, Append(ws, w)[i])
  BY <1>3 DEF PutEach
<1>7. \A i \in 1..Len(ws) : PutEach(h, ws)[i] = Put(h, ws[i])
  BY <1>3 DEF PutEach
<1>8. \A i \in 1..(Len(ws) + 1) : PutEach(h, Append(ws, w))[i] = Append(PutEach(h, ws), Put(h, w))[i]
  <2> TAKE i \in 1..(Len(ws) + 1)
  <2>1. CASE i = Len(ws) + 1
    BY <1>2, <1>5, <1>6, <2>1
  <2>2. CASE i # Len(ws) + 1
    <3>1. i \in 1..Len(ws)
      BY <1>2, <2>2
    <3>. QED BY <1>2, <1>5, <1>6, <1>7, <3>1
  <2>. QED BY <2>1, <2>2
<1>9. PutEach(h, Append(ws, w)) = Append(PutEach(h, ws), Put(h, w))
  BY <1>2, <1>4, <1>5, <1>8
<1>10. PutEach(h, <<>>) = <<>>
  BY DEF PutEach
<1>. QED BY <1>1, <1>9, <1>10

LEMMA ScanPut ==
  ASSUME NEW h, Respects(h), NEW x \in Seq(Tokens)
  PROVE  Scan(Put(h, x)) = [words |-> PutEach(h, Scan(x).words), word |-> Put(h, Scan(x).word)]
<1> DEFINE Scanned(z) == [words |-> PutEach(h, Scan(z).words), word |-> Put(h, Scan(z).word)]
           S == {z \in Seq(Tokens) : Scan(Put(h, z)) = Scanned(z)}
<1>0. Swaps(h, Tokens) /\ Space \in Tokens
  BY Blanks DEF Respects
<1>1. <<>> \in S
  <2>1. Put(h, <<>>) = <<>> /\ PutEach(h, <<>>) = <<>>
    BY DEF Put, FlattenSeq, PutEach
  <2>2. Scan(<<>>) = NoScan /\ <<>> \in Seq(Tokens)
    <3>1. <<>> \in Seq(Tokens)
      OBVIOUS
    <3> HIDE DEF S
    <3>. QED BY <1>0, <3>1, ScanAppend
  <2>. QED BY <2>1, <2>2 DEF NoScan
<1>2. ASSUME NEW z \in Seq(Tokens), NEW a \in Tokens, z \in S PROVE Append(z, a) \in S
  <2>1. Scan(Put(h, z)) = Scanned(z) /\ Append(z, a) \in Seq(Tokens)
    BY <1>2
  <2> HIDE DEF S
  <2>2. /\ Put(h, Append(z, a)) = Put(h, z) \o h[a] /\ Put(h, z) \in Seq(Tokens)
        /\ h[a] \in Seq(Tokens)
    BY <1>0, PutTokens
  <2>3. Scan(Append(z, a)) = NextAtom(Scan(z), a)
    BY ScanAppend
  <2>4. Scan(z).words \in Seq(Words) /\ Scan(z).word \in Seq(Solid)
    <3>1. Scan(z) \in [words : Seq(Words), word : Seq(Solid)]
      BY ScanType
    <3>. QED BY <3>1
  <2>5. Scan(z).words \in Seq(Seq(Tokens)) /\ Scan(z).word \in Seq(Tokens)
    BY <2>4, SolidTokens
  <2>6. CASE a \in White
    <3>1. h[a] = <<a>>
      BY <2>6 DEF Respects
    <3>2. Put(h, z) \o <<a>> = Append(Put(h, z), a)
      BY <2>2
    <3>3. Scan(Put(h, Append(z, a))) = NextAtom(Scanned(z), a)
      <4>1. Scan(Append(Put(h, z), a)) = NextAtom(Scan(Put(h, z)), a)
        BY <2>2, ScanAppend
      <4>2. Put(h, Append(z, a)) = Append(Put(h, z), a)
        BY <2>2, <3>1, <3>2, Zenon
      <4>. QED BY <2>1, <4>1, <4>2, Zenon
    <3>4. NextAtom(Scanned(z), a) = [words |-> EndWord(Scanned(z)), word |-> <<>>]
      BY <2>6 DEF NextAtom
    <3>5. EndWord(Scanned(z)) = PutEach(h, EndWord(Scan(z)))
      <4>1. CASE Scan(z).word = <<>>
        <5>1. Put(h, Scan(z).word) = <<>>
          BY <4>1 DEF Put, FlattenSeq
        <5>. QED BY <4>1, <5>1 DEF EndWord
      <4>2. CASE Scan(z).word # <<>>
        <5>1. Put(h, Scan(z).word) # <<>>
          BY <2>4, <4>2, PutSolid
        <5>2. PutEach(h, Append(Scan(z).words, Scan(z).word))
                = Append(PutEach(h, Scan(z).words), Put(h, Scan(z).word))
          BY <1>0, <2>5, PutEachAppend
        <5>. QED BY <4>2, <5>1, <5>2 DEF EndWord
      <4>. QED BY <4>1, <4>2
    <3>6. Scan(Append(z, a)) = [words |-> EndWord(Scan(z)), word |-> <<>>]
      BY <2>3, <2>6 DEF NextAtom
    <3>7. Put(h, <<>>) = <<>>
      BY DEF Put, FlattenSeq
    <3>8. Scanned(Append(z, a)) = [words |-> PutEach(h, EndWord(Scan(z))), word |-> <<>>]
      BY <3>6, <3>7
    <3>9. Scan(Put(h, Append(z, a))) = Scanned(Append(z, a))
      BY <3>3, <3>4, <3>5, <3>8, Zenon
    <3>. QED BY <2>1, <3>9 DEF S
  <2>7. CASE a \notin White
    <3>1. h[a] \in Seq(Solid) /\ a \in Solid
      BY <2>7 DEF Respects, Words, Solid
    <3>2. Scan(Put(h, z) \o h[a]) = [words |-> Scan(Put(h, z)).words, word |-> Scan(Put(h, z)).word \o h[a]]
      BY <2>2, <3>1, ScanConcat
    <3>3. Scan(Put(h, Append(z, a))) = [words |-> PutEach(h, Scan(z).words), word |-> Put(h, Scan(z).word) \o h[a]]
      BY <2>1, <2>2, <3>2
    <3>4. Scan(Append(z, a)) = [words |-> Scan(z).words, word |-> Append(Scan(z).word, a)]
      BY <2>3, <2>7 DEF NextAtom
    <3>5. Put(h, Append(Scan(z).word, a)) = Put(h, Scan(z).word) \o h[a]
      BY <1>0, <2>5, PutTokens
    <3>6. Scan(Append(z, a)).words = Scan(z).words /\ Scan(Append(z, a)).word = Append(Scan(z).word, a)
      BY <3>4
    <3>7. Scan(Put(h, Append(z, a))) = Scanned(Append(z, a))
      BY <3>3, <3>5, <3>6, Zenon
    <3>. QED BY <2>1, <3>7 DEF S
  <2>. QED BY <2>6, <2>7
<1>. QED
  <2> HIDE DEF S
  <2>1. Seq(Tokens) \subseteq S
    BY <1>1, <1>2, SequenceInduction
  <2>. QED BY <2>1 DEF S

LEMMA SplitPut ==
  ASSUME NEW h, Respects(h), NEW x \in Seq(Tokens)
  PROVE  SplitWords(Put(h, x)) = PutEach(h, SplitWords(x))
<1>0. Swaps(h, Tokens)
  BY DEF Respects
<1>1. Scan(Put(h, x)) = [words |-> PutEach(h, Scan(x).words), word |-> Put(h, Scan(x).word)]
  BY ScanPut
<1>2. Scan(Put(h, x)).words = PutEach(h, Scan(x).words) /\ Scan(Put(h, x)).word = Put(h, Scan(x).word)
  BY <1>1
<1>3. Scan(x).words \in Seq(Words) /\ Scan(x).word \in Seq(Solid)
  <2>1. Scan(x) \in [words : Seq(Words), word : Seq(Solid)]
    BY ScanType
  <2>. QED BY <2>1
<1>4. Scan(x).words \in Seq(Seq(Tokens)) /\ Scan(x).word \in Seq(Tokens)
  BY <1>3, SolidTokens
<1>5. CASE Scan(x).word = <<>>
  <2>1. Put(h, Scan(x).word) = <<>>
    BY <1>5 DEF Put, FlattenSeq
  <2>. QED BY <1>2, <1>5, <2>1 DEF SplitWords, EndWord
<1>6. CASE Scan(x).word # <<>>
  <2>1. Put(h, Scan(x).word) # <<>>
    BY <1>3, <1>6, PutSolid
  <2>2. PutEach(h, Append(Scan(x).words, Scan(x).word))
          = Append(PutEach(h, Scan(x).words), Put(h, Scan(x).word))
    BY <1>0, <1>4, PutEachAppend
  <2>. QED BY <1>2, <1>6, <2>1, <2>2 DEF SplitWords, EndWord
<1>. QED BY <1>5, <1>6

LEMMA JoinPut ==
  ASSUME NEW h, Respects(h), NEW ws \in Seq(Seq(Tokens))
  PROVE  JoinWords(PutEach(h, ws)) = Put(h, JoinWords(ws))
<1> DEFINE S == {s \in Seq(Seq(Tokens)) : JoinWords(PutEach(h, s)) = Put(h, JoinWords(s))}
<1>0. Swaps(h, Tokens) /\ h[Space] = <<Space>> /\ Space \in Tokens /\ <<Space>> \in Seq(Tokens)
  BY Blanks DEF Respects, White
<1>1. <<>> \in S
  <2>1. PutEach(h, <<>>) = <<>> /\ JoinWords(<<>>) = <<>> /\ Put(h, <<>>) = <<>>
    BY DEF PutEach, JoinWords, Put, FlattenSeq
  <2>. QED BY <2>1
<1>2. ASSUME NEW s \in Seq(Seq(Tokens)), NEW w \in Seq(Tokens), s \in S PROVE Append(s, w) \in S
  <2>1. JoinWords(PutEach(h, s)) = Put(h, JoinWords(s)) /\ Append(s, w) \in Seq(Seq(Tokens))
    BY <1>2
  <2> HIDE DEF S
  <2>2. PutEach(h, Append(s, w)) = Append(PutEach(h, s), Put(h, w))
    BY <1>0, PutEachAppend
  <2>3. PutEach(h, s) \in Seq(Seq(Tokens)) /\ Len(PutEach(h, s)) = Len(s) /\ PutEach(h, <<>>) = <<>>
    BY <1>0, PutEachAppend
  <2>4. Put(h, w) \in Seq(Tokens)
    BY <1>0, PutTokens
  <2>5. CASE s = <<>>
    <3>1. PutEach(h, s) = <<>>
      BY <2>3, <2>5
    <3>2. JoinWords(Append(s, w)) = w
      BY <2>5, JoinAppend
    <3>3. JoinWords(Append(PutEach(h, s), Put(h, w))) = Put(h, w)
      BY <2>3, <2>4, <3>1, JoinAppend
    <3>. QED BY <2>1, <2>2, <3>2, <3>3 DEF S
  <2>6. CASE s # <<>>
    <3>1. PutEach(h, s) # <<>>
      <4>1. Len(s) # 0 /\ Len(<<>>) = 0
        BY <2>6
      <4>. QED BY <2>3, <4>1
    <3>2. JoinWords(Append(s, w)) = JoinWords(s) \o (<<Space>> \o w)
      BY <2>6, JoinAppend
    <3>3. JoinWords(Append(PutEach(h, s), Put(h, w))) = JoinWords(PutEach(h, s)) \o (<<Space>> \o Put(h, w))
      BY <2>3, <2>4, <3>1, JoinAppend
    <3>4. JoinWords(s) \in Seq(Tokens)
      BY SpacedType
    <3>5. <<Space>> \o w \in Seq(Tokens)
      BY <1>0
    <3>6. Put(h, JoinWords(s) \o (<<Space>> \o w)) = Put(h, JoinWords(s)) \o Put(h, <<Space>> \o w)
      BY <1>0, <3>4, <3>5, PutTokens
    <3>7. Put(h, <<Space>> \o w) = Put(h, <<Space>>) \o Put(h, w)
      BY <1>0, PutTokens
    <3>8. Put(h, <<Space>>) = <<Space>>
      BY <1>0, PutTokens
    <3>9. JoinWords(PutEach(h, Append(s, w))) = Put(h, JoinWords(Append(s, w)))
      BY <2>1, <2>2, <3>2, <3>3, <3>6, <3>7, <3>8, Zenon
    <3>. QED BY <2>1, <3>9 DEF S
  <2>. QED BY <2>5, <2>6
<1>. QED
  <2> HIDE DEF S
  <2>1. Seq(Seq(Tokens)) \subseteq S
    BY <1>1, <1>2, SequenceInduction
  <2>. QED BY <2>1 DEF S

LEMMA NormType ==
  ASSUME NEW x \in Seq(Tokens)
  PROVE  Norm(x) \in Seq(Tokens) /\ SplitWords(x) \in Seq(Words) /\ SplitWords(x) \in Seq(Seq(Tokens))
<1>1. SplitWords(x) \in Seq(Words)
  BY ScanType
<1>2. SplitWords(x) \in Seq(Seq(Tokens))
  BY <1>1, SolidTokens
<1>. QED BY <1>1, <1>2, SpacedType DEF Norm

\* What respects words and white space can be put before or after the white
\* space is evened out.
LEMMA NormPut ==
  ASSUME NEW h, Respects(h), NEW x \in Seq(Tokens)
  PROVE  Norm(Put(h, x)) = Put(h, Norm(x))
<1>1. SplitWords(x) \in Seq(Seq(Tokens))
  BY NormType
<1>2. JoinWords(PutEach(h, SplitWords(x))) = Put(h, JoinWords(SplitWords(x)))
  BY <1>1, JoinPut
<1>3. SplitWords(Put(h, x)) = PutEach(h, SplitWords(x))
  BY SplitPut
<1>. QED BY <1>2, <1>3 DEF Norm

\* Words that are joined can be split again.
LEMMA SplitJoin ==
  ASSUME NEW ws \in Seq(Words)
  PROVE  SplitWords(JoinWords(ws)) = ws
<1> DEFINE S == {s \in Seq(Words) : SplitWords(JoinWords(s)) = s}
<1>0. Space \in Tokens /\ <<>> \in Seq(Tokens) /\ <<Space>> \in Seq(Tokens) /\ Space \in White
  BY Blanks DEF White
<1>1. <<>> \in S
  <2>1. JoinWords(<<>>) = <<>> /\ Scan(<<>>) = NoScan
    <3> HIDE DEF S
    <3>1. JoinWords(<<>>) = <<>>
      BY DEF JoinWords, FlattenSeq
    <3>. QED BY <1>0, <3>1, ScanAppend
  <2>. QED BY <2>1 DEF SplitWords, EndWord, NoScan
<1>2. ASSUME NEW s \in Seq(Words), NEW w \in Words, s \in S PROVE Append(s, w) \in S
  <2>1. /\ SplitWords(JoinWords(s)) = s /\ Append(s, w) \in Seq(Words)
        /\ w \in Seq(Solid) /\ w # <<>>
    BY <1>2 DEF Words
  <2> HIDE DEF S
  <2>2. s \in Seq(Seq(Tokens)) /\ w \in Seq(Tokens)
    BY SolidTokens
  <2>3. CASE s = <<>>
    <3>0. <<>> \o w = w
      BY <2>1, ConcatEmpty
    <3>1. JoinWords(Append(s, w)) = w
      BY <2>2, <2>3, JoinAppend
    <3>2. Scan(<<>> \o w) = [words |-> Scan(<<>>).words, word |-> Scan(<<>>).word \o w]
      BY <1>0, <2>1, ScanConcat
    <3>3. Scan(<<>>) = NoScan
      BY <1>0, ScanAppend
    <3>4. Scan(JoinWords(Append(s, w))) = [words |-> <<>>, word |-> w]
      <4>1. NoScan.words = <<>> /\ NoScan.word = <<>>
        BY DEF NoScan
      <4>2. Scan(<<>> \o w) = [words |-> <<>>, word |-> <<>> \o w]
        BY <3>2, <3>3, <4>1, Zenon
      <4>. QED BY <3>0, <3>1, <4>2, Zenon
    <3>5. SplitWords(JoinWords(Append(s, w))) = Append(s, w)
      <4>1. EndWord([words |-> <<>>, word |-> w]) = Append(<<>>, w)
        BY <2>1 DEF EndWord
      <4>. QED BY <2>3, <3>4, <4>1 DEF SplitWords
    <3>. QED BY <2>1, <3>5 DEF S
  <2>4. CASE s # <<>>
    <3> DEFINE x == JoinWords(s)
               y == Append(x, Space)
    <3>0. x \in Seq(Tokens)
      BY <2>2, SpacedType
    <3>1. JoinWords(Append(s, w)) = x \o (<<Space>> \o w)
      BY <2>2, <2>4, JoinAppend
    <3>2. EndWord(Scan(x)) = s
      BY <2>1 DEF SplitWords
    <3> HIDE DEF x
    <3>3. x \o (<<Space>> \o w) = y \o w /\ y \in Seq(Tokens)
      <4>1. y = x \o <<Space>> /\ y \in Seq(Tokens)
        BY <1>0, <3>0
      <4>2. (x \o <<Space>>) \o w = x \o (<<Space>> \o w)
        BY <1>0, <2>2, <3>0, ConcatAssociates
      <4> HIDE DEF y
      <4>. QED BY <4>1, <4>2, Zenon
    <3>4. Scan(y) = [words |-> s, word |-> <<>>]
      BY <1>0, <3>0, <3>2, ScanAppend DEF NextAtom
    <3> HIDE DEF y
    <3>5. Scan(y \o w) = [words |-> Scan(y).words, word |-> Scan(y).word \o w]
      BY <2>1, <3>3, ScanConcat
    <3>6. Scan(y \o w) = [words |-> s, word |-> w]
      BY <2>1, <3>4, <3>5
    <3>7. SplitWords(y \o w) = Append(s, w)
      BY <2>1, <3>6 DEF SplitWords, EndWord
    <3>8. SplitWords(JoinWords(Append(s, w))) = Append(s, w)
      BY <3>1, <3>3, <3>7, Zenon
    <3>. QED BY <2>1, <3>8 DEF S
  <2>. QED BY <2>3, <2>4
<1>. QED
  <2> HIDE DEF S
  <2>1. Seq(Words) \subseteq S
    BY <1>1, <1>2, SequenceInduction
  <2>. QED BY <2>1 DEF S

LEMMA NormNorm ==
  ASSUME NEW x \in Seq(Tokens)
  PROVE  Norm(Norm(x)) = Norm(x)
<1>1. SplitWords(x) \in Seq(Words)
  BY NormType
<1>2. SplitWords(JoinWords(SplitWords(x))) = SplitWords(x)
  BY <1>1, SplitJoin
<1>. QED BY <1>2 DEF Norm

-----------------------------------------------------------------------------
(* A piece of a text and its words.                                         *)

\* Where a text stops: before its first word, within a word or behind one.
Stage(x) == IF Scan(x).word # <<>> THEN "within"
            ELSE IF Scan(x).words # <<>> THEN "behind" ELSE "before"

Gap(x) == IF Stage(x) = "behind" THEN <<Space>> ELSE <<>>

LEMMA NormAppend ==
  ASSUME NEW x \in Seq(Tokens), NEW a \in Tokens
  PROVE  /\ Stage(Append(x, a)) = IF a \notin White THEN "within"
                                  ELSE IF Stage(x) = "before" THEN "before" ELSE "behind"
         /\ Norm(Append(x, a)) = IF a \in White THEN Norm(x) ELSE Norm(x) \o (Gap(x) \o <<a>>)
         /\ Stage(x) = "before" => Norm(x) = <<>>
<1> DEFINE ws == Scan(x).words
           w == Scan(x).word
           next == Scan(Append(x, a))
<1>1. next = NextAtom(Scan(x), a)
  BY ScanAppend
<1>2. ws \in Seq(Words) /\ w \in Seq(Solid)
  <2>1. Scan(x) \in [words : Seq(Words), word : Seq(Solid)]
    BY ScanType
  <2>. QED BY <2>1
<1>3. ws \in Seq(Seq(Tokens)) /\ w \in Seq(Tokens)
  BY <1>2, SolidTokens
<1>4. <<Space>> \in Seq(Tokens) /\ <<a>> \in Seq(Tokens) /\ <<>> \in Seq(Tokens)
  BY Blanks
<1>5. Norm(x) = JoinWords(IF w = <<>> THEN ws ELSE Append(ws, w))
  BY DEF Norm, SplitWords, EndWord
<1>6. Norm(Append(x, a)) = JoinWords(IF next.word = <<>> THEN next.words ELSE Append(next.words, next.word))
  BY DEF Norm, SplitWords, EndWord
<1>7. Stage(x) = IF w # <<>> THEN "within" ELSE IF ws # <<>> THEN "behind" ELSE "before"
  BY DEF Stage
<1>8. Stage(Append(x, a)) = IF next.word # <<>> THEN "within" ELSE IF next.words # <<>> THEN "behind" ELSE "before"
  BY DEF Stage
<1>9. Append(ws, w) # <<>> /\ Append(w, a) # <<>>
  <2> HIDE DEF ws, w
  <2>1. Append(ws, w) # <<>>
    BY <1>3, AppendNotEmpty
  <2>2. Append(w, a) # <<>>
    BY <1>3, AppendNotEmpty
  <2>. QED BY <2>1, <2>2
<1>10. EndWord(Scan(x)) = IF w = <<>> THEN ws ELSE Append(ws, w)
  BY DEF EndWord
<1>11. a \in White => next.words = (IF w = <<>> THEN ws ELSE Append(ws, w)) /\ next.word = <<>>
  BY <1>1, <1>10 DEF NextAtom
<1>12. a \notin White => next.words = ws /\ next.word = Append(w, a)
  BY <1>1 DEF NextAtom
<1>13. ASSUME NEW v \in Seq(Tokens)
       PROVE  JoinWords(Append(ws, v)) = IF ws = <<>> THEN v ELSE JoinWords(ws) \o (<<Space>> \o v)
  BY <1>3, JoinAppend
<1>14. JoinWords(ws) \in Seq(Tokens) /\ JoinWords(<<>>) = <<>>
  BY <1>3, SpacedType
<1> HIDE DEF ws, w, next
<1>15. Stage(Append(x, a)) = IF a \notin White THEN "within"
                             ELSE IF Stage(x) = "before" THEN "before" ELSE "behind"
  <2>1. CASE a \in White
    BY <1>7, <1>8, <1>9, <1>11, <2>1
  <2>2. CASE a \notin White
    BY <1>8, <1>9, <1>12, <2>2
  <2>. QED BY <2>1, <2>2
<1>16. Norm(Append(x, a)) = IF a \in White THEN Norm(x) ELSE Norm(x) \o (Gap(x) \o <<a>>)
  <2>1. CASE a \in White
    BY <1>5, <1>6, <1>11, <2>1, Zenon
  <2>2. CASE a \notin White
    <3>1. Norm(Append(x, a)) = JoinWords(Append(ws, Append(w, a)))
      BY <1>6, <1>9, <1>12, <2>2, Zenon
    <3>2. Append(w, a) \in Seq(Tokens) /\ Append(w, a) = w \o <<a>>
      BY <1>3
    <3>3. Norm(Append(x, a)) = IF ws = <<>> THEN w \o <<a>> ELSE JoinWords(ws) \o (<<Space>> \o (w \o <<a>>))
      BY <1>13, <3>1, <3>2, Zenon
    <3>4. ASSUME NEW u \in Seq(Tokens) PROVE <<>> \o u = u /\ u \o <<>> = u
      OBVIOUS
    <3>5. CASE w # <<>>
      <4>1. Gap(x) = <<>>
        BY <1>7, <3>5 DEF Gap
      <4>2. Norm(x) = IF ws = <<>> THEN w ELSE JoinWords(ws) \o (<<Space>> \o w)
        BY <1>3, <1>5, <1>13, <3>5, Zenon
      <4>3. JoinWords(ws) \o (<<Space>> \o (w \o <<a>>)) = (JoinWords(ws) \o (<<Space>> \o w)) \o <<a>>
        <5>1. <<Space>> \o (w \o <<a>>) = (<<Space>> \o w) \o <<a>> /\ <<Space>> \o w \in Seq(Tokens)
          BY <1>3, <1>4, ConcatAssociates
        <5>2. JoinWords(ws) \o ((<<Space>> \o w) \o <<a>>) = (JoinWords(ws) \o (<<Space>> \o w)) \o <<a>>
          BY <1>4, <1>14, <5>1, ConcatAssociates
        <5>. QED BY <5>1, <5>2, Zenon
      <4>4. <<>> \o <<a>> = <<a>>
        BY <1>4, <3>4
      <4>. QED BY <2>2, <3>3, <4>1, <4>2, <4>3, <4>4, Zenon
    <3>6. CASE w = <<>>
      <4>1. Norm(x) = JoinWords(ws) /\ w \o <<a>> = <<a>>
        BY <1>4, <1>5, <3>4, <3>6, Zenon
      <4>2. CASE ws = <<>>
        <5>1. Gap(x) = <<>>
          BY <1>7, <3>6, <4>2 DEF Gap
        <5>2. Norm(x) = <<>>
          BY <1>14, <4>1, <4>2, Zenon
        <5>3. <<>> \o (<<>> \o <<a>>) = <<a>>
          BY <1>4, <3>4, Zenon
        <5>. QED BY <2>2, <3>3, <4>1, <4>2, <5>1, <5>2, <5>3, Zenon
      <4>3. CASE ws # <<>>
        <5>1. Gap(x) = <<Space>>
          BY <1>7, <3>6, <4>3 DEF Gap
        <5>. QED BY <2>2, <3>3, <4>1, <4>3, <5>1, Zenon
      <4>. QED BY <4>2, <4>3
    <3>. QED BY <3>5, <3>6
  <2>. QED BY <2>1, <2>2
<1>17. Stage(x) = "before" => Norm(x) = <<>>
  BY <1>5, <1>7, <1>14
<1>. QED BY <1>15, <1>16, <1>17

\* What stands before stays before, behind it something may come.
LEMMA NormPrefix ==
  ASSUME NEW x \in Seq(Tokens), NEW y \in Seq(Tokens)
  PROVE  \E z \in Seq(Tokens) : Norm(x \o y) = Norm(x) \o z
<1> DEFINE S == {t \in Seq(Tokens) : \E z \in Seq(Tokens) : Norm(x \o t) = Norm(x) \o z}
<1>1. <<>> \in S
  <2>1. x \o <<>> = x /\ <<>> \in Seq(Tokens)
    OBVIOUS
  <2>2. Norm(x) \o <<>> = Norm(x)
    <3> HIDE DEF S
    <3>1. Norm(x) \in Seq(Tokens)
      BY NormType
    <3>. QED BY <3>1
  <2>3. Norm(x \o <<>>) = Norm(x) \o <<>>
    BY <2>1, <2>2, Zenon
  <2>. QED BY <2>1, <2>3, Zenon
<1>2. ASSUME NEW t \in Seq(Tokens), NEW a \in Tokens, t \in S PROVE Append(t, a) \in S
  <2>1. PICK z \in Seq(Tokens) : Norm(x \o t) = Norm(x) \o z
    BY <1>2, Zenon
  <2>2. x \o Append(t, a) = Append(x \o t, a) /\ x \o t \in Seq(Tokens) /\ Append(t, a) \in Seq(Tokens)
    OBVIOUS
  <2>3. \E y1 \in Seq(Tokens) : Norm(x \o Append(t, a)) = Norm(x) \o y1
    <3> HIDE DEF S
    <3>1. Norm(Append(x \o t, a)) = IF a \in White THEN Norm(x \o t)
                                    ELSE Norm(x \o t) \o (Gap(x \o t) \o <<a>>)
      BY <2>2, NormAppend
    <3>2. CASE a \in White
      BY <2>1, <2>2, <3>1, <3>2, Zenon
    <3>3. CASE a \notin White
      <4> DEFINE g == Gap(x \o t) \o <<a>>
                 p == Norm(x)
      <4>1. g \in Seq(Tokens)
        BY Blanks DEF Gap
      <4>2. p \in Seq(Tokens)
        BY NormType
      <4>3. Norm(x \o Append(t, a)) = (p \o z) \o g
        BY <2>1, <2>2, <3>1, <3>3, Zenon
      <4> HIDE DEF g, p
      <4>4. (p \o z) \o g = p \o (z \o g) /\ z \o g \in Seq(Tokens)
        <5>1. p \in Seq(Tokens) /\ z \in Seq(Tokens) /\ g \in Seq(Tokens)
          BY <2>1, <4>1, <4>2
        <5>. QED BY <5>1, ConcatTokens, SMTT(30)
      <4>. QED BY <4>3, <4>4, Zenon DEF p
    <3>. QED BY <3>2, <3>3
  <2>. QED BY <2>2, <2>3, Zenon
<1>. QED
  <2> HIDE DEF S
  <2>1. Seq(Tokens) \subseteq S
    BY <1>1, <1>2, SequenceInduction
  <2>2. y \in S
    BY <2>1
  <2>. QED BY <2>2 DEF S

LEMMA NormSuffix ==
  ASSUME NEW x \in Seq(Tokens), NEW y \in Seq(Tokens)
  PROVE  \E z \in Seq(Tokens) : Norm(x \o y) = z \o Norm(y)
<1> DEFINE Ends(t) == \E z \in Seq(Tokens) : Norm(x \o t) = z \o Norm(t)
           S == {t \in Seq(Tokens) : Ends(t) /\ (Stage(t) # "before" => Stage(x \o t) = Stage(t))}
<1>1. <<>> \in S
  <2>1. x \o <<>> = x /\ <<>> \in Seq(Tokens)
    OBVIOUS
  <2>2. Space \in Tokens
    BY Blanks
  <2>3. Scan(<<>>) = NoScan
    <3> HIDE DEF S
    <3>. QED BY <2>1, <2>2, ScanAppend
  <2>4. Stage(<<>>) = "before"
    BY <2>3 DEF Stage, NoScan
  <2>5. Norm(<<>>) = <<>>
    <3> HIDE DEF S
    <3>. QED BY <2>1, <2>2, <2>4, NormAppend
  <2>6. Norm(x) \in Seq(Tokens) /\ Norm(x) \o <<>> = Norm(x)
    <3> HIDE DEF S
    <3>1. Norm(x) \in Seq(Tokens)
      BY NormType
    <3>. QED BY <3>1
  <2>7. Norm(x \o <<>>) = Norm(x) \o Norm(<<>>)
    BY <2>1, <2>5, <2>6, Zenon
  <2>8. Ends(<<>>)
    BY <2>6, <2>7, Zenon
  <2> HIDE DEF Ends
  <2>. QED BY <2>1, <2>4, <2>8, Zenon
<1>2. ASSUME NEW t \in Seq(Tokens), NEW a \in Tokens, t \in S PROVE Append(t, a) \in S
  <2>1. PICK z \in Seq(Tokens) : Norm(x \o t) = z \o Norm(t)
    BY <1>2, Zenon
  <2>2. Stage(t) # "before" => Stage(x \o t) = Stage(t)
    BY <1>2, Zenon
  <2>3. x \o Append(t, a) = Append(x \o t, a) /\ x \o t \in Seq(Tokens) /\ Append(t, a) \in Seq(Tokens)
    OBVIOUS
  <2> HIDE DEF S, Ends
  <2>4. /\ Stage(Append(t, a)) = IF a \notin White THEN "within"
                                 ELSE IF Stage(t) = "before" THEN "before" ELSE "behind"
        /\ Norm(Append(t, a)) = IF a \in White THEN Norm(t) ELSE Norm(t) \o (Gap(t) \o <<a>>)
        /\ Stage(t) = "before" => Norm(t) = <<>>
    BY NormAppend
  <2>5. /\ Stage(Append(x \o t, a)) = IF a \notin White THEN "within"
                                 ELSE IF Stage(x \o t) = "before" THEN "before" ELSE "behind"
        /\ Norm(Append(x \o t, a)) = IF a \in White THEN Norm(x \o t)
                                     ELSE Norm(x \o t) \o (Gap(x \o t) \o <<a>>)
    BY <2>3, NormAppend
  <2>6. Stage(Append(t, a)) # "before" => Stage(x \o Append(t, a)) = Stage(Append(t, a))
    BY <2>2, <2>3, <2>4, <2>5
  <2>7. Ends(Append(t, a))
    <3>1. CASE a \in White
      <4>1. Norm(x \o Append(t, a)) = z \o Norm(Append(t, a))
        BY <2>1, <2>3, <2>4, <2>5, <3>1, Zenon
      <4>. QED BY <4>1, Zenon DEF Ends
    <3>2. CASE a \notin White
      <4>1. <<a>> \in Seq(Tokens) /\ Gap(t) \in Seq(Tokens) /\ Gap(x \o t) \in Seq(Tokens)
        BY Blanks DEF Gap
      <4>2. Norm(t) \in Seq(Tokens) /\ Norm(x \o t) \in Seq(Tokens)
        BY <2>3, NormType
      <4>3. Norm(x \o Append(t, a)) = Norm(x \o t) \o (Gap(x \o t) \o <<a>>)
        BY <2>3, <2>5, <3>2, Zenon
      <4>4. Norm(Append(t, a)) = Norm(t) \o (Gap(t) \o <<a>>)
        BY <2>4, <3>2, Zenon
      <4>5. CASE Stage(t) = "before"
        <5>1. Gap(t) = <<>> /\ Norm(t) = <<>>
          BY <2>4, <4>5 DEF Gap
        <5>2. <<>> \o (<<>> \o <<a>>) = <<a>>
          BY <4>1
        <5>3. Norm(Append(t, a)) = <<a>>
          BY <4>4, <5>1, <5>2, Zenon
        <5> DEFINE n == Norm(x \o t)
                   g == Gap(x \o t)
        <5>4. n \o (g \o <<a>>) = (n \o g) \o <<a>> /\ n \o g \in Seq(Tokens)
          <6>1. n \in Seq(Tokens) /\ g \in Seq(Tokens) /\ <<a>> \in Seq(Tokens)
            BY <4>1, <4>2
          <6> HIDE DEF n, g
          <6>. QED BY <6>1, ConcatTokens, SMTT(30)
        <5>5. Norm(x \o Append(t, a)) = (n \o g) \o Norm(Append(t, a))
          BY <4>3, <5>3, <5>4, Zenon
        <5> HIDE DEF n, g
        <5>. QED BY <5>4, <5>5, Zenon DEF Ends
      <4>6. CASE Stage(t) # "before"
        <5>1. Gap(x \o t) = Gap(t)
          BY <2>2, <4>6 DEF Gap
        <5> DEFINE n == Norm(t)
                   g == Gap(t) \o <<a>>
        <5>2. (z \o n) \o g = z \o (n \o g)
          <6>1. n \in Seq(Tokens) /\ g \in Seq(Tokens)
            BY <4>1, <4>2
          <6> HIDE DEF n, g
          <6>. QED BY <6>1, ConcatTokens, SMTT(30)
        <5>3. Norm(x \o Append(t, a)) = z \o Norm(Append(t, a))
          BY <2>1, <4>3, <4>4, <5>1, <5>2, Zenon
        <5>. QED BY <5>3, Zenon DEF Ends
      <4>. QED BY <4>5, <4>6
    <3>. QED BY <3>1, <3>2
  <2>. QED BY <2>3, <2>6, <2>7 DEF S
<1>. QED
  <2> HIDE DEF S, Ends
  <2>1. Seq(Tokens) \subseteq S
    BY <1>1, <1>2, SequenceInduction
  <2>2. y \in S
    BY <2>1
  <2>. QED BY <2>2, Zenon DEF S, Ends

\* The words of a part of a text stand together in the words of the text.
LEMMA NormWithin ==
  ASSUME NEW x \in Seq(Tokens), NEW y \in Seq(Tokens), NEW z \in Seq(Tokens)
  PROVE  \E u, v \in Seq(Tokens) : Norm(x \o (y \o z)) = u \o (Norm(y) \o v)
<1>1. y \o z \in Seq(Tokens)
  OBVIOUS
<1>2. PICK v \in Seq(Tokens) : Norm(y \o z) = Norm(y) \o v
  BY NormPrefix
<1>3. PICK u \in Seq(Tokens) : Norm(x \o (y \o z)) = u \o Norm(y \o z)
  BY <1>1, NormSuffix
<1>. QED BY <1>2, <1>3, Zenon

-----------------------------------------------------------------------------
(* str.replace is a replacement.                                            *)

Stands(text, part, i) == i + Len(part) - 1 <= Len(text) /\ SubSeq(text, i, i + Len(part) - 1) = part

ReplaceStep(done, n, text, part, by) ==
    IF n < done.next THEN done
    ELSE IF Stands(text, part, n) THEN [text |-> done.text \o by, next |-> n + Len(part)]
    ELSE [text |-> Append(done.text, text[n]), next |-> n + 1]

Replacing(f, text, part, by) ==
    f = [n \in 0..Len(text) |->
           IF n = 0 THEN [text |-> <<>>, next |-> 1] ELSE ReplaceStep(f[n - 1], n, text, part, by)]

Replaced == [text : Seq(Tokens), next : Nat]

LEMMA ReplaceStepType ==
  ASSUME NEW x \in Seq(Tokens), NEW part \in Seq(Tokens), NEW by \in Seq(Tokens),
         NEW n \in 1..Len(x), NEW done \in Replaced
  PROVE  ReplaceStep(done, n, x, part, by) \in Replaced
<1>1. done.text \in Seq(Tokens) /\ x[n] \in Tokens /\ Len(part) \in Nat /\ n \in Nat
  BY DEF Replaced
<1>2. /\ done.text \o by \in Seq(Tokens) /\ n + Len(part) \in Nat
      /\ Append(done.text, x[n]) \in Seq(Tokens) /\ n + 1 \in Nat
  BY <1>1
<1>3. /\ [text |-> done.text \o by, next |-> n + Len(part)] \in Replaced
      /\ [text |-> Append(done.text, x[n]), next |-> n + 1] \in Replaced
  BY <1>2 DEF Replaced
<1>. QED BY <1>3, Zenon DEF ReplaceStep

LEMMA ReplaceRuns ==
  ASSUME NEW x \in Seq(Tokens), NEW part \in Seq(Tokens), NEW by \in Seq(Tokens)
  PROVE  \E f : /\ Replace(x, part, by) = f[Len(x)].text
                /\ f[0] = [text |-> <<>>, next |-> 1]
                /\ \A n \in 1..Len(x) : f[n] = ReplaceStep(f[n - 1], n, x, part, by)
<1> DEFINE N == Len(x)
           zero == [text |-> <<>>, next |-> 1]
           move == [n \in 1..N |-> [d \in Replaced |-> ReplaceStep(d, n, x, part, by)]]
<1>1. N \in Nat /\ zero \in Replaced
  BY DEF Replaced
<1>2. move \in [1..N -> [Replaced -> Replaced]]
  <2>2. \A n \in 1..N : \A d \in Replaced : ReplaceStep(d, n, x, part, by) \in Replaced
    BY ReplaceStepType
  <2> HIDE DEF N
  <2>. QED BY <2>2
<1>3. PICK f \in [0..N -> Replaced] : Runs(f, N, zero, move)
  <2> HIDE DEF N, move, zero
  <2>. QED BY <1>1, <1>2, Recursion
<1>4. \A n \in 0..N : f[n] = IF n = 0 THEN zero ELSE ReplaceStep(f[n - 1], n, x, part, by)
  <2> TAKE n \in 0..N
  <2> HIDE DEF zero
  <2>1. CASE n = 0
    BY <1>1, <1>3, <2>1 DEF Runs
  <2>2. CASE n # 0
    <3>1. n \in 1..N /\ n - 1 \in 0..N
      BY <1>1, <2>2
    <3>2. f[n - 1] \in Replaced
      BY <1>3, <3>1
    <3>3. f[n] = move[n][f[n - 1]]
      BY <1>3, <2>2 DEF Runs
    <3> HIDE DEF N
    <3>. QED BY <2>2, <3>1, <3>2, <3>3
  <2>. QED BY <2>1, <2>2
<1>5. Replacing(f, x, part, by)
  BY <1>3, <1>4 DEF Replacing
<1>6. PICK g : g = CHOOSE k : Replacing(k, x, part, by)
  OBVIOUS
<1>7. Replacing(g, x, part, by)
  BY <1>5, <1>6, Zenon
<1>8. Replace(x, part, by) = g[Len(x)].text
  BY <1>6 DEF Replace, Replacing, ReplaceStep, Stands
<1>9. g[0] = zero
  BY <1>1, <1>7 DEF Replacing
<1>10. ASSUME NEW n \in 1..Len(x)
       PROVE  g[n] = ReplaceStep(g[n - 1], n, x, part, by)
  <2>1. n \in 0..Len(x) /\ n # 0
    BY <1>1
  <2>. QED BY <1>7, <2>1 DEF Replacing
<1>. QED BY <1>8, <1>9, <1>10, Zenon

\* What is put for by is what was put for part, and the atoms that part does not
\* consist of are put the same.
Alike(g, h, part, by) ==
    /\ Swaps(g, Tokens) /\ Swaps(h, Tokens)
    /\ Put(g, by) = Put(h, part)
    /\ \A a \in Tokens : <<a>> # part => g[a] = h[a]

\* Then a replacement of part by by is not seen afterwards.
LEMMA ReplacePut ==
  ASSUME NEW x \in Seq(Tokens), NEW part \in Seq(Tokens), NEW by \in Seq(Tokens), part # <<>>,
         NEW g, NEW h, Alike(g, h, part, by)
  PROVE  /\ Replace(x, part, by) \in Seq(Tokens)
         /\ Put(g, Replace(x, part, by)) = Put(h, x)
<1>1. PICK f : /\ Replace(x, part, by) = f[Len(x)].text
               /\ f[0] = [text |-> <<>>, next |-> 1]
               /\ \A n \in 1..Len(x) : f[n] = ReplaceStep(f[n - 1], n, x, part, by)
  BY ReplaceRuns
<1> DEFINE Holds(n) == /\ f[n].text \in Seq(Tokens)
                       /\ f[n].next \in (n + 1)..(Len(x) + 1)
                       /\ Put(g, f[n].text) = Put(h, SubSeq(x, 1, f[n].next - 1))
           I == {n \in 0..Len(x) : Holds(n)}
<1>2. Len(x) \in Nat /\ Len(part) \in Nat /\ Len(part) # 0
  OBVIOUS
<1>3. Swaps(g, Tokens) /\ Swaps(h, Tokens) /\ Put(g, by) = Put(h, part)
  BY DEF Alike
<1>4. Holds(0)
  <2>1. f[0].text = <<>> /\ f[0].next = 1
    BY <1>1
  <2>2. SubSeq(x, 1, 0) = <<>> /\ <<>> \in Seq(Tokens)
    OBVIOUS
  <2>3. Put(g, <<>>) = <<>> /\ Put(h, <<>>) = <<>>
    BY DEF Put, FlattenSeq
  <2>4. f[0].next - 1 = 0 /\ f[0].next \in (0 + 1)..(Len(x) + 1)
    BY <1>2, <2>1
  <2>. QED BY <2>1, <2>2, <2>3, <2>4
<1>5. ASSUME NEW n \in 1..Len(x), Holds(n - 1) PROVE Holds(n)
  <2> DEFINE text == f[n - 1].text
             next == f[n - 1].next
  <2>1. f[n] = ReplaceStep(f[n - 1], n, x, part, by)
    BY <1>1
  <2>2. /\ text \in Seq(Tokens) /\ next \in n..(Len(x) + 1)
        /\ Put(g, text) = Put(h, SubSeq(x, 1, next - 1))
    BY <1>5
  <2>3. x[n] \in Tokens
    OBVIOUS
  <2> HIDE DEF Holds
  <2>4. CASE n < next
    <3>1. f[n] = f[n - 1]
      BY <2>1, <2>4 DEF ReplaceStep
    <3>2. next \in (n + 1)..(Len(x) + 1)
      BY <2>2, <2>4
    <3>. QED BY <2>2, <3>1, <3>2 DEF Holds
  <2>5. CASE ~(n < next) /\ Stands(x, part, n)
    <3>1. next = n
      BY <2>2, <2>5
    <3>2. f[n] = [text |-> text \o by, next |-> n + Len(part)]
      BY <2>1, <2>5 DEF ReplaceStep
    <3>3. f[n].text = text \o by /\ f[n].next = n + Len(part)
      BY <3>2
    <3>4. n + Len(part) - 1 <= Len(x) /\ SubSeq(x, n, n + Len(part) - 1) = part
      BY <2>5 DEF Stands
    <3> DEFINE m == n - 1
               k == n + Len(part) - 1
               head == SubSeq(x, 1, m)
    <3>5. m \in 0..Len(x) /\ k \in m..Len(x) /\ m + 1 = n
      BY <1>2, <3>4
    <3>6. SubSeq(x, 1, k) = head \o SubSeq(x, m + 1, k) /\ head \in Seq(Tokens)
      <4> HIDE DEF m, k
      <4>. QED BY <3>5, SubSeqSplits
    <3>7. SubSeq(x, m + 1, k) = part
      BY <3>4, <3>5
    <3>8. SubSeq(x, 1, k) = head \o part
      BY <3>6, <3>7
    <3>9. Put(g, text \o by) = Put(g, text) \o Put(g, by)
      BY <1>3, <2>2, PutTokens
    <3>10. Put(h, head \o part) = Put(h, head) \o Put(h, part)
      <4> HIDE DEF head
      <4>. QED BY <1>3, <3>6, PutTokens
    <3>11. Put(g, text) = Put(h, head)
      BY <2>2, <3>1
    <3>12. Put(g, text \o by) = Put(h, SubSeq(x, 1, k))
      BY <1>3, <3>8, <3>9, <3>10, <3>11, Zenon
    <3>13. (n + Len(part)) - 1 = k /\ n + Len(part) \in (n + 1)..(Len(x) + 1)
      BY <1>2, <3>4
    <3>14. text \o by \in Seq(Tokens)
      BY <2>2
    <3> HIDE DEF text, k
    <3>. QED BY <3>3, <3>12, <3>13, <3>14 DEF Holds
  <2>6. CASE ~(n < next) /\ ~Stands(x, part, n)
    <3>1. next = n
      BY <2>2, <2>6
    <3>2. f[n] = [text |-> Append(text, x[n]), next |-> n + 1]
      BY <2>1, <2>6 DEF ReplaceStep
    <3>3. f[n].text = Append(text, x[n]) /\ f[n].next = n + 1
      BY <3>2
    <3>4. <<x[n]>> # part
      <4>1. SUFFICES ASSUME part = <<x[n]>> PROVE FALSE
        OBVIOUS
      <4>2. Len(part) = 1
        BY <4>1
      <4>3. n + Len(part) - 1 = n /\ n <= Len(x)
        BY <4>2
      <4>4. SubSeq(x, n, n) = <<x[n]>>
        BY SubSeqOne
      <4>5. Stands(x, part, n)
        BY <4>1, <4>3, <4>4 DEF Stands
      <4>. QED BY <2>6, <4>5
    <3>5. g[x[n]] = h[x[n]]
      BY <2>3, <3>4 DEF Alike
    <3> DEFINE head == SubSeq(x, 1, n - 1)
    <3>6. head \in Seq(Tokens) /\ SubSeq(x, 1, n) = Append(head, x[n])
      OBVIOUS
    <3>7. Put(g, Append(text, x[n])) = Put(g, text) \o g[x[n]]
      BY <1>3, <2>2, <2>3, PutTokens
    <3>8. Put(h, Append(head, x[n])) = Put(h, head) \o h[x[n]]
      <4> HIDE DEF head
      <4>. QED BY <1>3, <2>3, <3>6, PutTokens
    <3>9. Put(g, text) = Put(h, head)
      BY <2>2, <3>1
    <3>10. Put(g, Append(text, x[n])) = Put(h, SubSeq(x, 1, n))
      BY <3>5, <3>6, <3>7, <3>8, <3>9, Zenon
    <3>11. (n + 1) - 1 = n /\ n + 1 \in (n + 1)..(Len(x) + 1) /\ Append(text, x[n]) \in Seq(Tokens)
      BY <1>2, <2>2, <2>3
    <3> HIDE DEF text
    <3>. QED BY <3>3, <3>10, <3>11 DEF Holds
  <2>. QED BY <2>4, <2>5, <2>6
<1>6. Holds(Len(x))
  <2> HIDE DEF Holds
  <2>1. 0 \in I
    BY <1>2, <1>4
  <2>2. ASSUME NEW n \in 1..Len(x), n - 1 \in I PROVE n \in I
    <3>1. Holds(n)
      BY <1>5, <2>2
    <3>. QED BY <1>2, <3>1
  <2>3. 0..Len(x) \subseteq I
    <3> HIDE DEF I
    <3>. QED BY <1>2, <2>1, <2>2, IntervalInduction
  <2>4. Len(x) \in 0..Len(x)
    BY <1>2
  <2>. QED BY <2>3, <2>4
<1>7. f[Len(x)].next = Len(x) + 1
  BY <1>2, <1>6
<1>8. SubSeq(x, 1, f[Len(x)].next - 1) = x
  <2>1. f[Len(x)].next - 1 = Len(x)
    BY <1>2, <1>7
  <2>2. SubSeq(x, 1, Len(x)) = x
    OBVIOUS
  <2>. QED BY <2>1, <2>2
<1>. QED BY <1>1, <1>6, <1>8

\* One atom replaced.
One(p, v) == [a \in Tokens |-> IF a = p THEN v ELSE <<a>>]

LEMMA ReplaceOne ==
  ASSUME NEW x \in Seq(Tokens), NEW p \in Tokens, NEW v \in Seq(Tokens)
  PROVE  /\ Replace(x, <<p>>, v) = Put(One(p, v), x)
         /\ Swaps(One(p, v), Tokens)
<1> DEFINE id == [a \in Tokens |-> <<a>>]
<1>1. Swaps(id, Tokens) /\ Swaps(One(p, v), Tokens)
  BY DEF Swaps, One
<1>2. \A y \in Seq(Tokens) : Put(id, y) = y
  <2> TAKE y \in Seq(Tokens)
  <2>1. \A a \in ToSet(y) : id[a] = <<a>>
    BY DEF ToSet
  <2> HIDE DEF id
  <2>. QED BY <2>1, PutItself
<1>3. Put(One(p, v), <<p>>) = v
  <2>1. Put(One(p, v), <<p>>) = One(p, v)[p]
    BY <1>1, PutTokens
  <2>. QED BY <2>1 DEF One
<1>4. \A a \in Tokens : <<a>> # <<p>> => id[a] = One(p, v)[a]
  BY DEF One
<1>5. Alike(id, One(p, v), <<p>>, v)
  <2>1. Put(id, v) = v
    BY <1>2
  <2> HIDE DEF id
  <2>. QED BY <1>1, <1>3, <1>4, <2>1, Zenon DEF Alike
<1>6. <<p>> \in Seq(Tokens) /\ <<p>> # <<>>
  OBVIOUS
<1>7. Replace(x, <<p>>, v) \in Seq(Tokens) /\ Put(id, Replace(x, <<p>>, v)) = Put(One(p, v), x)
  <2> DEFINE part == <<p>>
  <2>1. Alike(id, One(p, v), part, v) /\ part \in Seq(Tokens) /\ part # <<>>
    BY <1>5, <1>6
  <2> HIDE DEF id, part
  <2>2. Replace(x, part, v) \in Seq(Tokens) /\ Put(id, Replace(x, part, v)) = Put(One(p, v), x)
    BY <2>1, ReplacePut
  <2>. QED BY <2>2 DEF part
<1>. QED
  <2> HIDE DEF id
  <2>. QED BY <1>1, <1>2, <1>7, Zenon

-----------------------------------------------------------------------------
(* Unmasking is a replacement.                                              *)

Mappings == [placeholder : Tokens, value : Seq(Tokens)]

\* A placeholder stands for one value, and a value is a word and no placeholder.
Sound(ms) ==
    /\ ms \in Seq(Mappings)
    /\ \A n \in DOMAIN ms : /\ ms[n].placeholder \notin Written
                                  /\ ms[n].value \in Seq(Written) /\ ms[n].value \in Words
    /\ \A m, n \in DOMAIN ms :
         ms[m].placeholder = ms[n].placeholder => ms[m].value = ms[n].value

LEMMA MappingAt ==
  ASSUME NEW ms, Sound(ms)
  PROVE  /\ DOMAIN ms = 1..Len(ms) /\ Len(ms) \in Nat
         /\ \A n \in 1..Len(ms) : ms[n].placeholder \in Tokens /\ ms[n].value \in Seq(Tokens)
<1>1. ms \in Seq(Mappings)
  BY DEF Sound
<1>2. DOMAIN ms = 1..Len(ms) /\ Len(ms) \in Nat
  BY <1>1
<1>3. \A n \in 1..Len(ms) : ms[n] \in Mappings
  BY <1>1
<1>. QED BY <1>2, <1>3 DEF Mappings

LEMMA ValueOfIs ==
  ASSUME NEW ms, Sound(ms), NEW n \in DOMAIN ms
  PROVE  ValueOf(ms[n].placeholder, ms) = ms[n].value
<1> DEFINE p == ms[n].placeholder
           S == {k \in DOMAIN ms : ms[k].placeholder = p}
           Latest(m) == ms[m].placeholder = p /\ \A k \in DOMAIN ms : k > m => ms[k].placeholder # p
<1>1. DOMAIN ms = 1..Len(ms) /\ Len(ms) \in Nat
  BY DEF Sound
<1>2. S \in SUBSET (1..Len(ms)) /\ S # {}
  BY <1>1
<1>3. PICK i \in S : \A k \in S : k <= i
  <2> HIDE DEF S
  <2>. QED BY <1>1, <1>2, GreatestExists
<1>4. i \in DOMAIN ms /\ Latest(i)
  <2>1. i \in DOMAIN ms /\ ms[i].placeholder = p
    BY <1>3
  <2>2. ASSUME NEW k \in DOMAIN ms, k > i PROVE ms[k].placeholder # p
    <3>1. SUFFICES ASSUME ms[k].placeholder = p PROVE FALSE
      OBVIOUS
    <3>2. k \in S
      BY <3>1
    <3>3. k <= i /\ k \in Nat /\ i \in Nat
      BY <1>1, <1>3, <3>2
    <3>. QED BY <2>2, <3>3
  <2>. QED BY <2>1, <2>2
<1>5. PICK j : j = CHOOSE m \in DOMAIN ms : Latest(m)
  OBVIOUS
<1>6. j \in DOMAIN ms /\ Latest(j)
  <2> HIDE DEF Latest
  <2>. QED BY <1>4, <1>5, Zenon
<1>7. ms[j].value = ms[n].value
  BY <1>6 DEF Sound
<1>8. ValueOf(p, ms) = ms[j].value
  BY <1>5, Zenon DEF ValueOf
<1>. QED BY <1>7, <1>8

\* What is put back.
Back(ms, n) ==
    [a \in Tokens |-> IF \E k \in 1..n : ms[k].placeholder = a THEN ValueOf(a, ms) ELSE <<a>>]

LEMMA BackValues ==
  ASSUME NEW ms, Sound(ms), NEW n \in 0..Len(ms)
  PROVE  /\ Swaps(Back(ms, n), Tokens)
         /\ \A k \in 1..n : Back(ms, n)[ms[k].placeholder] = ms[k].value
         /\ \A a \in Tokens : (\A k \in 1..n : ms[k].placeholder # a) => Back(ms, n)[a] = <<a>>
         /\ \A a \in Written : Back(ms, n)[a] = <<a>>
<1>1. /\ DOMAIN ms = 1..Len(ms) /\ Len(ms) \in Nat
      /\ \A k \in 1..Len(ms) : ms[k].placeholder \in Tokens /\ ms[k].value \in Seq(Tokens)
  BY MappingAt
<1>2. \A k \in 1..n : k \in DOMAIN ms
  BY <1>1
<1>3. \A k \in 1..n : ValueOf(ms[k].placeholder, ms) = ms[k].value
  BY <1>2, ValueOfIs
<1>4. \A k \in 1..n : Back(ms, n)[ms[k].placeholder] = ms[k].value
  <2> TAKE k \in 1..n
  <2>1. ms[k].placeholder \in Tokens
    BY <1>1, <1>2
  <2>2. Back(ms, n)[ms[k].placeholder] = ValueOf(ms[k].placeholder, ms)
    BY <2>1 DEF Back
  <2>. QED BY <1>3, <2>2
<1>5. \A a \in Tokens : (\A k \in 1..n : ms[k].placeholder # a) => Back(ms, n)[a] = <<a>>
  BY DEF Back
<1>6. \A a \in Written : Back(ms, n)[a] = <<a>>
  <2>1. \A a \in Written : a \in Tokens /\ \A k \in 1..n : ms[k].placeholder # a
    BY <1>2 DEF Sound, Tokens
  <2>. QED BY <1>5, <2>1
<1>7. \A a \in Tokens : Back(ms, n)[a] \in Seq(Tokens)
  <2> TAKE a \in Tokens
  <2>1. CASE \E k \in 1..n : ms[k].placeholder = a
    BY <1>1, <1>2, <1>4, <2>1
  <2>2. CASE \A k \in 1..n : ms[k].placeholder # a
    <3>1. <<a>> \in Seq(Tokens)
      OBVIOUS
    <3>. QED BY <1>5, <2>2, <3>1
  <2>. QED BY <2>1, <2>2
<1>8. Swaps(Back(ms, n), Tokens)
  <2>1. Back(ms, n) = [a \in Tokens |-> Back(ms, n)[a]]
    BY DEF Back
  <2>. QED BY <1>7, <2>1 DEF Swaps
<1>. QED BY <1>4, <1>5, <1>6, <1>8

Unmasking(f, x, ms) ==
    f = [n \in 0..Len(ms) |->
           IF n = 0 THEN x
           ELSE Replace(f[n - 1], <<ms[n].placeholder>>, ValueOf(ms[n].placeholder, ms))]

LEMMA UnmaskRuns ==
  ASSUME NEW x \in Seq(Tokens), NEW ms, Sound(ms)
  PROVE  \E f : /\ Unmask(x, ms) = f[Len(ms)]
                /\ f[0] = x
                /\ \A n \in 1..Len(ms) :
                     f[n] = Replace(f[n - 1], <<ms[n].placeholder>>, ms[n].value)
<1> DEFINE N == Len(ms)
           part(n) == <<ms[n].placeholder>>
           by(n) == ValueOf(ms[n].placeholder, ms)
           move == [n \in 1..N |-> [d \in Seq(Tokens) |-> Replace(d, part(n), by(n))]]
<1>1. N \in Nat
  BY DEF Sound
<1>2. \A n \in 1..N : by(n) = ms[n].value /\ ms[n].placeholder \in Tokens /\ by(n) \in Seq(Tokens)
  <2> TAKE n \in 1..N
  <2>1. n \in DOMAIN ms
    BY MappingAt
  <2>2. by(n) = ms[n].value
    BY <2>1, ValueOfIs
  <2>3. ms[n].placeholder \in Tokens /\ ms[n].value \in Seq(Tokens)
    BY MappingAt
  <2>. QED BY <2>2, <2>3
<1>3. move \in [1..N -> [Seq(Tokens) -> Seq(Tokens)]]
  <2>1. \A n \in 1..N : \A d \in Seq(Tokens) : Replace(d, part(n), by(n)) \in Seq(Tokens)
    <3> TAKE n \in 1..N
    <3> TAKE d \in Seq(Tokens)
    <3>1. ms[n].placeholder \in Tokens /\ by(n) \in Seq(Tokens)
      BY <1>2
    <3>2. Replace(d, part(n), by(n)) = Put(One(ms[n].placeholder, by(n)), d)
      <4> HIDE DEF by, N
      <4>. QED BY <3>1, ReplaceOne
    <3>3. Swaps(One(ms[n].placeholder, by(n)), Tokens)
      <4> HIDE DEF by, N
      <4>. QED BY <3>1, ReplaceOne
    <3>4. Put(One(ms[n].placeholder, by(n)), d) \in Seq(Tokens)
      <4> HIDE DEF by, N
      <4>. QED BY <3>3, PutTokens
    <3>. QED BY <3>2, <3>4, Zenon
  <2> HIDE DEF N, part, by
  <2>. QED BY <2>1
<1>4. PICK f \in [0..N -> Seq(Tokens)] : Runs(f, N, x, move)
  <2> HIDE DEF N, move
  <2>. QED BY <1>1, <1>3, Recursion
<1>5. \A n \in 0..N : f[n] = IF n = 0 THEN x ELSE Replace(f[n - 1], part(n), by(n))
  <2> TAKE n \in 0..N
  <2>1. CASE n = 0
    BY <1>1, <1>4, <2>1 DEF Runs
  <2>2. CASE n # 0
    <3>1. n \in 1..N /\ n - 1 \in 0..N
      BY <1>1, <2>2
    <3>2. f[n - 1] \in Seq(Tokens)
      BY <1>4, <3>1
    <3>3. f[n] = move[n][f[n - 1]]
      BY <1>4, <2>2 DEF Runs
    <3> HIDE DEF N, part, by
    <3>. QED BY <2>2, <3>1, <3>2, <3>3
  <2>. QED BY <2>1, <2>2
<1>6. Unmasking(f, x, ms)
  BY <1>4, <1>5 DEF Unmasking
<1>7. PICK g : g = CHOOSE k : Unmasking(k, x, ms)
  OBVIOUS
<1>8. Unmasking(g, x, ms)
  BY <1>6, <1>7, Zenon
<1>9. Unmask(x, ms) = g[Len(ms)]
  BY <1>7 DEF Unmask, Unmasking
<1>10. g[0] = x
  BY <1>1, <1>8 DEF Unmasking
<1>11. ASSUME NEW n \in 1..Len(ms)
       PROVE  g[n] = Replace(g[n - 1], <<ms[n].placeholder>>, ms[n].value)
  <2>1. n \in 0..Len(ms) /\ n # 0
    BY <1>1
  <2>2. g[n] = Replace(g[n - 1], part(n), by(n))
    BY <1>8, <2>1 DEF Unmasking
  <2>. QED BY <1>2, <2>2
<1>. QED BY <1>9, <1>10, <1>11, Zenon

LEMMA WrittenStays ==
  ASSUME NEW h, \A a \in Written : h[a] = <<a>>, NEW x \in Seq(Written)
  PROVE  Put(h, x) = x
<1>1. \A a \in ToSet(x) : h[a] = <<a>>
  BY DEF ToSet
<1>. QED BY <1>1, PutItself

LEMMA WrittenTokens == Written \subseteq Tokens /\ Seq(Written) \subseteq Seq(Tokens)
<1>1. Written \subseteq Tokens
  BY DEF Tokens
<1>. QED BY <1>1

\* The replacements of unmask_text, one after the other, are one replacement.
LEMMA UnmaskPut ==
  ASSUME NEW x \in Seq(Tokens), NEW ms, Sound(ms)
  PROVE  Unmask(x, ms) = Put(Back(ms, Len(ms)), x)
<1>1. PICK f : /\ Unmask(x, ms) = f[Len(ms)]
               /\ f[0] = x
               /\ \A n \in 1..Len(ms) :
                    f[n] = Replace(f[n - 1], <<ms[n].placeholder>>, ms[n].value)
  BY UnmaskRuns
<1> DEFINE I == {n \in 0..Len(ms) : f[n] = Put(Back(ms, n), x)}
<1>2. Len(ms) \in Nat
  BY MappingAt
<1>3. 0 \in I
  <2>1. 0 \in 0..Len(ms)
    BY <1>2
  <2>2. \A a \in Tokens : Back(ms, 0)[a] = <<a>>
    BY DEF Back
  <2>3. \A a \in ToSet(x) : Back(ms, 0)[a] = <<a>>
    BY <2>2 DEF ToSet
  <2>4. Put(Back(ms, 0), x) = x
    BY <2>3, PutItself
  <2>. QED BY <1>1, <2>1, <2>4
<1>4. ASSUME NEW n \in 1..Len(ms), n - 1 \in I PROVE n \in I
  <2> DEFINE p == ms[n].placeholder
             v == ms[n].value
             old == Back(ms, n - 1)
             new == Back(ms, n)
  <2>1. f[n - 1] = Put(old, x)
    BY <1>4
  <2> HIDE DEF I
  <2>2. n \in 0..Len(ms) /\ n - 1 \in 0..Len(ms) /\ \A k \in 1..n : k \in 1..(n - 1) \/ k = n
    BY <1>2
  <2>3. p \in Tokens /\ v \in Seq(Tokens) /\ p \notin Written /\ n \in DOMAIN ms
    BY MappingAt DEF Sound
  <2>4. /\ Swaps(old, Tokens)
        /\ \A k \in 1..(n - 1) : old[ms[k].placeholder] = ms[k].value
        /\ \A a \in Tokens : (\A k \in 1..(n - 1) : ms[k].placeholder # a) => old[a] = <<a>>
    BY <2>2, BackValues
  <2>5. /\ Swaps(new, Tokens)
        /\ \A k \in 1..n : new[ms[k].placeholder] = ms[k].value
        /\ \A a \in Tokens : (\A k \in 1..n : ms[k].placeholder # a) => new[a] = <<a>>
    BY <2>2, BackValues
  <2>6. f[n] = Replace(f[n - 1], <<p>>, v)
    BY <1>1
  <2> HIDE DEF old, new, p, v
  <2>7. Put(old, x) \in Seq(Tokens)
    BY <2>4, PutTokens
  <2>8. Replace(Put(old, x), <<p>>, v) = Put(One(p, v), Put(old, x)) /\ Swaps(One(p, v), Tokens)
    BY <2>3, <2>7, ReplaceOne
  <2>9. /\ \A a \in Written : One(p, v)[a] = <<a>>
        /\ \A a \in Tokens : Put(One(p, v), <<a>>) = One(p, v)[a]
    BY <2>3, <2>8, PutTokens, WrittenTokens DEF One
  <2>10. ASSUME NEW a \in Tokens PROVE new[a] = Put(One(p, v), old[a])
    <3>1. CASE \E k \in 1..(n - 1) : ms[k].placeholder = a
      <4>1. PICK k \in 1..(n - 1) : ms[k].placeholder = a
        BY <3>1
      <4>2. k \in 1..n
        BY <1>2, <2>2
      <4>3. old[a] = ms[k].value /\ new[a] = ms[k].value
        BY <2>4, <2>5, <4>1, <4>2
      <4>4. ms[k].value \in Seq(Written)
        <5>1. k \in 1..Len(ms)
          BY <2>2, <4>2
        <5>. QED BY <5>1, MappingAt DEF Sound
      <4>5. Put(One(p, v), ms[k].value) = ms[k].value
        BY <2>9, <4>4, WrittenStays
      <4>. QED BY <4>3, <4>5
    <3>2. CASE (\A k \in 1..(n - 1) : ms[k].placeholder # a) /\ a = p
      <4>1. old[a] = <<a>>
        BY <2>4, <3>2
      <4>2. n \in 1..n
        BY <1>2
      <4>3. new[a] = v
        BY <2>5, <3>2, <4>2 DEF p, v
      <4>4. Put(One(p, v), <<a>>) = v
        BY <2>9, <3>2 DEF One
      <4>. QED BY <4>1, <4>3, <4>4
    <3>3. CASE (\A k \in 1..(n - 1) : ms[k].placeholder # a) /\ a # p
      <4>1. old[a] = <<a>>
        BY <2>4, <3>3
      <4>2. \A k \in 1..n : ms[k].placeholder # a
        BY <2>2, <3>3 DEF p
      <4>3. new[a] = <<a>>
        BY <2>5, <4>2
      <4>4. Put(One(p, v), <<a>>) = <<a>>
        BY <2>9, <3>3 DEF One
      <4>. QED BY <4>1, <4>3, <4>4
    <3>. QED BY <3>1, <3>2, <3>3
  <2>11. Composes(new, One(p, v), old, Tokens)
    BY <2>4, <2>5, <2>8, <2>10 DEF Composes
  <2>12. Put(One(p, v), Put(old, x)) = Put(new, x)
    BY <2>11, PutPut
  <2>13. f[n] = Put(new, x)
    BY <2>1, <2>6, <2>8, <2>12, Zenon
  <2>. QED BY <2>2, <2>13 DEF I, new
<1>5. Len(ms) \in I
  <2>1. Len(ms) \in 0..Len(ms)
    BY <1>2
  <2> HIDE DEF I
  <2>2. 0..Len(ms) \subseteq I
    BY <1>2, <1>3, <1>4, IntervalInduction
  <2>. QED BY <2>1, <2>2
<1>. QED BY <1>1, <1>5

Unmasks(ms) == Back(ms, Len(ms))

LEMMA UnmasksFacts ==
  ASSUME NEW ms, Sound(ms)
  PROVE  /\ Respects(Unmasks(ms))
         /\ Swaps(Unmasks(ms), Tokens)
         /\ \A n \in DOMAIN ms : Unmasks(ms)[ms[n].placeholder] = ms[n].value
         /\ \A a \in Written : Unmasks(ms)[a] = <<a>>
         /\ \A x \in Seq(Tokens) : Unmask(x, ms) = Put(Unmasks(ms), x)
<1> DEFINE N == Len(ms)
           h == Unmasks(ms)
<1>1. DOMAIN ms = 1..N /\ N \in Nat /\ N \in 0..N
  BY MappingAt
<1>2. /\ Swaps(h, Tokens)
      /\ \A k \in 1..N : h[ms[k].placeholder] = ms[k].value
      /\ \A a \in Tokens : (\A k \in 1..N : ms[k].placeholder # a) => h[a] = <<a>>
      /\ \A a \in Written : h[a] = <<a>>
  BY <1>1, BackValues DEF Unmasks
<1>3. \A x \in Seq(Tokens) : Unmask(x, ms) = Put(h, x)
  BY UnmaskPut DEF Unmasks
<1>4. \A a \in White : h[a] = <<a>>
  <2>1. White \subseteq Written
    BY SpellingsAssumption DEF White, Space, NewLine, Atom, Written
  <2>. QED BY <1>2, <2>1
<1>5. ASSUME NEW a \in Solid PROVE h[a] \in Words
  <2>1. a \in Tokens
    BY SolidTokens
  <2>2. CASE \E k \in 1..N : ms[k].placeholder = a
    <3>1. PICK k \in 1..N : ms[k].placeholder = a
      BY <2>2
    <3>2. ms[k].value \in Words
      BY <1>1, <3>1 DEF Sound
    <3>. QED BY <1>2, <3>1, <3>2
  <2>3. CASE \A k \in 1..N : ms[k].placeholder # a
    <3>1. <<a>> \in Words
      BY DEF Words
    <3>. QED BY <1>2, <2>1, <2>3, <3>1
  <2>. QED BY <2>2, <2>3
<1> HIDE DEF h
<1>6. Respects(h)
  BY <1>2, <1>4, <1>5 DEF Respects
<1>. QED BY <1>1, <1>2, <1>3, <1>6 DEF h

-----------------------------------------------------------------------------
(* What the patterns find.                                                  *)

LEMMA StripType ==
  ASSUME NEW X, NEW word \in Seq(X)
  PROVE  Strip(word) \in Seq(X) /\ ToSet(Strip(word)) \subseteq ToSet(word)
<1> DEFINE core == {i \in DOMAIN word : word[i] \notin Punct}
           First(i) == \A k \in core : i <= k
           Final(i) == \A k \in core : i >= k
<1>1. DOMAIN word = 1..Len(word) /\ Len(word) \in Nat
  OBVIOUS
<1>2. CASE core = {}
  <2>1. Strip(word) = <<>>
    BY <1>2 DEF Strip
  <2>. QED BY <2>1, ElementsEmpty
<1>3. CASE core # {}
  <2>1. core \in SUBSET (1..Len(word)) /\ core \in SUBSET Nat
    BY <1>1
  <2> HIDE DEF core
  <2>2. PICK i \in core : First(i)
    BY <1>3, <2>1, LeastExists
  <2>3. PICK k \in core : Final(k)
    <3>1. PICK k \in core : \A j \in core : j <= k
      BY <1>1, <1>3, <2>1, GreatestExists
    <3>2. \A j \in core : k >= j
      BY <2>1, <3>1
    <3>. QED BY <3>1, <3>2
  <2>4. PICK p : p = CHOOSE j \in core : First(j)
    OBVIOUS
  <2>5. PICK q : q = CHOOSE j \in core : Final(j)
    OBVIOUS
  <2>6. p \in core /\ q \in core
    <3> HIDE DEF First, Final
    <3>. QED BY <2>2, <2>3, <2>4, <2>5, Zenon
  <2>7. Strip(word) = SubSeq(word, p, q)
    BY <1>3, <2>4, <2>5, Zenon DEF Strip, core
  <2>8. p \in Nat \ {0} /\ q \in 0..Len(word)
    BY <2>1, <2>6
  <2>. QED BY <2>7, <2>8, ElementsSubSeq
<1>. QED BY <1>2, <1>3

\* What the patterns find.
Values == {v \in DOMAIN PiiOf : PiiOf[v] \in ToSet(PiiTypes) /\ v \in Words}

Found(text) == FlattenSeq([t \in DOMAIN PiiTypes |-> Matches(text, PiiTypes[t])])

LEMMA MatchesAreValues ==
  ASSUME NEW text \in Seq(Tokens), NEW type \in ToSet(PiiTypes)
  PROVE  Matches(text, type) \in Seq(Values)
<1> DEFINE words == SplitWords(text)
           stripped == [i \in DOMAIN words |-> Strip(words[i])]
           S == {value \in DOMAIN PiiOf : PiiOf[value] = type}
<1>1. words \in Seq(Words)
  BY NormType
<1>2. DOMAIN words = 1..Len(words) /\ Len(words) \in Nat /\ \A i \in 1..Len(words) : words[i] \in Seq(Solid)
  <2> HIDE DEF words
  <2>1. DOMAIN words = 1..Len(words) /\ Len(words) \in Nat /\ \A i \in 1..Len(words) : words[i] \in Words
    BY <1>1
  <2>. QED BY <2>1, SolidTokens
<1> HIDE DEF words
<1>3. stripped \in Seq(Seq(Solid))
  <2>1. \A i \in 1..Len(words) : Strip(words[i]) \in Seq(Solid)
    BY <1>2, StripType
  <2>2. stripped \in [1..Len(words) -> Seq(Solid)]
    BY <1>2, <2>1
  <2> HIDE DEF stripped
  <2>. QED BY <1>2, <2>2, SequenceOf
<1>4. Matches(text, type) = Kept(stripped, S)
  BY DEF Matches, words
<1> HIDE DEF stripped, S
<1>5. Kept(stripped, S) \in Seq(Seq(Solid)) /\ ToSet(Kept(stripped, S)) = ToSet(stripped) \cap S
  BY <1>3, KeptElements
<1>6. ToSet(stripped) \cap S \subseteq Values
  <2>1. ToSet(stripped) \subseteq Seq(Solid)
    BY <1>3 DEF ToSet
  <2>2. \A v \in S : v \in DOMAIN PiiOf /\ v # <<>> /\ PiiOf[v] \in ToSet(PiiTypes)
    BY PatternsAssumption DEF S
  <2>. QED BY <2>1, <2>2 DEF Values, Words
<1>7. ToSet(Kept(stripped, S)) \subseteq Values
  BY <1>5, <1>6
<1>. QED BY <1>4, <1>5, <1>7, SequenceWithin

LEMMA FoundAreValues ==
  ASSUME NEW text \in Seq(Tokens)
  PROVE  Found(text) \in Seq(Values)
<1> DEFINE ss == [t \in DOMAIN PiiTypes |-> Matches(text, PiiTypes[t])]
<1>1. DOMAIN PiiTypes = 1..4 /\ \A t \in 1..4 : PiiTypes[t] \in ToSet(PiiTypes)
  BY DEF PiiTypes, ToSet
<1>2. \A t \in 1..4 : Matches(text, PiiTypes[t]) \in Seq(Values)
  BY <1>1, MatchesAreValues
<1>3. ss \in [1..4 -> Seq(Values)]
  BY <1>1, <1>2
<1>4. ss \in Seq(Seq(Values))
  <2> HIDE DEF ss
  <2>. QED BY <1>3, SequenceOf
<1>5. PICK start : EndsAt(start, ss)
  <2> HIDE DEF ss
  <2>. QED BY <1>4, EndsExist
<1>6. FlattenSeq(ss) \in Seq(Values)
  <2> HIDE DEF ss
  <2>. QED BY <1>4, <1>5, FlattenAt
<1>. QED BY <1>6 DEF Found

-----------------------------------------------------------------------------
(* mask_text.                                                               *)

Done == [text : Seq(Tokens), mappings : Seq(Mappings)]

OfType(ms, type) == {n \in DOMAIN ms : ms[n].placeholder.word = type}

\* The placeholders of a type are numbered.
Numbered(ms) ==
    /\ \A n \in DOMAIN ms :
         LET m == ms[n]
         IN  /\ m.value \in Values
             /\ m.placeholder.word = PiiOf[m.value]
             /\ m.placeholder.nr \in Nat \ {0}
             /\ m.placeholder.nr <= Cardinality(OfType(ms, m.placeholder.word))
    /\ \A m, n \in DOMAIN ms : ms[m].placeholder = ms[n].placeholder => m = n

\* A replacement that puts the values back and leaves what was written alone.
Restores(h, ms) ==
    /\ Swaps(h, Tokens)
    /\ \A a \in Written : h[a] = <<a>>
    /\ \A n \in DOMAIN ms : h[ms[n].placeholder] = ms[n].value

LEMMA CountOfType ==
  ASSUME NEW ms \in Seq(Mappings), NEW type
  PROVE  /\ IsFiniteSet(OfType(ms, type)) /\ Cardinality(OfType(ms, type)) \in Nat
         /\ OfType(ms, type) \subseteq 1..Len(ms)
<1>1. OfType(ms, type) \subseteq 1..Len(ms) /\ Len(ms) \in Nat
  BY DEF OfType
<1>2. IsFiniteSet(1..Len(ms))
  BY <1>1, FS_Interval
<1>. QED BY <1>1, <1>2, FS_Subset, FS_CardinalityType

NewMapping(ms, v) ==
    Mapping(Placeholder(PiiOf[v], Cardinality(OfType(ms, PiiOf[v])) + 1), v)

Known(ms, v) == {m \in ToSet(ms) : m.value = v}

LEMMA MaskValueCases ==
  ASSUME NEW done \in Done, NEW v \in Values
  PROVE  \E m \in Mappings :
           /\ m.value = v
           /\ MaskValue(done, v).text = Replace(done.text, v, <<m.placeholder>>)
           /\ \/ m \in ToSet(done.mappings) /\ MaskValue(done, v).mappings = done.mappings
              \/ /\ m = NewMapping(done.mappings, v)
                 /\ MaskValue(done, v).mappings = Append(done.mappings, m)
<1> DEFINE known == Known(done.mappings, v)
           new == NewMapping(done.mappings, v)
           m == IF known = {} THEN new ELSE CHOOSE k \in known : TRUE
<1>1. MaskValue(done, v) =
        [text |-> Replace(done.text, v, <<m.placeholder>>),
         mappings |-> IF known = {} THEN Append(done.mappings, new) ELSE done.mappings]
  BY DEF MaskValue, Known, NewMapping, OfType
<1>2. done.mappings \in Seq(Mappings)
  BY DEF Done
<1>3. CASE known = {}
  <2>1. m = new
    BY <1>3
  <2>2. new \in Mappings /\ new.value = v
    <3>1. Cardinality(OfType(done.mappings, PiiOf[v])) + 1 \in Nat \ {0}
      BY <1>2, CountOfType
    <3>2. v \in Seq(Tokens) /\ PiiOf[v] \in ToSet(PiiTypes)
      BY PatternsAssumption, WrittenTokens DEF Values
    <3> HIDE DEF known, m
    <3>. QED BY <3>1, <3>2 DEF NewMapping, Mapping, Placeholder, Mappings, Tokens
  <2>3. MaskValue(done, v).text = Replace(done.text, v, <<new.placeholder>>)
    BY <1>1, <2>1
  <2>4. MaskValue(done, v).mappings = Append(done.mappings, new)
    BY <1>1, <1>3
  <2> HIDE DEF known, m
  <2>. QED BY <2>2, <2>3, <2>4
<1>4. CASE known # {}
  <2>1. m \in known
    BY <1>4
  <2>2. m \in ToSet(done.mappings) /\ m.value = v
    <3> HIDE DEF m
    <3>. QED BY <2>1 DEF Known
  <2>3. m \in Mappings
    <3> HIDE DEF m
    <3>. QED BY <1>2, <2>2 DEF ToSet
  <2>4. MaskValue(done, v).text = Replace(done.text, v, <<m.placeholder>>)
    BY <1>1
  <2>5. MaskValue(done, v).mappings = done.mappings
    BY <1>1, <1>4
  <2> HIDE DEF known, m
  <2>. QED BY <2>2, <2>3, <2>4, <2>5
<1>. QED BY <1>3, <1>4

LEMMA ReplaceType ==
  ASSUME NEW x \in Seq(Tokens), NEW part \in Seq(Tokens), NEW by \in Seq(Tokens)
  PROVE  Replace(x, part, by) \in Seq(Tokens)
<1>1. PICK f : /\ Replace(x, part, by) = f[Len(x)].text
               /\ f[0] = [text |-> <<>>, next |-> 1]
               /\ \A n \in 1..Len(x) : f[n] = ReplaceStep(f[n - 1], n, x, part, by)
  BY ReplaceRuns
<1> DEFINE I == {n \in 0..Len(x) : f[n] \in Replaced}
<1>2. 0 \in I /\ Len(x) \in Nat
  <2>1. [text |-> <<>>, next |-> 1] \in Replaced
    BY DEF Replaced
  <2>2. f[0] \in Replaced
    BY <1>1, <2>1, Zenon
  <2>. QED BY <2>2
<1>3. ASSUME NEW n \in 1..Len(x), n - 1 \in I PROVE n \in I
  <2>1. f[n - 1] \in Replaced /\ n \in 0..Len(x)
    BY <1>3
  <2>2. ReplaceStep(f[n - 1], n, x, part, by) \in Replaced
    BY <2>1, ReplaceStepType
  <2>. QED BY <1>1, <2>1, <2>2
<1>4. 0..Len(x) \subseteq I
  <2> HIDE DEF I
  <2>. QED BY <1>2, <1>3, IntervalInduction
<1>5. f[Len(x)] \in Replaced
  BY <1>4
<1>. QED BY <1>1, <1>5 DEF Replaced

LEMMA MaskValueType ==
  ASSUME NEW done \in Done, NEW v \in Values
  PROVE  MaskValue(done, v) \in Done
<1>1. PICK m \in Mappings :
           /\ m.value = v
           /\ MaskValue(done, v).text = Replace(done.text, v, <<m.placeholder>>)
           /\ \/ m \in ToSet(done.mappings) /\ MaskValue(done, v).mappings = done.mappings
              \/ /\ m = NewMapping(done.mappings, v)
                 /\ MaskValue(done, v).mappings = Append(done.mappings, m)
  BY MaskValueCases
<1>2. done.text \in Seq(Tokens) /\ done.mappings \in Seq(Mappings)
  BY DEF Done
<1>3. <<m.placeholder>> \in Seq(Tokens)
  BY DEF Mappings
<1>4. v \in Seq(Tokens)
  BY PatternsAssumption, WrittenTokens DEF Values
<1>5. MaskValue(done, v).text \in Seq(Tokens)
  <2> DEFINE x == done.text
             by == <<m.placeholder>>
  <2>1. x \in Seq(Tokens) /\ by \in Seq(Tokens) /\ MaskValue(done, v).text = Replace(x, v, by)
    BY <1>1, <1>2, <1>3
  <2> HIDE DEF x, by
  <2>. QED BY <1>4, <2>1, ReplaceType
<1>6. MaskValue(done, v).mappings \in Seq(Mappings)
  <2>1. Append(done.mappings, m) \in Seq(Mappings)
    <3> DEFINE ms == done.mappings
    <3>1. ms \in Seq(Mappings)
      BY <1>2
    <3> HIDE DEF ms
    <3>2. Append(ms, m) \in Seq(Mappings)
      BY <3>1
    <3>. QED BY <3>2 DEF ms
  <2>. QED BY <1>1, <1>2, <2>1, Zenon
<1>7. MaskValue(done, v) = [text |-> MaskValue(done, v).text, mappings |-> MaskValue(done, v).mappings]
  BY DEF MaskValue
<1>. QED BY <1>5, <1>6, <1>7 DEF Done

LEMMA OfTypeAppend ==
  ASSUME NEW ms \in Seq(Mappings), NEW m \in Mappings, NEW type
  PROVE  /\ Cardinality(OfType(Append(ms, m), type)) =
              IF m.placeholder.word = type THEN Cardinality(OfType(ms, type)) + 1
              ELSE Cardinality(OfType(ms, type))
         /\ Cardinality(OfType(ms, type)) \in Nat
<1> DEFINE long == Append(ms, m)
           e == Len(ms) + 1
<1>1. /\ Len(ms) \in Nat /\ DOMAIN ms = 1..Len(ms) /\ DOMAIN long = 1..e
      /\ \A n \in 1..Len(ms) : long[n] = ms[n]
      /\ long[e] = m
  OBVIOUS
<1>2. /\ IsFiniteSet(OfType(ms, type)) /\ Cardinality(OfType(ms, type)) \in Nat
      /\ OfType(ms, type) \subseteq 1..Len(ms)
  BY CountOfType
<1>3. e \notin OfType(ms, type)
  BY <1>1, <1>2
<1> HIDE DEF long
<1>4. CASE m.placeholder.word = type
  <2>1. OfType(long, type) = OfType(ms, type) \cup {e}
    BY <1>1, <1>4 DEF OfType
  <2>2. Cardinality(OfType(ms, type) \cup {e}) = Cardinality(OfType(ms, type)) + 1
    BY <1>2, <1>3, FS_AddElement
  <2>. QED BY <1>2, <1>4, <2>1, <2>2 DEF long
<1>5. CASE m.placeholder.word # type
  <2>1. OfType(long, type) = OfType(ms, type)
    BY <1>1, <1>5 DEF OfType
  <2>. QED BY <1>2, <1>5, <2>1 DEF long
<1>. QED BY <1>4, <1>5

LEMMA NumberedAppend ==
  ASSUME NEW ms \in Seq(Mappings), Numbered(ms), NEW v \in Values
  PROVE  Numbered(Append(ms, NewMapping(ms, v)))
<1> DEFINE m == NewMapping(ms, v)
           long == Append(ms, m)
           e == Len(ms) + 1
           C(s, type) == Cardinality(OfType(s, type))
<1>1. /\ m.value = v /\ m.placeholder.word = PiiOf[v]
      /\ m.placeholder.nr = C(ms, PiiOf[v]) + 1
  BY DEF NewMapping, Mapping, Placeholder
<1>2. C(ms, PiiOf[v]) \in Nat
  BY CountOfType
<1>3. m \in Mappings
  <2>1. m.placeholder.nr \in Nat \ {0}
    BY <1>1, <1>2
  <2>2. v \in Seq(Tokens) /\ PiiOf[v] \in ToSet(PiiTypes)
    BY PatternsAssumption, WrittenTokens DEF Values
  <2>3. Placeholder(PiiOf[v], C(ms, PiiOf[v]) + 1) \in Tokens
    <3>1. C(ms, PiiOf[v]) + 1 \in Nat \ {0}
      BY <1>2
    <3>. QED BY <2>2, <3>1 DEF Placeholder, Tokens
  <2>. QED BY <2>2, <2>3 DEF NewMapping, Mapping, Mappings
<1>4. /\ Len(ms) \in Nat /\ DOMAIN ms = 1..Len(ms) /\ DOMAIN long = 1..e
      /\ \A n \in 1..Len(ms) : long[n] = ms[n]
      /\ long[e] = m
  <2> HIDE DEF m
  <2>. QED BY <1>3
<1> HIDE DEF m
<1>5. \A type : /\ C(long, type) = IF m.placeholder.word = type THEN C(ms, type) + 1 ELSE C(ms, type)
                /\ C(ms, type) \in Nat
  BY <1>3, OfTypeAppend
<1> HIDE DEF long, C
<1>6. \A n \in 1..Len(ms) : /\ ms[n].value \in Values
                            /\ ms[n].placeholder.word = PiiOf[ms[n].value]
                            /\ ms[n].placeholder.nr \in Nat \ {0}
                            /\ ms[n].placeholder.nr <= C(ms, ms[n].placeholder.word)
  BY <1>4 DEF Numbered, C
<1>7. \A n \in 1..Len(ms) : ms[n].placeholder # m.placeholder
  <2> SUFFICES ASSUME NEW n \in 1..Len(ms), ms[n].placeholder = m.placeholder PROVE FALSE
    OBVIOUS
  <2>1. m.placeholder.nr \in Nat /\ m.placeholder.nr <= C(ms, PiiOf[v])
    BY <1>1, <1>6
  <2>. QED BY <1>1, <1>2, <2>1
<1>8. ASSUME NEW n \in 1..e
      PROVE  /\ long[n].value \in Values
             /\ long[n].placeholder.word = PiiOf[long[n].value]
             /\ long[n].placeholder.nr \in Nat \ {0}
             /\ long[n].placeholder.nr <= C(long, long[n].placeholder.word)
  <2>1. CASE n \in 1..Len(ms)
    <3>1. long[n] = ms[n]
      BY <1>4, <2>1
    <3> DEFINE p == ms[n].placeholder
    <3>2. p.nr \in Nat /\ p.nr <= C(ms, p.word)
      BY <1>6, <2>1
    <3>3. C(ms, p.word) \in Nat /\ C(ms, p.word) <= C(long, p.word)
      BY <1>5
    <3>4. p.nr <= C(long, p.word)
      <4>1. C(long, p.word) \in Nat
        BY <1>5
      <4> HIDE DEF p
      <4>. QED BY <3>2, <3>3, <4>1
    <3>. QED BY <1>6, <2>1, <3>1, <3>4
  <2>2. CASE n = e
    <3>1. long[n] = m
      BY <1>4, <2>2
    <3>2. C(long, PiiOf[v]) = C(ms, PiiOf[v]) + 1
      BY <1>1, <1>5
    <3>. QED BY <1>1, <1>2, <3>1, <3>2
  <2>. QED BY <1>4, <2>1, <2>2
<1>9. ASSUME NEW k \in 1..e, NEW n \in 1..e, long[k].placeholder = long[n].placeholder
      PROVE  k = n
  <2>1. CASE k \in 1..Len(ms) /\ n \in 1..Len(ms)
    <3>1. ms[k].placeholder = ms[n].placeholder
      BY <1>4, <1>9, <2>1
    <3>. QED BY <1>4, <2>1, <3>1 DEF Numbered
  <2>2. CASE k = e /\ n # e
    <3>1. n \in 1..Len(ms) /\ ms[n].placeholder = m.placeholder
      BY <1>4, <1>9, <2>2
    <3>. QED BY <1>7, <3>1
  <2>3. CASE k # e /\ n = e
    <3>1. k \in 1..Len(ms) /\ ms[k].placeholder = m.placeholder
      BY <1>4, <1>9, <2>3
    <3>. QED BY <1>7, <3>1
  <2>4. CASE k = e /\ n = e
    BY <2>4
  <2>. QED BY <1>4, <2>1, <2>2, <2>3, <2>4
<1>10. DOMAIN long = 1..e
  BY <1>4
<1>11. Numbered(long)
  <2> HIDE DEF e
  <2>. QED BY <1>8, <1>9, <1>10 DEF Numbered, C
<1>. QED BY <1>11 DEF long, m

\* A value is left alone by what leaves written atoms alone.
LEMMA RestoresValue ==
  ASSUME NEW h, NEW ms, Restores(h, ms), NEW v \in Values
  PROVE  Put(h, v) = v
<1>1. v \in Seq(Written)
  BY PatternsAssumption DEF Values
<1>. QED BY <1>1, WrittenStays DEF Restores

LEMMA RestoresReplaced ==
  ASSUME NEW h, NEW ms, Restores(h, ms), NEW v \in Values, NEW m \in ToSet(ms), m.value = v,
         NEW x \in Seq(Tokens), m.placeholder \in Tokens
  PROVE  Put(h, Replace(x, v, <<m.placeholder>>)) = Put(h, x)
<1> DEFINE p == m.placeholder
           by == <<p>>
<1>1. Put(h, v) = v
  BY RestoresValue
<1>2. h[p] = v
  BY DEF Restores, ToSet
<1>3. Swaps(h, Tokens)
  BY DEF Restores
<1> HIDE DEF p
<1>4. Put(h, <<p>>) = h[p]
  BY <1>3, PutTokens DEF p
<1>5. Alike(h, h, v, by)
  BY <1>1, <1>2, <1>3, <1>4 DEF Alike
<1>6. v \in Seq(Tokens) /\ v # <<>> /\ by \in Seq(Tokens)
  BY PatternsAssumption, WrittenTokens DEF Values, p
<1> HIDE DEF by
<1>7. Put(h, Replace(x, v, by)) = Put(h, x)
  BY <1>5, <1>6, ReplacePut
<1>. QED BY <1>7 DEF by, p

LEMMA MaskValueStep ==
  ASSUME NEW done \in Done, NEW v \in Values, Numbered(done.mappings)
  PROVE  /\ Numbered(MaskValue(done, v).mappings)
         /\ \A h : Restores(h, MaskValue(done, v).mappings) =>
              Restores(h, done.mappings) /\ Put(h, MaskValue(done, v).text) = Put(h, done.text)
<1> DEFINE new == MaskValue(done, v)
<1>1. PICK m \in Mappings :
           /\ m.value = v
           /\ new.text = Replace(done.text, v, <<m.placeholder>>)
           /\ \/ m \in ToSet(done.mappings) /\ new.mappings = done.mappings
              \/ /\ m = NewMapping(done.mappings, v)
                 /\ new.mappings = Append(done.mappings, m)
  BY MaskValueCases
<1>2. done.mappings \in Seq(Mappings) /\ done.text \in Seq(Tokens)
  BY DEF Done
<1>3. m.placeholder \in Tokens
  BY DEF Mappings
<1> HIDE DEF new
<1>4. CASE m \in ToSet(done.mappings) /\ new.mappings = done.mappings
  <2>1. ASSUME NEW h, Restores(h, done.mappings)
        PROVE  Put(h, new.text) = Put(h, done.text)
    BY <1>1, <1>2, <1>3, <1>4, <2>1, RestoresReplaced
  <2>. QED BY <1>4, <2>1 DEF new
<1>5. CASE m = NewMapping(done.mappings, v) /\ new.mappings = Append(done.mappings, m)
  <2>1. Numbered(new.mappings)
    BY <1>2, <1>5, NumberedAppend
  <2>2. /\ m \in ToSet(new.mappings)
        /\ DOMAIN done.mappings \subseteq DOMAIN new.mappings
        /\ \A n \in DOMAIN done.mappings : new.mappings[n] = done.mappings[n]
    <3> DEFINE ms == done.mappings
    <3>1. ms \in Seq(Mappings) /\ new.mappings = Append(ms, m)
      BY <1>2, <1>5
    <3> HIDE DEF ms
    <3>2. /\ Append(ms, m)[Len(ms) + 1] = m /\ Len(ms) + 1 \in DOMAIN Append(ms, m)
          /\ DOMAIN ms \subseteq DOMAIN Append(ms, m)
          /\ \A n \in DOMAIN ms : Append(ms, m)[n] = ms[n]
      BY <3>1
    <3>3. m \in ToSet(Append(ms, m))
      BY <3>2 DEF ToSet
    <3>4. /\ m \in ToSet(new.mappings)
          /\ DOMAIN ms \subseteq DOMAIN new.mappings
          /\ \A n \in DOMAIN ms : new.mappings[n] = ms[n]
      BY <3>1, <3>2, <3>3
    <3>. QED BY <3>4 DEF ms
  <2>3. ASSUME NEW h, Restores(h, new.mappings)
        PROVE  Restores(h, done.mappings) /\ Put(h, new.text) = Put(h, done.text)
    <3>1. Restores(h, done.mappings)
      BY <2>2, <2>3 DEF Restores
    <3>2. Put(h, new.text) = Put(h, done.text)
      BY <1>1, <1>2, <1>3, <2>2, <2>3, RestoresReplaced
    <3>. QED BY <3>1, <3>2
  <2>. QED BY <2>1, <2>3 DEF new
<1>. QED BY <1>1, <1>4, <1>5

Masking(f, x) ==
    f = [n \in 0..Len(Found(x)) |->
           IF n = 0 THEN [text |-> x, mappings |-> <<>>] ELSE MaskValue(f[n - 1], Found(x)[n])]

LEMMA MaskTextRuns ==
  ASSUME NEW x \in Seq(Tokens)
  PROVE  \E f : /\ MaskText(x) = f[Len(Found(x))]
                /\ f[0] = [text |-> x, mappings |-> <<>>]
                /\ \A n \in 1..Len(Found(x)) : f[n] = MaskValue(f[n - 1], Found(x)[n])
<1> DEFINE found == Found(x)
           N == Len(found)
           zero == [text |-> x, mappings |-> <<>>]
           move == [n \in 1..N |-> [d \in Done |-> MaskValue(d, found[n])]]
<1>1. found \in Seq(Values)
  BY FoundAreValues
<1> HIDE DEF found
<1>2. N \in Nat /\ zero \in Done /\ \A n \in 1..N : found[n] \in Values
  <2>1. <<>> \in Seq(Mappings)
    OBVIOUS
  <2>. QED BY <1>1, <2>1 DEF Done
<1>3. move \in [1..N -> [Done -> Done]]
  <2>1. \A n \in 1..N : \A d \in Done : MaskValue(d, found[n]) \in Done
    BY <1>2, MaskValueType
  <2> HIDE DEF N
  <2>. QED BY <2>1
<1>4. PICK f \in [0..N -> Done] : Runs(f, N, zero, move)
  <2> HIDE DEF N, move, zero
  <2>. QED BY <1>2, <1>3, Recursion
<1>5. \A n \in 0..N : f[n] = IF n = 0 THEN zero ELSE MaskValue(f[n - 1], found[n])
  <2> TAKE n \in 0..N
  <2> HIDE DEF zero
  <2>1. CASE n = 0
    BY <1>2, <1>4, <2>1 DEF Runs
  <2>2. CASE n # 0
    <3>1. n \in 1..N /\ n - 1 \in 0..N
      BY <1>2, <2>2
    <3>2. f[n - 1] \in Done
      BY <1>4, <3>1
    <3>3. f[n] = move[n][f[n - 1]]
      BY <1>4, <2>2 DEF Runs
    <3> HIDE DEF N
    <3>. QED BY <2>2, <3>1, <3>2, <3>3
  <2>. QED BY <2>1, <2>2
<1>6. Masking(f, x)
  BY <1>4, <1>5 DEF Masking, found
<1>7. PICK g : g = CHOOSE k : Masking(k, x)
  OBVIOUS
<1>8. Masking(g, x)
  BY <1>6, <1>7, Zenon
<1>9. MaskText(x) = g[Len(Found(x))]
  BY <1>7, Zenon DEF MaskText, Masking, Found
<1>10. g[0] = zero
  BY <1>2, <1>8 DEF Masking, found
<1>11. ASSUME NEW n \in 1..N
       PROVE  g[n] = MaskValue(g[n - 1], found[n])
  <2>1. n \in 0..N /\ n # 0
    BY <1>11
  <2>. QED BY <1>8, <2>1 DEF Masking, found
<1>. QED BY <1>9, <1>10, <1>11, Zenon DEF found

\* Whoever puts back the values of a masked text has the text as it came.
Restored(done, x) ==
    /\ done \in Done
    /\ Numbered(done.mappings)
    /\ \A h : Restores(h, done.mappings) => Put(h, done.text) = Put(h, x)

LEMMA MaskTextRestores ==
  ASSUME NEW x \in Seq(Tokens)
  PROVE  Restored(MaskText(x), x)
<1> DEFINE found == Found(x)
           N == Len(found)
           zero == [text |-> x, mappings |-> <<>>]
<1>1. PICK f : /\ MaskText(x) = f[N]
               /\ f[0] = zero
               /\ \A n \in 1..N : f[n] = MaskValue(f[n - 1], found[n])
  BY MaskTextRuns
<1>2. found \in Seq(Values)
  BY FoundAreValues
<1> HIDE DEF found
<1>3. N \in Nat /\ \A n \in 1..N : found[n] \in Values
  BY <1>2
<1> DEFINE I == {n \in 0..N : Restored(f[n], x)}
<1>4. 0 \in I
  <2>1. zero \in Done
    <3>1. <<>> \in Seq(Mappings)
      OBVIOUS
    <3>. QED BY <3>1 DEF Done
  <2>2. Numbered(<<>>)
    BY DEF Numbered
  <2>3. zero.text = x /\ zero.mappings = <<>>
    OBVIOUS
  <2> HIDE DEF zero
  <2>. QED BY <1>1, <1>3, <2>1, <2>2, <2>3 DEF Restored
<1>5. ASSUME NEW n \in 1..N, n - 1 \in I PROVE n \in I
  <2> DEFINE done == f[n - 1]
             next == MaskValue(done, found[n])
  <2>1. Restored(done, x) /\ found[n] \in Values /\ f[n] = next /\ n \in 0..N
    BY <1>1, <1>3, <1>5
  <2> HIDE DEF done
  <2>2. done \in Done /\ Numbered(done.mappings)
    BY <2>1 DEF Restored
  <2>3. next \in Done
    BY <2>1, <2>2, MaskValueType
  <2>4. /\ Numbered(next.mappings)
        /\ \A h : Restores(h, next.mappings) =>
             Restores(h, done.mappings) /\ Put(h, next.text) = Put(h, done.text)
    BY <2>1, <2>2, MaskValueStep
  <2> HIDE DEF next
  <2>5. ASSUME NEW h, Restores(h, next.mappings) PROVE Put(h, next.text) = Put(h, x)
    BY <2>1, <2>4, <2>5, Zenon DEF Restored
  <2>6. Restored(next, x)
    BY <2>3, <2>4, <2>5 DEF Restored
  <2>. QED BY <2>1, <2>6
<1>6. 0..N \subseteq I
  <2> HIDE DEF I, N
  <2>. QED BY <1>3, <1>4, <1>5, IntervalInduction
<1>7. Restored(f[N], x)
  BY <1>3, <1>6
<1>. QED BY <1>1, <1>7

OfNames(ms) == \A n \in DOMAIN ms : ms[n].placeholder.word = "NAME"

OfPatterns(ms) == \A n \in DOMAIN ms : ms[n].placeholder.word # "NAME"

\* What mask_text maps can be put back.
LEMMA NumberedSound ==
  ASSUME NEW ms \in Seq(Mappings), Numbered(ms)
  PROVE  Sound(ms) /\ OfPatterns(ms)
<1>1. ASSUME NEW n \in DOMAIN ms
      PROVE  /\ ms[n].placeholder \notin Written
             /\ ms[n].value \in Seq(Written) /\ ms[n].value \in Words
             /\ ms[n].placeholder.word # "NAME"
  <2> DEFINE m == ms[n]
  <2>1. m.value \in Values /\ m.placeholder.word = PiiOf[m.value] /\ m.placeholder.nr \in Nat \ {0}
    BY <1>1 DEF Numbered
  <2> HIDE DEF m
  <2>2. m.value \in Seq(Written) /\ m.value \in Words
    BY <2>1, PatternsAssumption DEF Values
  <2>3. m.placeholder \notin Written
    BY <2>1 DEF Written
  <2>4. m.placeholder.word \in ToSet(PiiTypes)
    BY <2>1 DEF Values
  <2>5. "NAME" \notin ToSet(PiiTypes)
    BY DEF ToSet, PiiTypes
  <2>. QED BY <2>2, <2>3, <2>4, <2>5 DEF m
<1>2. \A k, n \in DOMAIN ms : ms[k].placeholder = ms[n].placeholder => ms[k].value = ms[n].value
  BY Zenon DEF Numbered
<1>. QED BY <1>1, <1>2 DEF Sound, OfPatterns

-----------------------------------------------------------------------------
(* mask_names.                                                              *)

NamesOf(words) == Kept([i \in DOMAIN words |-> i], {i \in DOMAIN words : IsName(words, i)})

NameAt(words, i) == Placeholder("NAME", NameNumber(words, i))

NameMappings(words) ==
    [n \in DOMAIN NamesOf(words) |-> Mapping(NameAt(words, NamesOf(words)[n]), Strip(words[NamesOf(words)[n]]))]

MaskedWord(words, i) ==
    IF IsName(words, i) THEN Replace(words[i], Strip(words[i]), <<NameAt(words, i)>>) ELSE words[i]

MaskedWords(words) == [i \in DOMAIN words |-> MaskedWord(words, i)]

LEMMA MaskNamesParts ==
  ASSUME NEW x
  PROVE  /\ MaskNames(x).text = JoinWords(MaskedWords(SplitWords(x)))
         /\ MaskNames(x).mappings = NameMappings(SplitWords(x))
BY DEF MaskNames, MaskedWords, MaskedWord, NameMappings, NamesOf, NameAt

LEMMA WordsAt ==
  ASSUME NEW words \in Seq(Words)
  PROVE  /\ DOMAIN words = 1..Len(words) /\ Len(words) \in Nat
         /\ \A i \in DOMAIN words : words[i] \in Words /\ words[i] \in Seq(Solid) /\ words[i] \in Seq(Tokens)
<1>1. DOMAIN words = 1..Len(words) /\ Len(words) \in Nat
  OBVIOUS
<1>2. \A i \in DOMAIN words : words[i] \in Words
  OBVIOUS
<1>. QED BY <1>1, <1>2, SolidTokens

\* A name is a word that was written.
LEMMA NameWord ==
  ASSUME NEW words \in Seq(Words), NEW i \in DOMAIN words, IsName(words, i)
  PROVE  Strip(words[i]) \in Seq(Written) /\ Strip(words[i]) \in Words
<1>1. PICK sp : Strip(words[i]) = <<Atom(sp)>>
  BY DEF IsName, Spells
<1>2. Strip(words[i]) \in Seq(Solid)
  BY WordsAt, StripType
<1>3. Atom(sp) \in Solid
  <2> DEFINE s == Strip(words[i])
             a == Atom(sp)
  <2>1. s \in Seq(Solid) /\ s = <<a>>
    BY <1>1, <1>2
  <2> HIDE DEF s, a
  <2>2. <<a>>[1] = a /\ 1 \in 1..Len(<<a>>)
    OBVIOUS
  <2>3. a \in Solid
    BY <2>1, <2>2
  <2>. QED BY <2>3 DEF a
<1>4. Atom(sp) \in Written
  BY <1>3 DEF Solid, Tokens, Atom, Written
<1>. QED BY <1>1, <1>2, <1>4 DEF Words

NamesUpTo(words, i) == {k \in 1..i : IsName(words, k)}

LEMMA NamesCounted ==
  ASSUME NEW words \in Seq(Words), NEW i \in DOMAIN words
  PROVE  /\ NameNumber(words, i) = Cardinality(NamesUpTo(words, i))
         /\ IsFiniteSet(NamesUpTo(words, i)) /\ NameNumber(words, i) \in Nat
         /\ IsName(words, i) => NameNumber(words, i) \in Nat \ {0}
<1>1. i \in Nat \ {0} /\ NamesUpTo(words, i) \subseteq 1..i
  BY DEF NamesUpTo
<1>2. NameNumber(words, i) = Cardinality(NamesUpTo(words, i))
  BY DEF NameNumber, NamesUpTo
<1>3. IsFiniteSet(NamesUpTo(words, i))
  <2>1. IsFiniteSet(1..i)
    BY <1>1, FS_Interval
  <2>. QED BY <1>1, <2>1, FS_Subset
<1>4. Cardinality(NamesUpTo(words, i)) \in Nat
  BY <1>3, FS_CardinalityType
<1>5. IsName(words, i) => Cardinality(NamesUpTo(words, i)) # 0
  <2>1. IsName(words, i) => NamesUpTo(words, i) # {}
    BY <1>1 DEF NamesUpTo
  <2>. QED BY <1>3, <2>1, FS_EmptySet
<1>. QED BY <1>2, <1>3, <1>4, <1>5

LEMMA NameNumberGrows ==
  ASSUME NEW words \in Seq(Words), NEW i \in DOMAIN words, NEW k \in DOMAIN words,
         i < k, IsName(words, k)
  PROVE  NameNumber(words, i) < NameNumber(words, k)
<1>1. i \in Nat /\ k \in Nat
  OBVIOUS
<1>2. k \notin NamesUpTo(words, i) /\ NamesUpTo(words, i) \cup {k} \subseteq NamesUpTo(words, k)
  BY <1>1 DEF NamesUpTo
<1>3. Cardinality(NamesUpTo(words, i) \cup {k}) = Cardinality(NamesUpTo(words, i)) + 1
  BY <1>2, NamesCounted, FS_AddElement
<1>4. Cardinality(NamesUpTo(words, i) \cup {k}) <= Cardinality(NamesUpTo(words, k))
  BY <1>2, NamesCounted, FS_Subset
<1>5. /\ NameNumber(words, i) = Cardinality(NamesUpTo(words, i))
      /\ NameNumber(words, k) = Cardinality(NamesUpTo(words, k))
      /\ NameNumber(words, i) \in Nat /\ NameNumber(words, k) \in Nat
  BY NamesCounted
<1>. QED BY <1>3, <1>4, <1>5

LEMMA NamesAreNames ==
  ASSUME NEW words \in Seq(Words)
  PROVE  /\ NamesOf(words) \in Seq(DOMAIN words)
         /\ ToSet(NamesOf(words)) = {i \in DOMAIN words : IsName(words, i)}
<1> DEFINE all == [i \in DOMAIN words |-> i]
           S == {i \in DOMAIN words : IsName(words, i)}
<1>1. DOMAIN words = 1..Len(words) /\ Len(words) \in Nat
  BY WordsAt
<1>2. all \in Seq(DOMAIN words) /\ ToSet(all) = DOMAIN words
  <2>1. all \in [1..Len(words) -> DOMAIN words]
    BY <1>1
  <2>2. ToSet(all) = DOMAIN words
    BY DEF ToSet
  <2> HIDE DEF all
  <2>. QED BY <1>1, <2>1, <2>2, SequenceOf
<1>3. NamesOf(words) = Kept(all, S)
  BY DEF NamesOf
<1> HIDE DEF all, S
<1>4. Kept(all, S) \in Seq(DOMAIN words) /\ ToSet(Kept(all, S)) = ToSet(all) \cap S
  BY <1>2, KeptElements
<1>5. ToSet(all) \cap S = S
  BY <1>2 DEF S
<1>. QED BY <1>3, <1>4, <1>5 DEF S

LEMMA NameMappingsAt ==
  ASSUME NEW words \in Seq(Words)
  PROVE  /\ NameMappings(words) \in Seq(Mappings)
         /\ \A n \in DOMAIN NameMappings(words) : \E i \in DOMAIN words :
              IsName(words, i) /\ NameMappings(words)[n] = Mapping(NameAt(words, i), Strip(words[i]))
         /\ \A i \in DOMAIN words : IsName(words, i) => \E n \in DOMAIN NameMappings(words) :
              NameMappings(words)[n] = Mapping(NameAt(words, i), Strip(words[i]))
<1> DEFINE names == NamesOf(words)
           m(i) == Mapping(NameAt(words, i), Strip(words[i]))
           ms == [n \in DOMAIN names |-> m(names[n])]
<1>1. names \in Seq(DOMAIN words) /\ ToSet(names) = {i \in DOMAIN words : IsName(words, i)}
  BY NamesAreNames
<1>2. NameMappings(words) = ms
  BY DEF NameMappings
<1> HIDE DEF names
<1>3. DOMAIN names = 1..Len(names) /\ Len(names) \in Nat
  BY <1>1
<1>4. \A n \in DOMAIN names : names[n] \in DOMAIN words /\ IsName(words, names[n])
  BY <1>1 DEF ToSet
<1>5. ASSUME NEW i \in DOMAIN words, IsName(words, i) PROVE m(i) \in Mappings
  <2>1. Strip(words[i]) \in Seq(Tokens)
    BY <1>5, NameWord, WrittenTokens
  <2>2. NameNumber(words, i) \in Nat \ {0}
    BY <1>5, NamesCounted
  <2>3. NameAt(words, i) \in Tokens
    BY <2>2 DEF NameAt, Placeholder, Tokens
  <2>. QED BY <2>1, <2>3 DEF Mapping, Mappings
<1> HIDE DEF m
<1>6. ms \in [1..Len(names) -> Mappings]
  BY <1>3, <1>4, <1>5
<1>7. ms \in Seq(Mappings)
  <2> HIDE DEF ms
  <2>. QED BY <1>3, <1>6, SequenceOf
<1>8. \A n \in DOMAIN ms : names[n] \in DOMAIN words /\ IsName(words, names[n]) /\ ms[n] = m(names[n])
  BY <1>4
<1>9. ASSUME NEW i \in DOMAIN words, IsName(words, i) PROVE \E n \in DOMAIN ms : ms[n] = m(i)
  <2>1. i \in ToSet(names)
    BY <1>1, <1>9
  <2>2. PICK n \in DOMAIN names : names[n] = i
    BY <2>1 DEF ToSet
  <2>. QED BY <2>2
<1> HIDE DEF ms
<1>10. \A n \in DOMAIN ms : \E i \in DOMAIN words : IsName(words, i) /\ ms[n] = m(i)
  BY <1>8
<1>. QED BY <1>2, <1>7, <1>9, <1>10 DEF m

\* A number for every name.
LEMMA NamesDiffer ==
  ASSUME NEW words \in Seq(Words), NEW i \in DOMAIN words, NEW k \in DOMAIN words,
         IsName(words, i), IsName(words, k), NameAt(words, i) = NameAt(words, k)
  PROVE  i = k
<1>1. NameNumber(words, i) = NameNumber(words, k)
  BY DEF NameAt, Placeholder
<1>2. NameNumber(words, i) \in Nat /\ i \in Nat /\ k \in Nat
  BY NamesCounted, WordsAt
<1>3. ~(i < k)
  BY <1>1, <1>2, NameNumberGrows
<1>4. ~(k < i)
  BY <1>1, <1>2, NameNumberGrows
<1>. QED BY <1>2, <1>3, <1>4

LEMMA NameMappingsSound ==
  ASSUME NEW words \in Seq(Words)
  PROVE  Sound(NameMappings(words)) /\ OfNames(NameMappings(words))
<1> DEFINE ms == NameMappings(words)
           m(i) == Mapping(NameAt(words, i), Strip(words[i]))
           Of(n, i) == IsName(words, i) /\ ms[n] = m(i)
<1>1. ms \in Seq(Mappings) /\ \A n \in DOMAIN ms : \E i \in DOMAIN words : Of(n, i)
  BY NameMappingsAt
<1>2. ASSUME NEW i
      PROVE  m(i).placeholder = NameAt(words, i) /\ m(i).value = Strip(words[i])
             /\ m(i).placeholder.word = "NAME" /\ m(i).placeholder.nr = NameNumber(words, i)
  BY DEF Mapping, NameAt, Placeholder
<1> HIDE DEF ms, m
<1>3. ASSUME NEW n \in DOMAIN ms
      PROVE  /\ ms[n].placeholder \notin Written
             /\ ms[n].value \in Seq(Written) /\ ms[n].value \in Words
             /\ ms[n].placeholder.word = "NAME"
  <2>1. PICK i \in DOMAIN words : Of(n, i)
    BY <1>1
  <2>2. ms[n].placeholder.nr \in Nat \ {0}
    BY <1>2, <2>1, NamesCounted
  <2>3. ms[n].placeholder \notin Written
    BY <2>2 DEF Written
  <2>4. ms[n].value \in Seq(Written) /\ ms[n].value \in Words
    BY <1>2, <2>1, NameWord
  <2>. QED BY <1>2, <2>1, <2>3, <2>4
<1>4. ASSUME NEW n \in DOMAIN ms, NEW k \in DOMAIN ms, ms[n].placeholder = ms[k].placeholder
      PROVE  ms[n].value = ms[k].value
  <2>1. PICK i \in DOMAIN words : Of(n, i)
    BY <1>1
  <2>2. PICK j \in DOMAIN words : Of(k, j)
    BY <1>1
  <2>3. NameAt(words, i) = NameAt(words, j)
    BY <1>2, <1>4, <2>1, <2>2
  <2>4. i = j
    BY <2>1, <2>2, <2>3, NamesDiffer
  <2>. QED BY <2>1, <2>2, <2>4
<1>. QED BY <1>1, <1>3, <1>4 DEF Sound, ms, OfNames

Comprises(c, ms) == \A n \in DOMAIN ms : \E k \in DOMAIN c : c[k] = ms[n]

\* Mappings of different placeholders, one behind the other.
LEMMA SoundTogether ==
  ASSUME NEW a, NEW b, Sound(a), Sound(b), OfPatterns(a), OfNames(b)
  PROVE  Sound(a \o b) /\ Comprises(a \o b, a) /\ Comprises(a \o b, b)
<1> DEFINE c == a \o b
<1>1. a \in Seq(Mappings) /\ b \in Seq(Mappings)
  BY DEF Sound
<1>2. /\ c \in Seq(Mappings)
      /\ \A n \in DOMAIN a : n \in DOMAIN c /\ c[n] = a[n]
      /\ \A n \in DOMAIN b : Len(a) + n \in DOMAIN c /\ c[Len(a) + n] = b[n]
      /\ \A k \in DOMAIN c : k \in DOMAIN a \/ \E n \in DOMAIN b : k = Len(a) + n
  <2>1. /\ c \in Seq(Mappings)
        /\ Len(a) \in Nat /\ Len(b) \in Nat /\ Len(c) = Len(a) + Len(b)
        /\ DOMAIN a = 1..Len(a) /\ DOMAIN b = 1..Len(b) /\ DOMAIN c = 1..Len(c)
    BY <1>1
  <2>2. \A n \in 1..Len(a) : c[n] = a[n]
    BY <1>1
  <2>3. \A n \in 1..Len(b) : c[Len(a) + n] = b[n]
    BY <1>1
  <2> HIDE DEF c
  <2>4. \A k \in DOMAIN c : k \in DOMAIN a \/ \E n \in DOMAIN b : k = Len(a) + n
    <3> TAKE k \in DOMAIN c
    <3>1. CASE k \in 1..Len(a)
      BY <2>1, <3>1
    <3>2. CASE k \notin 1..Len(a)
      <4>1. k - Len(a) \in 1..Len(b) /\ k = Len(a) + (k - Len(a))
        BY <2>1, <3>2
      <4>. QED BY <2>1, <4>1
    <3>. QED BY <3>1, <3>2
  <2>. QED BY <2>1, <2>2, <2>3, <2>4
<1> HIDE DEF c
<1> DEFINE Good(m) == m.placeholder \notin Written /\ m.value \in Seq(Written) /\ m.value \in Words
<1>3. (\A n \in DOMAIN a : Good(a[n])) /\ (\A n \in DOMAIN b : Good(b[n]))
  BY DEF Sound
<1>4. \A k \in DOMAIN c : \/ k \in DOMAIN a /\ c[k] = a[k]
                          \/ \E n \in DOMAIN b : c[k] = b[n]
  BY <1>2
<1>5. ASSUME NEW k \in DOMAIN c PROVE Good(c[k])
  <2> HIDE DEF Good
  <2>. QED BY <1>3, <1>4
<1>6. ASSUME NEW k \in DOMAIN c, NEW n \in DOMAIN c, c[k].placeholder = c[n].placeholder
      PROVE  c[k].value = c[n].value
  <2>1. CASE k \in DOMAIN a /\ c[k] = a[k] /\ n \in DOMAIN a /\ c[n] = a[n]
    BY <1>6, <2>1 DEF Sound
  <2>2. CASE (\E i \in DOMAIN b : c[k] = b[i]) /\ (\E j \in DOMAIN b : c[n] = b[j])
    BY <1>6, <2>2 DEF Sound
  <2>3. CASE k \in DOMAIN a /\ c[k] = a[k] /\ (\E j \in DOMAIN b : c[n] = b[j])
    BY <1>6, <2>3 DEF OfNames, OfPatterns
  <2>4. CASE n \in DOMAIN a /\ c[n] = a[n] /\ (\E j \in DOMAIN b : c[k] = b[j])
    BY <1>6, <2>4 DEF OfNames, OfPatterns
  <2>. QED BY <1>4, <2>1, <2>2, <2>3, <2>4
<1>7. Sound(c)
  BY <1>2, <1>5, <1>6 DEF Sound
<1>8. Comprises(c, a) /\ Comprises(c, b)
  BY <1>2 DEF Comprises
<1>. QED BY <1>7, <1>8 DEF c

\* A word with a name in it, and what is put back into it.
LEMMA MaskedWordPut ==
  ASSUME NEW words \in Seq(Words), NEW i \in DOMAIN words,
         NEW h, Swaps(h, Tokens), \A a \in Written : h[a] = <<a>>,
         IsName(words, i) => h[NameAt(words, i)] = Strip(words[i])
  PROVE  MaskedWord(words, i) \in Seq(Tokens) /\ Put(h, MaskedWord(words, i)) = Put(h, words[i])
<1> DEFINE w == words[i]
           p == NameAt(words, i)
           v == Strip(words[i])
           by == <<p>>
<1>1. w \in Seq(Tokens)
  BY WordsAt
<1>2. CASE ~IsName(words, i)
  BY <1>1, <1>2 DEF MaskedWord
<1>3. CASE IsName(words, i)
  <2>1. v \in Seq(Written) /\ v \in Words /\ v \in Seq(Tokens) /\ v # <<>>
    <3>1. v \in Seq(Written) /\ v \in Words
      BY <1>3, NameWord
    <3>. QED BY <3>1, WrittenTokens DEF Words
  <2>2. p \in Tokens
    <3>1. NameNumber(words, i) \in Nat \ {0}
      BY <1>3, NamesCounted
    <3>. QED BY <3>1 DEF NameAt, Placeholder, Tokens
  <2>3. h[p] = v
    BY <1>3
  <2>4. MaskedWord(words, i) = Replace(w, v, by)
    BY <1>3 DEF MaskedWord
  <2> HIDE DEF w, p, v
  <2>5. Put(h, v) = v
    BY <2>1, WrittenStays
  <2>6. Put(h, <<p>>) = h[p] /\ <<p>> \in Seq(Tokens)
    BY <2>2, PutTokens
  <2>7. Alike(h, h, v, by)
    BY <2>3, <2>5, <2>6 DEF Alike
  <2> HIDE DEF by
  <2>8. by \in Seq(Tokens)
    BY <2>6 DEF by
  <2>9. Replace(w, v, by) \in Seq(Tokens) /\ Put(h, Replace(w, v, by)) = Put(h, w)
    BY <1>1, <2>1, <2>7, <2>8, ReplacePut
  <2>. QED BY <2>4, <2>9 DEF w
<1>. QED BY <1>2, <1>3

LEMMA MaskedWordsPut ==
  ASSUME NEW words \in Seq(Words),
         NEW h, Swaps(h, Tokens), \A a \in Written : h[a] = <<a>>,
         \A i \in DOMAIN words : IsName(words, i) => h[NameAt(words, i)] = Strip(words[i])
  PROVE  /\ MaskedWords(words) \in Seq(Seq(Tokens))
         /\ PutEach(h, MaskedWords(words)) = PutEach(h, words)
<1>1. \A i \in DOMAIN words :
        MaskedWord(words, i) \in Seq(Tokens) /\ Put(h, MaskedWord(words, i)) = Put(h, words[i])
  BY MaskedWordPut
<1>2. DOMAIN words = 1..Len(words) /\ Len(words) \in Nat
  BY WordsAt
<1>3. DOMAIN MaskedWords(words) = DOMAIN words /\ \A i \in DOMAIN words : MaskedWords(words)[i] = MaskedWord(words, i)
  BY DEF MaskedWords
<1>4. MaskedWords(words) \in [1..Len(words) -> Seq(Tokens)]
  BY <1>1, <1>2 DEF MaskedWords
<1>5. MaskedWords(words) \in Seq(Seq(Tokens))
  BY <1>2, <1>4, SequenceOf
<1>6. PutEach(h, MaskedWords(words)) = [i \in DOMAIN words |-> Put(h, MaskedWord(words, i))]
  BY <1>3 DEF PutEach
<1>7. PutEach(h, words) = [i \in DOMAIN words |-> Put(h, MaskedWord(words, i))]
  BY <1>1 DEF PutEach
<1>. QED BY <1>5, <1>6, <1>7

\* Masking without white space: what is put back is the text that came.
LEMMA MaskAllPut ==
  ASSUME NEW x \in Seq(Tokens)
  PROVE  /\ Sound(MaskAll(x).mappings)
         /\ MaskAll(x).text \in Seq(Tokens)
         /\ Put(Unmasks(MaskAll(x).mappings), MaskAll(x).text)
              = Norm(Put(Unmasks(MaskAll(x).mappings), x))
<1> DEFINE pii == MaskText(x)
           words == SplitWords(pii.text)
           named == NameMappings(words)
           both == pii.mappings \o named
           h == Unmasks(both)
           out == JoinWords(MaskedWords(words))
<1>1. MaskAll(x).text = out /\ MaskAll(x).mappings = both
  BY MaskNamesParts DEF MaskAll
<1>2. Restored(pii, x)
  BY MaskTextRestores
<1> HIDE DEF pii
<1>3. pii.text \in Seq(Tokens) /\ pii.mappings \in Seq(Mappings) /\ Numbered(pii.mappings)
  BY <1>2 DEF Restored, Done
<1>4. words \in Seq(Words) /\ words \in Seq(Seq(Tokens))
  BY <1>3, NormType
<1>5. JoinWords(words) = Norm(pii.text)
  BY DEF Norm
<1> HIDE DEF words
<1>6. Sound(pii.mappings) /\ OfPatterns(pii.mappings)
  BY <1>3, NumberedSound
<1>7. Sound(named) /\ OfNames(named)
  BY <1>4, NameMappingsSound
<1>8. \A i \in DOMAIN words : IsName(words, i) => \E n \in DOMAIN named :
              named[n] = Mapping(NameAt(words, i), Strip(words[i]))
  BY <1>4, NameMappingsAt
<1> HIDE DEF named
<1>9. Sound(both) /\ Comprises(both, pii.mappings) /\ Comprises(both, named)
  BY <1>6, <1>7, SoundTogether
<1> HIDE DEF both
<1>10. /\ Respects(h) /\ Swaps(h, Tokens)
       /\ \A n \in DOMAIN both : h[both[n].placeholder] = both[n].value
       /\ \A a \in Written : h[a] = <<a>>
  BY <1>9, UnmasksFacts
<1> HIDE DEF h
<1>11. Restores(h, pii.mappings)
  <2>1. \A n \in DOMAIN pii.mappings : h[pii.mappings[n].placeholder] = pii.mappings[n].value
    BY <1>9, <1>10 DEF Comprises
  <2>. QED BY <1>10, <2>1 DEF Restores
<1>12. \A i \in DOMAIN words : IsName(words, i) => h[NameAt(words, i)] = Strip(words[i])
  <2> TAKE i \in DOMAIN words
  <2> HAVE IsName(words, i)
  <2> DEFINE m == Mapping(NameAt(words, i), Strip(words[i]))
  <2>1. PICK n \in DOMAIN named : named[n] = m
    BY <1>8
  <2>2. PICK k \in DOMAIN both : both[k] = m
    BY <1>9, <2>1 DEF Comprises
  <2>3. m.placeholder = NameAt(words, i) /\ m.value = Strip(words[i])
    BY DEF Mapping
  <2> HIDE DEF m
  <2>. QED BY <1>10, <2>2, <2>3
<1>13. MaskedWords(words) \in Seq(Seq(Tokens)) /\ PutEach(h, MaskedWords(words)) = PutEach(h, words)
  BY <1>4, <1>10, <1>12, MaskedWordsPut
<1>14. out \in Seq(Tokens)
  BY <1>13, SpacedType
<1>15. JoinWords(PutEach(h, MaskedWords(words))) = Put(h, out)
  BY <1>10, <1>13, JoinPut
<1>16. JoinWords(PutEach(h, words)) = Put(h, JoinWords(words))
  BY <1>4, <1>10, JoinPut
<1>17. Norm(Put(h, pii.text)) = Put(h, Norm(pii.text))
  BY <1>3, <1>10, NormPut
<1>18. Put(h, pii.text) = Put(h, x)
  BY <1>2, <1>11 DEF Restored
<1>19. Put(h, out) = Norm(Put(h, x))
  BY <1>5, <1>13, <1>15, <1>16, <1>17, <1>18, Zenon
<1>. QED BY <1>1, <1>9, <1>14, <1>19 DEF h

-----------------------------------------------------------------------------
(* The message.                                                             *)

\* What masking left: a masked text and its mappings, or the text as it came.
MaskedOrRaw ==
    \/ masked = MaskAll(raw).text /\ mappings = MaskAll(raw).mappings
    \/ masked = raw /\ mappings = <<>>

\* What extraction may have answered.
IsExtracted(d) ==
    \E plate \in PlateValues, injury \in {"null", "true", "false"},
       shown \in {{}} \cup {{quote} : quote \in Quotes}, hurt \in {{}, {masked}} :
      d = Extracted(plate, injury, Evidence(plate, shown, hurt))

SpanHolds(span) == span # NoSpan => 0 <= span.from /\ span.from < span.to /\ span.to <= Chars(masked)

\* The invariant: what masking left is the text of all later steps, the data are
\* one of the answers extraction can give to it, and an injury the terms find in it
\* is critical from the classification on.
IInv ==
    /\ raw \in Texts
    /\ IF step = "mask" THEN flags = <<>> /\ check = "none" /\ mappings = <<>> ELSE MaskedOrRaw
    /\ check = "failed" => flags # <<>>
    /\ \A i \in DOMAIN flags : SpanHolds(flags[i])
    /\ data # NoData => IsExtracted(data) /\ step \in {"approve", "done"}
    /\ step \in {"extract", "approve", "done"} /\ InjurySignals(masked) # {} => verdict.urgency = "critical"
    /\ status = "approved" => step = "done" /\ Approvable

LEMMA NoMappings ==
  /\ Sound(<<>>)
  /\ \A x \in Seq(Tokens) : Put(Unmasks(<<>>), x) = x
<1>1. Sound(<<>>)
  BY DEF Sound
<1>2. ASSUME NEW x \in Seq(Tokens) PROVE Put(Unmasks(<<>>), x) = x
  <2>1. \A a \in Tokens : Unmasks(<<>>)[a] = <<a>>
    BY DEF Unmasks, Back
  <2>2. \A a \in ToSet(x) : Unmasks(<<>>)[a] = <<a>>
    BY <2>1 DEF ToSet
  <2>. QED BY <2>2, PutItself
<1>. QED BY <1>1, <1>2

LEMMA TextOfMessage ==
  ASSUME raw \in Texts, MaskedOrRaw
  PROVE  /\ Sound(mappings) /\ masked \in Seq(Tokens) /\ raw \in Seq(Tokens)
         /\ PlainText => Norm(Put(Unmasks(mappings), masked)) = Norm(raw)
<1>1. raw \in Seq(Tokens)
  BY TextsAssumption
<1>2. CASE masked = MaskAll(raw).text /\ mappings = MaskAll(raw).mappings
  <2> DEFINE h == Unmasks(mappings)
  <2>1. Sound(mappings) /\ masked \in Seq(Tokens) /\ Put(h, masked) = Norm(Put(h, raw))
    BY <1>1, <1>2, MaskAllPut
  <2>2. ASSUME PlainText PROVE Norm(Put(h, masked)) = Norm(raw)
    <3>1. \A a \in Written : h[a] = <<a>>
      BY <2>1, UnmasksFacts
    <3>2. Put(h, raw) = raw
      BY <2>2, <3>1, WrittenStays DEF PlainText
    <3>3. Put(h, masked) = Norm(raw)
      BY <2>1, <3>2
    <3>. QED BY <1>1, <3>3, NormNorm
  <2>. QED BY <1>1, <2>1, <2>2
<1>3. CASE masked = raw /\ mappings = <<>>
  BY <1>1, <1>3, NoMappings
<1>. QED BY <1>2, <1>3 DEF MaskedOrRaw

LEMMA RoundTripHolds ==
  ASSUME IInv
  PROVE  RoundTrip
<1> SUFFICES ASSUME step # "mask", PlainText
             PROVE  Norm(Unmask(masked, mappings)) = Norm(raw)
  BY DEF RoundTrip, Norm
<1>1. raw \in Texts /\ MaskedOrRaw
  BY DEF IInv
<1>2. Sound(mappings) /\ masked \in Seq(Tokens) /\ Norm(Put(Unmasks(mappings), masked)) = Norm(raw)
  BY <1>1, TextOfMessage
<1>3. Unmask(masked, mappings) = Put(Unmasks(mappings), masked)
  BY <1>2, UnmasksFacts
<1>. QED BY <1>2, <1>3

-----------------------------------------------------------------------------
(* Lower case.                                                              *)

Lowers == [a \in Tokens |-> IF a \in Written THEN <<Atom(Lower[a.word])>> ELSE <<a>>]

LEMMA TokenParts ==
  ASSUME NEW a \in Tokens
  PROVE  /\ a.nr = 0 <=> a \in Written
         /\ a.nr = 0 => a.word \in DOMAIN Lower /\ Atom(Lower[a.word]) \in Written
                        /\ (a \in White <=> Atom(Lower[a.word]) \in White)
                        /\ (a \in White => Atom(Lower[a.word]) = a)
<1>1. a.nr = 0 <=> a \in Written
  BY DEF Tokens, Written
<1>2. ASSUME a.nr = 0
      PROVE  /\ a.word \in DOMAIN Lower /\ Atom(Lower[a.word]) \in Written
             /\ (a \in White <=> Atom(Lower[a.word]) \in White)
             /\ (a \in White => Atom(Lower[a.word]) = a)
  <2>1. a = [word |-> a.word, nr |-> 0] /\ a.word \in DOMAIN Lower
    BY <1>1, <1>2 DEF Written
  <2>2. Lower[a.word] \in DOMAIN Lower /\ ({a.word, Lower[a.word]} \cap {"sp", "nl"} # {} => Lower[a.word] = a.word)
    BY <2>1, SpellingsAssumption
  <2>3. \A w : Atom(w) \in White <=> w \in {"sp", "nl"}
    BY DEF Atom, White, Space, NewLine
  <2>4. a = Atom(a.word)
    BY <2>1 DEF Atom
  <2>5. Atom(Lower[a.word]) \in Written
    BY <2>2 DEF Atom, Written
  <2>. QED BY <2>1, <2>2, <2>3, <2>4, <2>5
<1>. QED BY <1>1, <1>2

LEMMA LowersRespects ==
  /\ Respects(Lowers)
  /\ \A a \in Written : Lowers[a] = <<Atom(Lower[a.word])>> /\ Atom(Lower[a.word]) \in Written
  /\ \A a \in Tokens \ Written : Lowers[a] = <<a>>
<1>1. Written \subseteq Tokens /\ White \subseteq Tokens
  BY Blanks, WrittenTokens
<1>2. ASSUME NEW a \in Written
      PROVE  /\ Lowers[a] = <<Atom(Lower[a.word])>> /\ Atom(Lower[a.word]) \in Written
             /\ a \in White <=> Atom(Lower[a.word]) \in White
             /\ a \in White => Atom(Lower[a.word]) = a
  BY <1>1, TokenParts DEF Lowers
<1>3. \A a \in Tokens \ Written : Lowers[a] = <<a>>
  BY DEF Lowers
<1>4. White \subseteq Written
  BY SpellingsAssumption DEF White, Space, NewLine, Atom, Written
<1>5. \A a \in Tokens : \E b \in Tokens : Lowers[a] = <<b>> /\ (a \in Solid => b \in Solid)
  <2> TAKE a \in Tokens
  <2>1. CASE a \in Written
    BY <1>1, <1>2, <2>1 DEF Solid
  <2>2. CASE a \notin Written
    BY <1>3, <2>2
  <2>. QED BY <2>1, <2>2
<1>6. Lowers \in [Tokens -> Seq(Tokens)]
  <2>1. \A a \in Tokens : Lowers[a] \in Seq(Tokens)
    <3> TAKE a \in Tokens
    <3>1. PICK b \in Tokens : Lowers[a] = <<b>>
      BY <1>5
    <3>. QED BY <3>1
  <2>2. Lowers = [a \in Tokens |-> Lowers[a]]
    BY DEF Lowers
  <2>. QED BY <2>1, <2>2
<1>7. \A a \in White : Lowers[a] = <<a>>
  BY <1>2, <1>4
<1>8. \A a \in Solid : Lowers[a] \in Words
  <2> TAKE a \in Solid
  <2>1. PICK b \in Solid : Lowers[a] = <<b>>
    BY <1>5 DEF Solid
  <2>2. <<b>> \in Seq(Solid) /\ <<b>> # <<>>
    OBVIOUS
  <2>. QED BY <2>1, <2>2 DEF Words
<1>. QED BY <1>2, <1>3, <1>6, <1>7, <1>8 DEF Respects, Swaps

LowerOf(a) == IF a.nr = 0 THEN Atom(Lower[a.word]) ELSE a

LEMMA LowerOfToken ==
  ASSUME NEW a \in Tokens
  PROVE  LowerOf(a) \in Tokens /\ Lowers[a] = <<LowerOf(a)>>
<1>1. a.nr = 0 <=> a \in Written
  BY TokenParts
<1>2. CASE a \in Written
  BY <1>1, <1>2, LowersRespects, WrittenTokens DEF LowerOf
<1>3. CASE a \notin Written
  BY <1>1, <1>3, LowersRespects DEF LowerOf
<1>. QED BY <1>2, <1>3

LEMMA LoweredAt ==
  ASSUME NEW x \in Seq(Tokens)
  PROVE  /\ Lowered(x) = [i \in 1..Len(x) |-> LowerOf(x[i])]
         /\ Lowered(x) \in Seq(Tokens) /\ Len(Lowered(x)) = Len(x)
<1>1. DOMAIN x = 1..Len(x) /\ Len(x) \in Nat /\ \A i \in 1..Len(x) : x[i] \in Tokens
  OBVIOUS
<1>2. Lowered(x) = [i \in 1..Len(x) |-> LowerOf(x[i])]
  BY <1>1 DEF Lowered, LowerOf
<1>3. Lowered(x) \in [1..Len(x) -> Tokens]
  BY <1>1, <1>2, LowerOfToken
<1>. QED BY <1>1, <1>2, <1>3, SequenceOf

\* Lower case is a replacement.
LEMMA LoweredPut ==
  ASSUME NEW x \in Seq(Tokens)
  PROVE  Lowered(x) = Put(Lowers, x) /\ Lowered(x) \in Seq(Tokens)
<1> DEFINE S == {y \in Seq(Tokens) : Lowered(y) = Put(Lowers, y)}
<1>1. Swaps(Lowers, Tokens)
  BY LowersRespects DEF Respects
<1>2. <<>> \in S
  <2>1. Lowered(<<>>) = <<>>
    BY DEF Lowered
  <2>. QED BY <1>1, <2>1, PutTokens
<1>3. ASSUME NEW y \in Seq(Tokens), NEW a \in Tokens, y \in S PROVE Append(y, a) \in S
  <2> DEFINE z == Append(y, a)
             low == Lowered(y)
             e == LowerOf(a)
  <2>1. z \in Seq(Tokens) /\ Len(z) = Len(y) + 1 /\ Len(y) \in Nat
        /\ z[Len(y) + 1] = a /\ \A i \in 1..Len(y) : z[i] = y[i]
    OBVIOUS
  <2>2. Lowered(z) = [i \in 1..Len(z) |-> LowerOf(z[i])]
    BY <2>1, LoweredAt
  <2>3. low = [i \in 1..Len(y) |-> LowerOf(y[i])] /\ low \in Seq(Tokens) /\ Len(low) = Len(y)
    BY LoweredAt
  <2>4. e \in Tokens /\ Lowers[a] = <<e>>
    BY LowerOfToken
  <2>5. Put(Lowers, z) = Put(Lowers, y) \o Lowers[a]
    BY <1>1, PutTokens
  <2>6. low = Put(Lowers, y)
    BY <1>3
  <2> HIDE DEF low, z, e
  <2>7. Append(low, e) = low \o <<e>>
    BY <2>3, <2>4
  <2>8. Lowered(z) = Append(low, e)
    <3>1. Lowered(z) \in [1..(Len(y) + 1) -> Tokens] /\ Append(low, e) \in [1..(Len(y) + 1) -> Tokens]
      <4>1. \A i \in 1..Len(z) : z[i] \in Tokens
        BY <2>1
      <4>2. Lowered(z) \in [1..(Len(y) + 1) -> Tokens]
        BY <2>1, <2>2, <4>1, LowerOfToken
      <4>3. Append(low, e) \in [1..(Len(y) + 1) -> Tokens]
        <5>1. low \in Seq(Tokens) /\ e \in Tokens /\ Len(low) = Len(y)
          BY <2>3, <2>4
        <5>2. Append(low, e) \in Seq(Tokens) /\ Len(Append(low, e)) = Len(low) + 1
          BY <5>1
        <5>3. \A s \in Seq(Tokens) : s \in [1..Len(s) -> Tokens]
          OBVIOUS
        <5>4. Append(low, e) \in [1..Len(Append(low, e)) -> Tokens]
          BY <5>2, <5>3
        <5>. QED BY <5>1, <5>2, <5>4
      <4>. QED BY <4>2, <4>3
    <3>2. ASSUME NEW i \in 1..(Len(y) + 1) PROVE Lowered(z)[i] = Append(low, e)[i]
      <4>1. CASE i \in 1..Len(y)
        <5>1. Lowered(z)[i] = LowerOf(z[i]) /\ z[i] = y[i]
          BY <2>1, <2>2, <4>1
        <5>2. Append(low, e)[i] = low[i] /\ low[i] = LowerOf(y[i])
          BY <2>3, <2>4, <4>1
        <5>. QED BY <5>1, <5>2
      <4>2. CASE i = Len(y) + 1
        <5>1. Lowered(z)[i] = LowerOf(z[i]) /\ z[i] = a
          BY <2>1, <2>2, <4>2
        <5>2. Append(low, e)[i] = e
          BY <2>3, <2>4, <4>2
        <5>. QED BY <5>1, <5>2 DEF e
      <4>3. i \in 1..Len(y) \/ i = Len(y) + 1
        BY <3>2
      <4>. QED BY <4>1, <4>2, <4>3
    <3>. QED BY <3>1, <3>2
  <2>9. Lowered(z) = Put(Lowers, z)
    BY <2>4, <2>5, <2>6, <2>7, <2>8, Zenon
  <2>. QED BY <2>1, <2>9 DEF z
<1>4. Seq(Tokens) \subseteq S
  <2> HIDE DEF S
  <2>. QED BY <1>2, <1>3, SequenceInduction
<1>5. Lowered(x) = Put(Lowers, x)
  BY <1>4
<1>. QED BY <1>5, LoweredAt

LEMMA LoweredSub ==
  ASSUME NEW x \in Seq(Tokens), NEW i \in 1..Len(x), NEW k \in i..Len(x)
  PROVE  SubSeq(Lowered(x), i, k) = Lowered(SubSeq(x, i, k)) /\ SubSeq(x, i, k) \in Seq(Tokens)
<1> DEFINE s == SubSeq(x, i, k)
           n == k - i + 1
<1>1. s \in Seq(Tokens) /\ Len(s) = n /\ n \in Nat /\ \A j \in 1..n : s[j] = x[i + j - 1]
  OBVIOUS
<1>2. /\ Lowered(x) = [j \in 1..Len(x) |-> LowerOf(x[j])]
      /\ Lowered(x) \in Seq(Tokens) /\ Len(Lowered(x)) = Len(x)
  BY LoweredAt
<1>3. Lowered(s) = [j \in 1..n |-> LowerOf(s[j])]
  <2> HIDE DEF s, n
  <2>. QED BY <1>1, LoweredAt
<1>4. SubSeq(Lowered(x), i, k) = [j \in 1..n |-> Lowered(x)[i + j - 1]]
  BY <1>2
<1>5. \A j \in 1..n : Lowered(x)[i + j - 1] = LowerOf(s[j])
  <2> TAKE j \in 1..n
  <2>1. i + j - 1 \in 1..Len(x)
    OBVIOUS
  <2>. QED BY <1>1, <1>2, <2>1
<1> HIDE DEF s, n
<1>6. SubSeq(Lowered(x), i, k) = Lowered(s)
  BY <1>3, <1>4, <1>5
<1>. QED BY <1>1, <1>6 DEF s

-----------------------------------------------------------------------------
(* Lower case and the values put back.                                      *)

\* Putting values back and lower case, in either order.
LowerBack(ms) == [a \in Tokens |-> Put(Lowers, Unmasks(ms)[a])]

BackLower(ms) == [a \in Tokens |-> IF a \in Written THEN <<a>> ELSE Put(Lowers, Unmasks(ms)[a])]

LEMMA BackOfWords ==
  ASSUME NEW ms, Sound(ms)
  PROVE  /\ \A a \in Tokens : Unmasks(ms)[a] \in Seq(Tokens) /\ Put(Lowers, Unmasks(ms)[a]) \in Seq(Tokens)
         /\ \A a \in Solid : Put(Lowers, Unmasks(ms)[a]) \in Words
<1>1. Respects(Unmasks(ms)) /\ Respects(Lowers)
  BY UnmasksFacts, LowersRespects
<1>2. Swaps(Unmasks(ms), Tokens) /\ Swaps(Lowers, Tokens)
  BY <1>1 DEF Respects
<1>3. \A a \in Tokens : Unmasks(ms)[a] \in Seq(Tokens) /\ Put(Lowers, Unmasks(ms)[a]) \in Seq(Tokens)
  BY <1>2, PutTokens
<1>4. \A a \in Solid : Put(Lowers, Unmasks(ms)[a]) \in Words
  <2> TAKE a \in Solid
  <2> DEFINE w == Unmasks(ms)[a]
  <2>1. w \in Words
    BY <1>1 DEF Respects
  <2> HIDE DEF w
  <2>2. w \in Seq(Solid) /\ w # <<>>
    BY <2>1 DEF Words
  <2>3. Put(Lowers, w) \in Seq(Solid) /\ Put(Lowers, w) # <<>>
    BY <1>1, <2>2, PutSolid
  <2>. QED BY <2>3 DEF Words, w
<1>. QED BY <1>3, <1>4

LEMMA BackLowerRespects ==
  ASSUME NEW ms, Sound(ms)
  PROVE  Respects(BackLower(ms))
<1> DEFINE h == BackLower(ms)
<1>1. \A a \in Tokens : h[a] = IF a \in Written THEN <<a>> ELSE Put(Lowers, Unmasks(ms)[a])
  BY DEF BackLower
<1>2. h \in [Tokens -> Seq(Tokens)]
  BY BackOfWords DEF BackLower
<1>3. White \subseteq Written /\ White \subseteq Tokens
  BY SpellingsAssumption, Blanks DEF White, Space, NewLine, Atom, Written
<1> HIDE DEF h
<1>4. \A a \in White : h[a] = <<a>>
  BY <1>1, <1>3
<1>5. \A a \in Solid : h[a] \in Words
  <2> TAKE a \in Solid
  <2>1. <<a>> \in Words
    <3>1. <<a>> \in Seq(Solid) /\ <<a>> # <<>>
      OBVIOUS
    <3>. QED BY <3>1 DEF Words
  <2>2. a \in Tokens
    BY SolidTokens
  <2>. QED BY <1>1, <2>1, <2>2, BackOfWords
<1>. QED BY <1>2, <1>4, <1>5 DEF Respects, Swaps, h

LEMMA LowerBackComposes ==
  ASSUME NEW ms, Sound(ms)
  PROVE  /\ Composes(LowerBack(ms), Lowers, Unmasks(ms), Tokens)
         /\ Composes(LowerBack(ms), BackLower(ms), Lowers, Tokens)
<1> DEFINE k == LowerBack(ms)
           h == BackLower(ms)
           u == Unmasks(ms)
<1>1. Swaps(u, Tokens) /\ Swaps(Lowers, Tokens) /\ Swaps(h, Tokens)
  BY UnmasksFacts, LowersRespects, BackLowerRespects DEF Respects
<1>2. \A a \in Tokens : k[a] = Put(Lowers, u[a])
  BY DEF LowerBack
<1>3. Swaps(k, Tokens)
  BY BackOfWords DEF LowerBack, Swaps
<1>4. \A a \in Tokens : h[a] = IF a \in Written THEN <<a>> ELSE Put(Lowers, u[a])
  BY DEF BackLower
<1>5. \A a \in Written : u[a] = <<a>>
  BY UnmasksFacts
<1> HIDE DEF k, h, u
<1>6. ASSUME NEW a \in Tokens PROVE k[a] = Put(h, Lowers[a])
  <2>1. CASE a \in Written
    <3>1. PICK b \in Written : Lowers[a] = <<b>>
      BY <2>1, LowersRespects
    <3>2. b \in Tokens
      BY WrittenTokens
    <3>3. Put(h, <<b>>) = h[b]
      BY <1>1, <3>2, PutTokens
    <3>4. h[b] = <<b>>
      BY <1>4, <3>2
    <3>5. Put(Lowers, <<a>>) = Lowers[a]
      BY <1>1, PutTokens
    <3>6. k[a] = Put(Lowers, <<a>>)
      BY <1>2, <1>5, <2>1
    <3>. QED BY <3>1, <3>3, <3>4, <3>5, <3>6, Zenon
  <2>2. CASE a \notin Written
    <3>1. Lowers[a] = <<a>>
      BY <2>2, LowersRespects
    <3>2. Put(h, <<a>>) = h[a]
      BY <1>1, PutTokens
    <3>3. h[a] = k[a]
      BY <1>2, <1>4, <2>2
    <3>. QED BY <3>1, <3>2, <3>3, Zenon
  <2>. QED BY <2>1, <2>2
<1>. QED BY <1>1, <1>2, <1>3, <1>6 DEF Composes, k, h, u

\* The words that are put back are the same wherever the words were.
LEMMA SameWordsBack ==
  ASSUME NEW ms, Sound(ms), NEW x \in Seq(Tokens), NEW y \in Seq(Tokens), SameWords(x, y)
  PROVE  SameWords(Unmask(x, ms), Unmask(y, ms))
<1> DEFINE h == BackLower(ms)
           u == Unmasks(ms)
<1>1. Respects(h)
  BY BackLowerRespects
<1>2. Swaps(u, Tokens)
  BY UnmasksFacts
<1>3. ASSUME NEW z \in Seq(Tokens) PROVE Norm(Lowered(Unmask(z, ms))) = Put(h, Norm(Lowered(z)))
  <2>1. Unmask(z, ms) = Put(u, z)
    BY UnmasksFacts
  <2>2. Put(u, z) \in Seq(Tokens)
    BY <1>2, PutTokens
  <2>3. Lowered(Put(u, z)) = Put(Lowers, Put(u, z))
    BY <2>2, LoweredPut
  <2>4. Put(Lowers, Put(u, z)) = Put(LowerBack(ms), z)
    BY LowerBackComposes, PutPut
  <2>5. Put(h, Put(Lowers, z)) = Put(LowerBack(ms), z)
    BY LowerBackComposes, PutPut
  <2>6. Lowered(z) = Put(Lowers, z) /\ Lowered(z) \in Seq(Tokens)
    BY LoweredPut
  <2>7. Norm(Put(h, Lowered(z))) = Put(h, Norm(Lowered(z)))
    BY <1>1, <2>6, NormPut
  <2>. QED BY <2>1, <2>3, <2>4, <2>5, <2>6, <2>7, Zenon
<1>4. Norm(Lowered(x)) = Norm(Lowered(y))
  BY DEF SameWords, Norm
<1>5. Norm(Lowered(Unmask(x, ms))) = Put(h, Norm(Lowered(x)))
  BY <1>3
<1>6. Norm(Lowered(Unmask(y, ms))) = Put(h, Norm(Lowered(y)))
  BY <1>3
<1>. QED BY <1>4, <1>5, <1>6, Zenon DEF SameWords, Norm

-----------------------------------------------------------------------------
(* Where a quote is found.                                                  *)

LEMMA FoundPart ==
  ASSUME NEW X, NEW part \in Seq(X), NEW text \in Seq(X), Find(part, text) # 0
  PROVE  /\ Find(part, text) \in 1..(Len(text) - Len(part) + 1)
         /\ SubSeq(text, Find(part, text), Find(part, text) + Len(part) - 1) = part
<1> DEFINE at == {i \in 1..(Len(text) - Len(part) + 1) : SubSeq(text, i, i + Len(part) - 1) = part}
<1>1. at # {}
  BY DEF Find
<1>2. at \in SUBSET Nat
  OBVIOUS
<1>3. Find(part, text) \in at
  <2> HIDE DEF at
  <2>1. \E i \in at : \A k \in at : i <= k
    BY <1>1, <1>2, LeastExists
  <2>2. Find(part, text) = CHOOSE i \in at : \A k \in at : i <= k
    BY <1>1 DEF Find, at
  <2>. QED BY <2>1, <2>2
<1>. QED BY <1>3

LEMMA PartIsFound ==
  ASSUME NEW X, NEW u \in Seq(X), NEW part \in Seq(X), NEW v \in Seq(X)
  PROVE  Find(part, u \o (part \o v)) # 0
<1> DEFINE text == u \o (part \o v)
           at == {i \in 1..(Len(text) - Len(part) + 1) : SubSeq(text, i, i + Len(part) - 1) = part}
           n == Len(u) + 1
<1>1. Len(u) \in Nat /\ Len(part) \in Nat /\ Len(v) \in Nat /\ Len(text) = Len(u) + (Len(part) + Len(v))
  OBVIOUS
<1>2. n \in 1..(Len(text) - Len(part) + 1)
  BY <1>1
<1>3. SubSeq(text, n, n + Len(part) - 1) = part
  OBVIOUS
<1>4. at # {}
  BY <1>2, <1>3
<1>5. at \in SUBSET Nat
  BY <1>1
<1>6. Find(part, text) \in at /\ 0 \notin at
  <2>1. 0 \notin at
    BY <1>1
  <2>2. Find(part, text) = CHOOSE i \in at : \A k \in at : i <= k
    BY <1>4 DEF Find
  <2> HIDE DEF at, text
  <2>3. \E i \in at : \A k \in at : i <= k
    BY <1>4, <1>5, LeastExists
  <2>. QED BY <2>1, <2>2, <2>3
<1>. QED BY <1>6

\* A stretch of atoms in a text.
Within(p, text) == p \in (1..Len(text)) \X (1..Len(text)) /\ p[1] <= p[2]

PieceAt(p, text) == SubSeq(text, p[1], p[2])

LEMMA WordsFound ==
  ASSUME NEW quote, NEW text \in Seq(Tokens), FindWords(quote, text) # Nowhere
  PROVE  /\ Within(FindWords(quote, text), text)
         /\ Norm(PieceAt(FindWords(quote, text), text)) = Norm(quote)
<1> DEFINE same(i, k) == Norm(SubSeq(text, i, k)) = Norm(quote) /\ text[i] \notin White /\ text[k] \notin White
           at == {p \in (1..Len(text)) \X (1..Len(text)) : p[1] <= p[2] /\ same(p[1], p[2])}
           firsts == {p[1] : p \in at}
<1>1. FindWords(quote, text) = IF Norm(quote) = <<>> \/ at = {} THEN Nowhere
                               ELSE CHOOSE p \in at : \A q \in at : p[1] <= q[1]
  BY DEF FindWords, Norm
<1>2. at # {} /\ FindWords(quote, text) = CHOOSE p \in at : \A q \in at : p[1] <= q[1]
  <2> HIDE DEF at
  <2>. QED BY <1>1
<1>3. \A p \in at : Within(p, text) /\ Norm(PieceAt(p, text)) = Norm(quote) /\ p[1] \in Nat
  BY DEF Within, PieceAt
<1> HIDE DEF at
<1>4. firsts \in SUBSET Nat /\ firsts # {}
  BY <1>2, <1>3
<1>5. PICK n \in firsts : \A m \in firsts : n <= m
  <2> HIDE DEF firsts
  <2>. QED BY <1>4, LeastExists
<1>6. \E p \in at : \A q \in at : p[1] <= q[1]
  BY <1>5
<1>7. FindWords(quote, text) \in at
  BY <1>2, <1>6
<1>. QED BY <1>3, <1>7

\* What stands where a quote is located has the words of the quote.
LEMMA LocatedWords ==
  ASSUME NEW quote \in Seq(Tokens), quote # <<>>, NEW text \in Seq(Tokens),
         Located(quote, text) # Nowhere
  PROVE  /\ Within(Located(quote, text), text)
         /\ PieceAt(Located(quote, text), text) \in Seq(Tokens)
         /\ SameWords(PieceAt(Located(quote, text), text), quote)
<1> DEFINE p == Located(quote, text)
           piece == PieceAt(p, text)
<1>0. ASSUME Within(p, text) PROVE piece \in Seq(Tokens) /\ SubSeq(Lowered(text), p[1], p[2]) = Lowered(piece)
  <2>1. p[1] \in 1..Len(text) /\ p[2] \in p[1]..Len(text)
    BY <1>0 DEF Within
  <2>. QED BY <2>1, LoweredSub DEF PieceAt
<1>1. CASE Find(quote, text) # 0
  <2> DEFINE n == Find(quote, text)
             e == n + Len(quote) - 1
  <2>1. n \in 1..(Len(text) - Len(quote) + 1) /\ SubSeq(text, n, e) = quote
    BY <1>1, FoundPart
  <2>2. p = <<n, e>>
    BY <1>1 DEF Located
  <2> HIDE DEF n
  <2>3. n \in 1..Len(text) /\ e \in n..Len(text)
    <3>1. Len(quote) \in Nat \ {0} /\ Len(text) \in Nat
      OBVIOUS
    <3>. QED BY <2>1, <3>1
  <2> HIDE DEF e
  <2>4. p[1] = n /\ p[2] = e /\ p \in (1..Len(text)) \X (1..Len(text)) /\ n <= e
    BY <2>2, <2>3
  <2> HIDE DEF p
  <2>5. Within(p, text) /\ piece = quote
    BY <2>1, <2>4 DEF Within, PieceAt
  <2>6. SameWords(piece, quote)
    BY <2>5 DEF SameWords
  <2>. QED BY <1>0, <2>5, <2>6 DEF p
<1>2. CASE Find(quote, text) = 0 /\ FindWords(quote, text) # Nowhere
  <2>1. p = FindWords(quote, text)
    BY <1>2 DEF Located
  <2> HIDE DEF p
  <2>2. Within(p, text) /\ Norm(piece) = Norm(quote)
    BY <1>2, <2>1, WordsFound
  <2>3. piece \in Seq(Tokens)
    BY <1>0, <2>2
  <2> HIDE DEF piece
  <2>4. \A z \in Seq(Tokens) : Norm(Lowered(z)) = Put(Lowers, Norm(z))
    BY LoweredPut, LowersRespects, NormPut
  <2>5. SameWords(piece, quote)
    BY <2>2, <2>3, <2>4 DEF SameWords, Norm
  <2>. QED BY <2>2, <2>3, <2>5 DEF p, piece
<1>3. CASE Find(quote, text) = 0 /\ FindWords(quote, text) = Nowhere
  <2>1. p = FindWords(Lowered(quote), Lowered(text))
    BY <1>3 DEF Located
  <2>2. Lowered(text) \in Seq(Tokens) /\ Len(Lowered(text)) = Len(text)
    BY LoweredAt
  <2> HIDE DEF p
  <2>3. p # Nowhere
    BY DEF p
  <2>4. Within(p, Lowered(text)) /\ Norm(PieceAt(p, Lowered(text))) = Norm(Lowered(quote))
    BY <2>1, <2>2, <2>3, WordsFound
  <2>5. Within(p, text)
    BY <2>2, <2>4 DEF Within
  <2>6. piece \in Seq(Tokens) /\ PieceAt(p, Lowered(text)) = Lowered(piece)
    BY <1>0, <2>5 DEF PieceAt
  <2>7. SameWords(piece, quote)
    BY <2>4, <2>6 DEF SameWords, Norm
  <2>. QED BY <2>5, <2>6, <2>7 DEF p
<1>. QED BY <1>1, <1>2, <1>3

-----------------------------------------------------------------------------
(* The evidence.                                                            *)

\* What a reference with a place in the masked text refers to.
RefersTo(q, p) ==
    /\ Within(p, masked) /\ SpanOf(masked, p) = q.span
    /\ PieceAt(p, masked) \in Seq(Tokens)
    /\ SameWords(PieceAt(p, masked), q.quote)

LEMMA ReferenceHolds ==
  ASSUME masked \in Seq(Tokens), NEW quote \in Seq(Tokens), quote # <<>>,
         Reference(quote).span # NoSpan
  PROVE  \E p : RefersTo(Reference(quote), p)
<1> DEFINE p == Located(quote, masked)
           q == Reference(quote)
<1>1. q.quote = quote /\ q.span = SpanAt(masked, p)
  BY DEF Reference
<1>2. p # Nowhere /\ q.span = SpanOf(masked, p)
  BY <1>1 DEF SpanAt
<1>3. Within(p, masked) /\ PieceAt(p, masked) \in Seq(Tokens) /\ SameWords(PieceAt(p, masked), quote)
  BY <1>2, LocatedWords
<1>. QED BY <1>1, <1>2, <1>3 DEF RefersTo

LEMMA ResolvedHolds ==
  ASSUME masked \in Seq(Tokens), NEW given \in SUBSET Seq(Tokens), NEW value \in Seq(Tokens),
         NEW q \in Resolve(given, value), q.span # NoSpan
  PROVE  q.quote \in Seq(Tokens) /\ (q.quote # <<>> => \E p : RefersTo(q, p))
<1>1. CASE given # {}
  <2>1. PICK quote \in given : q = Reference(quote)
    BY <1>1 DEF Resolve
  <2>2. q.quote = quote
    BY <2>1 DEF Reference
  <2>3. quote # <<>> => \E p : RefersTo(q, p)
    BY <2>1, ReferenceHolds
  <2>. QED BY <2>2, <2>3
<1>2. CASE given = {}
  <2>1. PICK p \in {Located(v, masked) : v \in {value} \ {<<>>}} \ {Nowhere} : q = Excerpt(p)
    BY <1>2 DEF Resolve
  <2>2. p = Located(value, masked) /\ value # <<>> /\ p # Nowhere
    BY <2>1
  <2>3. Within(p, masked) /\ PieceAt(p, masked) \in Seq(Tokens)
    BY <2>2, LocatedWords
  <2>4. q.quote = PieceAt(p, masked) /\ q.span = SpanOf(masked, p)
    BY <2>1 DEF Excerpt, PieceAt
  <2>5. RefersTo(q, p)
    BY <2>3, <2>4 DEF RefersTo, SameWords
  <2>. QED BY <2>3, <2>4, <2>5
<1>. QED BY <1>1, <1>2

\* What the models may be given and answer are texts.
LEMMA AnswersAreTexts ==
  ASSUME masked \in Seq(Tokens)
  PROVE  PlateValues \subseteq Seq(Tokens) /\ Quotes \subseteq Seq(Tokens)
<1>1. PlateValues \subseteq Seq(Tokens)
  <2>1. \A i \in DOMAIN masked : <<masked[i]>> \in Seq(Tokens)
    OBVIOUS
  <2>2. <<>> \in Seq(Tokens) /\ InventedPlate \in Seq(Tokens)
    BY TextsAssumption
  <2>. QED BY <2>1, <2>2 DEF PlateValues
<1>2. Quotes \subseteq Seq(Tokens)
  <2>1. SplitWords(masked) \in Seq(Seq(Tokens))
    BY NormType
  <2>2. \A i \in DOMAIN SplitWords(masked) : SplitWords(masked)[i] \in Seq(Tokens)
    BY <2>1
  <2>3. <<>> \in Seq(Tokens) /\ InventedQuote \in Seq(Tokens) /\ Lowered(masked) \in Seq(Tokens)
    BY TextsAssumption, LoweredAt
  <2>. QED BY <2>2, <2>3 DEF Quotes
<1>. QED BY <1>1, <1>2

\* What the operator is shown for a field that is not marked.
Shows(r, q) == r.quote = Unmask(q.quote, mappings) /\ r.span = q.span

LEMMA ExtractedEvidence ==
  ASSUME Sound(mappings), masked \in Seq(Tokens), IsExtracted(data),
         NEW f \in Filled(data.plate, data.injury) \ data.unverified
  PROVE  /\ data.refs[f] # {}
         /\ \A r \in data.refs[f] :
              \E q : /\ Shows(r, q) /\ q.span # NoSpan /\ q.quote \in Seq(Tokens)
                     /\ q.quote # <<>> => \E p : RefersTo(q, p)
<1>1. PICK plate \in PlateValues, injury \in {"null", "true", "false"},
           shown \in {{}} \cup {{quote} : quote \in Quotes}, hurt \in {{}, {masked}} :
        data = Extracted(plate, injury, Evidence(plate, shown, hurt))
  BY DEF IsExtracted
<1> DEFINE refs == Evidence(plate, shown, hurt)
           filled == Filled(plate, injury)
<1>2. /\ data.plate = Unmask(plate, mappings) /\ data.injury = injury
      /\ data.refs = Unmasked(refs) /\ data.unverified = Unverified(refs, filled)
  BY <1>1 DEF Extracted
<1>3. plate \in Seq(Tokens) /\ shown \in SUBSET Seq(Tokens) /\ hurt \in SUBSET Seq(Tokens) /\ <<>> \in Seq(Tokens)
  <2>1. PlateValues \subseteq Seq(Tokens) /\ Quotes \subseteq Seq(Tokens)
    BY AnswersAreTexts
  <2>. QED BY <2>1
<1>4. plate = <<>> => data.plate = <<>>
  <2>1. <<>> \in Seq(Tokens)
    OBVIOUS
  <2>2. Unmask(<<>>, mappings) = Put(Unmasks(mappings), <<>>)
    BY <2>1, UnmasksFacts
  <2>3. Put(Unmasks(mappings), <<>>) = <<>>
    BY UnmasksFacts, PutTokens
  <2>. QED BY <1>2, <2>2, <2>3
<1>5. f \in filled /\ f \in Fields
  BY <1>2, <1>4 DEF Filled, Fields
<1>6. refs[f] = IF f = "plate" THEN Resolve(shown, plate) ELSE Resolve(hurt, <<>>)
  BY <1>5 DEF Evidence
<1> HIDE DEF refs, filled
<1>7. refs[f] # {} /\ \A q \in refs[f] : q.span # NoSpan
  <2>1. f \notin Unverified(refs, filled)
    BY <1>2
  <2>. QED BY <1>5, <2>1 DEF Unverified
<1>8. data.refs[f] = {[quote |-> Unmask(q.quote, mappings), span |-> q.span] : q \in refs[f]}
  BY <1>2, <1>5 DEF Unmasked
<1>9. data.refs[f] # {}
  <2>1. PICK q : q \in refs[f]
    BY <1>7
  <2>2. [quote |-> Unmask(q.quote, mappings), span |-> q.span] \in data.refs[f]
    BY <1>8, <2>1
  <2>. QED BY <2>2
<1>10. ASSUME NEW r \in data.refs[f]
       PROVE  \E q : /\ Shows(r, q) /\ q.span # NoSpan /\ q.quote \in Seq(Tokens)
                     /\ q.quote # <<>> => \E p : RefersTo(q, p)
  <2>1. PICK q \in refs[f] : r = [quote |-> Unmask(q.quote, mappings), span |-> q.span]
    BY <1>8
  <2>2. Shows(r, q) /\ q.span # NoSpan
    BY <1>7, <2>1 DEF Shows
  <2>3. q.quote \in Seq(Tokens) /\ (q.quote # <<>> => \E p : RefersTo(q, p))
    <3>1. CASE f = "plate"
      BY <1>3, <1>6, <2>2, <3>1, ResolvedHolds
    <3>2. CASE f # "plate"
      <4> DEFINE none == <<>>
      <4>1. none \in Seq(Tokens) /\ q \in Resolve(hurt, none)
        BY <1>3, <1>6, <3>2
      <4> HIDE DEF none
      <4>. QED BY <1>3, <2>2, <4>1, ResolvedHolds
    <3>. QED BY <3>1, <3>2
  <2>. QED BY <2>2, <2>3
<1>. QED BY <1>9, <1>10

\* A quote that is shown and has words has a place in the masked text.
LEMMA ShownQuote ==
  ASSUME Sound(mappings), masked \in Seq(Tokens), IsExtracted(data),
         NEW f \in Filled(data.plate, data.injury) \ data.unverified,
         NEW r \in data.refs[f], r.quote # <<>>
  PROVE  \E p : /\ Within(p, masked) /\ SpanOf(masked, p) = r.span
                /\ PieceAt(p, masked) \in Seq(Tokens)
                /\ SameWords(Unmask(PieceAt(p, masked), mappings), r.quote)
<1>1. PICK q : /\ Shows(r, q) /\ q.span # NoSpan /\ q.quote \in Seq(Tokens)
               /\ q.quote # <<>> => \E p : RefersTo(q, p)
  BY ExtractedEvidence
<1>2. q.quote # <<>>
  <2>1. <<>> \in Seq(Tokens)
    OBVIOUS
  <2>2. Unmask(<<>>, mappings) = Put(Unmasks(mappings), <<>>)
    BY <2>1, UnmasksFacts
  <2>3. Put(Unmasks(mappings), <<>>) = <<>>
    BY UnmasksFacts, PutTokens
  <2>. QED BY <1>1, <2>2, <2>3 DEF Shows
<1>3. PICK p : RefersTo(q, p)
  BY <1>1, <1>2
<1>4. SameWords(Unmask(PieceAt(p, masked), mappings), Unmask(q.quote, mappings))
  BY <1>1, <1>3, SameWordsBack DEF RefersTo
<1>. QED BY <1>1, <1>3, <1>4 DEF RefersTo, Shows

LEMMA EvidenceInvariant ==
  ASSUME IInv
  PROVE  EvidenceHolds
<1> SUFFICES ASSUME data.extracted, NEW f \in Filled(data.plate, data.injury) \ data.unverified
             PROVE  /\ data.refs[f] # {}
                    /\ \A r \in data.refs[f] : r.quote # <<>> =>
                         \E i, k \in DOMAIN masked :
                           /\ i <= k /\ SpanOf(masked, <<i, k>>) = r.span
                           /\ SameWords(Unmask(SubSeq(masked, i, k), mappings), r.quote)
  BY DEF EvidenceHolds
<1>1. data # NoData
  BY DEF NoData
<1>2. IsExtracted(data) /\ step # "mask" /\ raw \in Texts
  BY <1>1 DEF IInv
<1>3. MaskedOrRaw
  BY <1>2 DEF IInv
<1>4. Sound(mappings) /\ masked \in Seq(Tokens)
  BY <1>2, <1>3, TextOfMessage
<1>5. data.refs[f] # {}
  BY <1>2, <1>4, ExtractedEvidence
<1>6. ASSUME NEW r \in data.refs[f], r.quote # <<>>
      PROVE  \E i, k \in DOMAIN masked :
                           /\ i <= k /\ SpanOf(masked, <<i, k>>) = r.span
                           /\ SameWords(Unmask(SubSeq(masked, i, k), mappings), r.quote)
  <2>1. PICK p : /\ Within(p, masked) /\ SpanOf(masked, p) = r.span
                 /\ SameWords(Unmask(PieceAt(p, masked), mappings), r.quote)
    BY <1>2, <1>4, <1>6, ShownQuote
  <2>2. p = <<p[1], p[2]>> /\ p[1] \in DOMAIN masked /\ p[2] \in DOMAIN masked /\ p[1] <= p[2]
    BY <1>4, <2>1 DEF Within
  <2>. QED BY <2>1, <2>2 DEF PieceAt
<1>. QED BY <1>5, <1>6

-----------------------------------------------------------------------------
(* The approved claim.                                                      *)

LEMMA NormEmpty == Lowered(<<>>) = <<>> /\ Norm(<<>>) = <<>>
<1>1. Lowered(<<>>) = <<>>
  BY DEF Lowered
<1>2. <<>> \in Seq(Tokens)
  OBVIOUS
<1>3. Scan(<<>>) = NoScan
  <2>1. Space \in Tokens
    BY Blanks
  <2>. QED BY <1>2, <2>1, ScanAppend
<1>4. SplitWords(<<>>) = <<>>
  BY <1>3 DEF SplitWords, EndWord, NoScan
<1>5. JoinWords(<<>>) = <<>>
  <2>1. <<>> \in Seq(Seq(Tokens))
    OBVIOUS
  <2>. QED BY <2>1, SpacedType
<1>. QED BY <1>1, <1>4, <1>5 DEF Norm

\* A text is what stands before a piece, the piece and what stands behind it.
LEMMA PieceSplits ==
  ASSUME NEW X, NEW text \in Seq(X), NEW p, Within(p, text)
  PROVE  \E a, b \in Seq(X) : text = a \o (PieceAt(p, text) \o b) /\ PieceAt(p, text) \in Seq(X)
<1> DEFINE i == p[1]
           k == p[2]
           a == SubSeq(text, 1, i - 1)
           b == SubSeq(text, k + 1, Len(text))
           s == SubSeq(text, i, k)
           n == Len(text)
<1>1. i \in 1..Len(text) /\ k \in i..Len(text) /\ Len(text) \in Nat
  BY DEF Within
<1> HIDE DEF i, k
<1>2. a \in Seq(X) /\ s \in Seq(X) /\ b \in Seq(X)
  BY <1>1
<1>3. SubSeq(text, 1, k) = a \o s
  <2> DEFINE m == i - 1
  <2>1. m \in 0..Len(text) /\ k \in m..Len(text) /\ m + 1 = i
    BY <1>1
  <2> HIDE DEF m
  <2>2. SubSeq(text, 1, k) = SubSeq(text, 1, m) \o SubSeq(text, m + 1, k)
    BY <2>1, SubSeqSplits
  <2>. QED BY <2>1, <2>2 DEF m
<1>4. SubSeq(text, 1, n) = SubSeq(text, 1, k) \o b
  <2>1. k \in 0..Len(text) /\ n \in k..Len(text)
    BY <1>1
  <2> HIDE DEF n
  <2>2. SubSeq(text, 1, n) = SubSeq(text, 1, k) \o SubSeq(text, k + 1, n)
    BY <2>1, SubSeqSplits
  <2>. QED BY <2>2 DEF n
<1>5. SubSeq(text, 1, n) = text
  BY <1>1
<1> HIDE DEF a, b, s
<1>6. (a \o s) \o b = a \o (s \o b)
  BY <1>2, ConcatAssociates
<1>7. text = a \o (s \o b)
  BY <1>3, <1>4, <1>5, <1>6, Zenon
<1>8. PieceAt(p, text) = s
  BY DEF PieceAt, s, i, k
<1>. QED BY <1>2, <1>7, <1>8

\* What stands in the masked text stands, put back, in the raw one.
LEMMA PieceInRaw ==
  ASSUME raw \in Texts, MaskedOrRaw, PlainText, NEW p, Within(p, masked), NEW quote,
         SameWords(Unmask(PieceAt(p, masked), mappings), quote)
  PROVE  IsPartOf(quote, raw)
<1> DEFINE s == PieceAt(p, masked)
           k == LowerBack(mappings)
<1>1. /\ Sound(mappings) /\ masked \in Seq(Tokens) /\ raw \in Seq(Tokens)
      /\ Norm(Put(Unmasks(mappings), masked)) = Norm(raw)
  BY TextOfMessage
<1>2. PICK a \in Seq(Tokens), b \in Seq(Tokens) : masked = a \o (s \o b) /\ s \in Seq(Tokens)
  BY <1>1, PieceSplits
<1>3. Swaps(k, Tokens) /\ Swaps(Unmasks(mappings), Tokens)
  <2>1. Composes(LowerBack(mappings), Lowers, Unmasks(mappings), Tokens)
    BY <1>1, LowerBackComposes
  <2>. QED BY <2>1 DEF Composes
<1>4. ASSUME NEW z \in Seq(Tokens)
      PROVE  Put(Lowers, Put(Unmasks(mappings), z)) = Put(k, z) /\ Put(Unmasks(mappings), z) \in Seq(Tokens)
  <2>1. Composes(LowerBack(mappings), Lowers, Unmasks(mappings), Tokens)
    BY <1>1, LowerBackComposes
  <2>2. Put(Unmasks(mappings), z) \in Seq(Tokens)
    BY <1>3, PutTokens
  <2>. QED BY <2>1, <2>2, PutPut
<1>5. ASSUME NEW z \in Seq(Tokens) PROVE Norm(Lowered(z)) = Put(Lowers, Norm(z))
  BY LoweredPut, LowersRespects, NormPut
<1>6. Norm(Lowered(raw)) = Norm(Put(k, masked))
  <2> DEFINE z == Put(Unmasks(mappings), masked)
  <2>1. z \in Seq(Tokens) /\ Put(Lowers, z) = Put(k, masked)
    BY <1>1, <1>4
  <2> HIDE DEF z
  <2>2. Norm(Put(Lowers, z)) = Put(Lowers, Norm(z))
    BY <2>1, LowersRespects, NormPut
  <2>3. Norm(Lowered(raw)) = Put(Lowers, Norm(raw))
    BY <1>1, <1>5
  <2>. QED BY <1>1, <2>1, <2>2, <2>3, Zenon DEF z
<1>7. Norm(Lowered(quote)) = Norm(Put(k, s))
  <2>1. Unmask(s, mappings) = Put(Unmasks(mappings), s)
    BY <1>1, <1>2, UnmasksFacts
  <2>2. Put(Unmasks(mappings), s) \in Seq(Tokens) /\ Put(Lowers, Put(Unmasks(mappings), s)) = Put(k, s)
    BY <1>2, <1>4
  <2>3. Lowered(Put(Unmasks(mappings), s)) = Put(Lowers, Put(Unmasks(mappings), s))
    BY <2>2, LoweredPut
  <2>4. Norm(Lowered(Unmask(s, mappings))) = Norm(Lowered(quote))
    BY DEF SameWords, Norm
  <2>. QED BY <2>1, <2>2, <2>3, <2>4, Zenon
<1> HIDE DEF s, k
<1>8. /\ Put(k, masked) = Put(k, a) \o (Put(k, s) \o Put(k, b))
      /\ Put(k, a) \in Seq(Tokens) /\ Put(k, s) \in Seq(Tokens) /\ Put(k, b) \in Seq(Tokens)
  <2> DEFINE sb == s \o b
  <2>1. sb \in Seq(Tokens)
    BY <1>2
  <2>2. Put(k, sb) = Put(k, s) \o Put(k, b)
    BY <1>2, <1>3, PutConcat, SMTT(30)
  <2> HIDE DEF sb
  <2>3. Put(k, a \o sb) = Put(k, a) \o Put(k, sb)
    <3>1. a \in Seq(Tokens)
      BY <1>2
    <3>. QED BY <1>3, <2>1, <3>1, PutConcat, SMTT(30)
  <2>4. masked = a \o sb
    BY <1>2 DEF sb
  <2>5. Put(k, a) \in Seq(Tokens) /\ Put(k, s) \in Seq(Tokens) /\ Put(k, b) \in Seq(Tokens)
    BY <1>2, <1>3, PutTokens
  <2>. QED BY <2>2, <2>3, <2>4, <2>5, Zenon
<1> DEFINE part == Norm(Put(k, s))
<1>9. part \in Seq(Tokens)
  BY <1>8, NormType
<1>10. PICK u \in Seq(Tokens), v \in Seq(Tokens) : Norm(Put(k, masked)) = u \o (part \o v)
  <2> DEFINE x == Put(k, a)
             y == Put(k, s)
             z == Put(k, b)
  <2>1. x \in Seq(Tokens) /\ y \in Seq(Tokens) /\ z \in Seq(Tokens) /\ Put(k, masked) = x \o (y \o z)
    BY <1>8
  <2> HIDE DEF x, y, z
  <2>2. \E u, v \in Seq(Tokens) : Norm(x \o (y \o z)) = u \o (Norm(y) \o v)
    BY <2>1, NormWithin, ZenonT(60)
  <2>. QED BY <2>1, <2>2, Zenon DEF y
<1>11. Find(part, u \o (part \o v)) # 0
  <2> HIDE DEF part
  <2>. QED BY <1>9, PartIsFound
<1>. QED BY <1>6, <1>7, <1>10, <1>11, Zenon DEF IsPartOf, Norm

LEMMA EmptyInRaw ==
  ASSUME raw \in Seq(Tokens)
  PROVE  IsPartOf(<<>>, raw)
<1> DEFINE v == Norm(Lowered(raw))
           none == <<>>
<1>1. v \in Seq(Tokens) /\ none \in Seq(Tokens)
  BY LoweredAt, NormType
<1> HIDE DEF v, none
<1>2. Find(none, none \o (none \o v)) # 0
  BY <1>1, PartIsFound
<1>3. none \o (none \o v) = v
  <2>1. <<>> \o v = v
    BY <1>1, ConcatEmpty
  <2>. QED BY <2>1 DEF none
<1>4. Norm(Lowered(<<>>)) = none
  BY NormEmpty DEF none
<1>. QED BY <1>2, <1>3, <1>4, Zenon DEF IsPartOf, Norm, v

LEMMA ApprovedInvariant ==
  ASSUME IInv
  PROVE  ApprovedRestsOnTheText
<1> SUFFICES ASSUME status = "approved"
             PROVE  /\ \A f \in Filled(data.plate, data.injury) :
                         data.refs[f] # {} /\ \A r \in data.refs[f] : PlainText => IsPartOf(r.quote, raw)
                    /\ InjurySignals(raw) # {} => InjurySignals(masked) = {}
                    /\ data.plate \in {<<>>} \cup {value \in DOMAIN PiiOf : PiiOf[value] = "PLATE"}
  BY DEF ApprovedRestsOnTheText
<1>1. step = "done" /\ Approvable
  BY DEF IInv
<1>2. /\ data.extracted /\ data.blocking = {} /\ data.unverified = {} /\ verdict.urgency # "critical"
  BY <1>1 DEF Approvable
<1>3. IsExtracted(data) /\ raw \in Texts /\ MaskedOrRaw
  <2>1. data # NoData
    BY <1>2 DEF NoData
  <2>. QED BY <1>1, <2>1 DEF IInv
<1>4. Sound(mappings) /\ masked \in Seq(Tokens) /\ raw \in Seq(Tokens)
  BY <1>3, TextOfMessage
<1>5. ASSUME NEW f \in Filled(data.plate, data.injury)
      PROVE  data.refs[f] # {} /\ \A r \in data.refs[f] : PlainText => IsPartOf(r.quote, raw)
  <2>1. f \in Filled(data.plate, data.injury) \ data.unverified
    BY <1>2
  <2>2. data.refs[f] # {}
    BY <1>3, <1>4, <2>1, ExtractedEvidence
  <2>3. ASSUME NEW r \in data.refs[f], PlainText PROVE IsPartOf(r.quote, raw)
    <3>1. CASE r.quote = <<>>
      BY <1>4, <3>1, EmptyInRaw
    <3>2. CASE r.quote # <<>>
      <4>1. PICK p : /\ Within(p, masked)
                     /\ SameWords(Unmask(PieceAt(p, masked), mappings), r.quote)
        BY <1>3, <1>4, <2>1, <3>2, ShownQuote
      <4>. QED BY <1>3, <2>3, <4>1, PieceInRaw
    <3>. QED BY <3>1, <3>2
  <2>. QED BY <2>2, <2>3
<1>6. InjurySignals(masked) = {}
  BY <1>1, <1>2 DEF IInv
<1>7. data.plate \in {<<>>} \cup {value \in DOMAIN PiiOf : PiiOf[value] = "PLATE"}
  <2>1. PICK plate, injury, refs : data = Extracted(plate, injury, refs)
    BY <1>3 DEF IsExtracted
  <2>2. data.blocking = Blocking(data.plate, injury)
    BY <2>1 DEF Extracted
  <2>3. "invalid_plate_format" \notin Blocking(data.plate, injury)
    BY <1>2, <2>2
  <2>4. ~(data.plate # <<>> /\ ~(data.plate \in DOMAIN PiiOf /\ PiiOf[data.plate] = "PLATE"))
    BY <2>3 DEF Blocking
  <2>. QED BY <2>4
<1>. QED BY <1>5, <1>6, <1>7

LEMMA SanityInvariant ==
  ASSUME IInv
  PROVE  SanityFailsClosed
BY DEF IInv, SanityFailsClosed, SpanHolds

-----------------------------------------------------------------------------
(* Nothing that is known is left.                                           *)

\* Where a sequence of atoms stands in a text.
At(x, v, i) == i \in 1..Len(x) /\ i + Len(v) - 1 <= Len(x) /\ \A k \in 1..Len(v) : x[i + k - 1] = v[k]

Free(x, v) == \A i \in 1..Len(x) : ~At(x, v, i)

LEMMA FreeIsNotFound ==
  ASSUME NEW x \in Seq(Tokens), NEW v \in Seq(Tokens), v # <<>>, Free(x, v)
  PROVE  Find(v, x) = 0
<1> SUFFICES ASSUME Find(v, x) # 0 PROVE FALSE
  OBVIOUS
<1> DEFINE i == Find(v, x)
<1>1. i \in 1..(Len(x) - Len(v) + 1) /\ SubSeq(x, i, i + Len(v) - 1) = v
  BY FoundPart
<1> HIDE DEF i
<1>2. Len(v) \in Nat \ {0} /\ Len(x) \in Nat
  OBVIOUS
<1>3. i \in 1..Len(x) /\ i + Len(v) - 1 <= Len(x)
  BY <1>1, <1>2
<1>4. \A k \in 1..Len(v) : SubSeq(x, i, i + Len(v) - 1)[k] = x[i + k - 1]
  BY <1>2, <1>3
<1>5. At(x, v, i)
  BY <1>1, <1>3, <1>4 DEF At
<1>. QED BY <1>3, <1>5 DEF Free

LEMMA PartStands ==
  ASSUME NEW x \in Seq(Tokens), NEW v \in Seq(Tokens), v # <<>>, NEW i, At(x, v, i)
  PROVE  Stands(x, v, i)
<1>1. Len(v) \in Nat \ {0} /\ Len(x) \in Nat /\ i \in 1..Len(x) /\ i + Len(v) - 1 <= Len(x)
  BY DEF At
<1> DEFINE s == SubSeq(x, i, i + Len(v) - 1)
<1>2. s \in Seq(Tokens) /\ Len(s) = Len(v) /\ \A k \in 1..Len(v) : s[k] = x[i + k - 1]
  BY <1>1
<1>3. \A k \in 1..Len(v) : s[k] = v[k]
  BY <1>2 DEF At
<1> HIDE DEF s
<1>4. s = v
  BY <1>2, <1>3
<1>. QED BY <1>1, <1>4 DEF Stands, s

\* A stretch of what was written that the new placeholder is not part of is a
\* stretch of the text, and no occurrence of the part begins where it does.
Traced(x, part, t, p, i, m, j) ==
    /\ j \in 1..Len(x) /\ j + m - i <= Len(x)
    /\ \A k \in 0..(m - i) : x[j + k] = t[i + k]
    /\ ~Stands(x, part, j)

Traces(done, n, x, part, p) ==
    /\ done \in Replaced /\ done.next \in Nat /\ done.next > n
    /\ done.text = <<>> => done.next = 1
    /\ \A i, m \in 1..Len(done.text) :
         i <= m /\ (\A k \in i..m : done.text[k] # p) =>
           \E j : /\ Traced(x, part, done.text, p, i, m, j)
                  /\ m = Len(done.text) => j + m - i = done.next - 1

LEMMA ReplaceStepTraces ==
  ASSUME NEW x \in Seq(Tokens), NEW part \in Seq(Tokens), part # <<>>, NEW p \in Tokens,
         NEW n \in 1..Len(x), NEW done, Traces(done, n - 1, x, part, p)
  PROVE  Traces(ReplaceStep(done, n, x, part, <<p>>), n, x, part, p)
<1> DEFINE new == ReplaceStep(done, n, x, part, <<p>>)
           t == done.text
           L == Len(t)
<1>0. \A i, m \in 1..L :
        i <= m /\ (\A k \in i..m : t[k] # p) =>
          \E j : Traced(x, part, t, p, i, m, j) /\ (m = L => j + m - i = done.next - 1)
  BY DEF Traces
<1>1. /\ n \in Nat /\ Len(x) \in Nat /\ n <= Len(x) /\ n >= 1 /\ Len(part) \in Nat \ {0}
      /\ done \in Replaced /\ t \in Seq(Tokens) /\ L \in Nat /\ done.next \in Nat /\ done.next > n - 1
      /\ <<p>> \in Seq(Tokens)
  BY DEF Traces, Replaced
<1>2. new \in Replaced
  BY <1>1, ReplaceStepType
<1>3. CASE n < done.next
  <2>1. new = done
    BY <1>3 DEF ReplaceStep
  <2>. QED BY <1>1, <1>3, <2>1, Zenon DEF Traces
<1>4. CASE ~(n < done.next)
  <2>0. done.next = n
    BY <1>1, <1>4
  <2>1. CASE Stands(x, part, n)
    <3>1. new = [text |-> t \o <<p>>, next |-> n + Len(part)]
      BY <1>4, <2>1 DEF ReplaceStep
    <3> DEFINE u == t \o <<p>>
    <3>2. /\ new.text = u /\ new.next = n + Len(part)
          /\ u \in Seq(Tokens) /\ Len(u) = L + 1 /\ u[L + 1] = p /\ \A k \in 1..L : u[k] = t[k]
      <4>1. u \in Seq(Tokens) /\ Len(u) = L + 1 /\ u[L + 1] = p /\ \A k \in 1..L : u[k] = t[k]
        <5> HIDE DEF t
        <5>. QED BY <1>1
      <4>2. new.text = u /\ new.next = n + Len(part)
        <5> HIDE DEF new, t
        <5>. QED BY <3>1
      <4>. QED BY <4>1, <4>2
    <3> HIDE DEF u, new, t
    <3>3. u # <<>>
      BY <1>1, <3>2
    <3>4. ASSUME NEW i \in 1..Len(u), NEW m \in 1..Len(u), i <= m, \A k \in i..m : u[k] # p
          PROVE  \E j : /\ Traced(x, part, u, p, i, m, j)
                        /\ m = Len(u) => j + m - i = new.next - 1
      <4>0. i \in Nat /\ m \in Nat /\ i >= 1
        OBVIOUS
      <4>1. m # L + 1
        <5>1. m \in i..m
          BY <3>4
        <5>. QED BY <3>2, <3>4, <5>1
      <4>2. i \in 1..L /\ m \in 1..L
        BY <1>1, <3>2, <3>4, <4>1
      <4>3. \A k \in i..m : t[k] # p
        <5>1. \A k \in i..m : k \in 1..L
          BY <1>1, <4>0, <4>2
        <5>. QED BY <3>2, <3>4, <5>1
      <4>4. PICK j : Traced(x, part, t, p, i, m, j)
        BY <1>0, <3>4, <4>2, <4>3
      <4>5. \A k \in 0..(m - i) : u[i + k] = t[i + k]
        <5>1. \A k \in 0..(m - i) : i + k \in 1..L
          BY <1>1, <4>0, <4>2
        <5>. QED BY <3>2, <5>1
      <4>6. Traced(x, part, u, p, i, m, j)
        BY <4>4, <4>5 DEF Traced
      <4>. QED BY <3>2, <4>1, <4>6
    <3>5. new.next \in Nat /\ new.next > n
      BY <1>1, <3>2
    <3>6. Traces(new, n, x, part, p)
      BY <1>2, <3>2, <3>3, <3>4, <3>5 DEF Traces
    <3>. QED BY <3>6 DEF new
  <2>2. CASE ~Stands(x, part, n)
    <3>1. new = [text |-> Append(t, x[n]), next |-> n + 1]
      BY <1>4, <2>2 DEF ReplaceStep
    <3> DEFINE u == Append(t, x[n])
    <3>2. /\ new.text = u /\ new.next = n + 1
          /\ u \in Seq(Tokens) /\ Len(u) = L + 1 /\ u[L + 1] = x[n] /\ \A k \in 1..L : u[k] = t[k]
      <4>1. x[n] \in Tokens
        OBVIOUS
      <4>2. u \in Seq(Tokens) /\ Len(u) = L + 1 /\ u[L + 1] = x[n] /\ \A k \in 1..L : u[k] = t[k]
        <5> HIDE DEF t
        <5>. QED BY <1>1, <4>1
      <4>3. new.text = u /\ new.next = n + 1
        <5> HIDE DEF new, t
        <5>. QED BY <3>1
      <4>. QED BY <4>2, <4>3
    <3> HIDE DEF u, new, t
    <3>3. u # <<>>
      BY <1>1, <3>2
    <3>4. ASSUME NEW i \in 1..Len(u), NEW m \in 1..Len(u), i <= m, \A k \in i..m : u[k] # p
          PROVE  \E j : /\ Traced(x, part, u, p, i, m, j)
                        /\ m = Len(u) => j + m - i = new.next - 1
      <4>0. i \in Nat /\ m \in Nat /\ i >= 1
        OBVIOUS
      <4>1. CASE i = L + 1
        <5>1. m = i
          BY <1>1, <3>2, <3>4, <4>1
        <5>2. \A k \in 0..(m - i) : x[n + k] = u[i + k]
          <6>1. \A k \in 0..(m - i) : k = 0
            BY <4>0, <5>1
          <6>2. x[n + 0] = u[i + 0]
            BY <1>1, <3>2, <4>0, <4>1
          <6>. QED BY <6>1, <6>2
        <5>3. Traced(x, part, u, p, i, m, n)
          BY <1>1, <2>2, <4>0, <5>1, <5>2 DEF Traced
        <5>. QED BY <1>1, <3>2, <4>0, <5>1, <5>3
      <4>2. CASE i # L + 1 /\ m # L + 1
        <5>1. i \in 1..L /\ m \in 1..L
          BY <1>1, <3>2, <3>4, <4>2
        <5>2. \A k \in i..m : t[k] # p
          <6>1. \A k \in i..m : k \in 1..L
            BY <1>1, <4>0, <5>1
          <6>. QED BY <3>2, <3>4, <6>1
        <5>3. PICK j : Traced(x, part, t, p, i, m, j)
          BY <1>0, <3>4, <5>1, <5>2
        <5>4. \A k \in 0..(m - i) : u[i + k] = t[i + k]
          <6>1. \A k \in 0..(m - i) : i + k \in 1..L
            BY <1>1, <4>0, <5>1
          <6>. QED BY <3>2, <6>1
        <5>5. Traced(x, part, u, p, i, m, j)
          BY <5>3, <5>4 DEF Traced
        <5>. QED BY <3>2, <4>2, <5>5
      <4>3. CASE i # L + 1 /\ m = L + 1
        <5>1. i \in 1..L /\ L \in 1..L /\ i <= L
          BY <1>1, <3>2, <3>4, <4>3
        <5>2. \A k \in i..L : t[k] # p
          <6> TAKE k \in i..L
          <6>1. k \in i..m /\ k \in 1..L
            BY <1>1, <4>0, <4>3, <5>1
          <6>2. u[k] = t[k] /\ u[k] # p
            BY <3>2, <3>4, <6>1
          <6>. QED BY <6>2
        <5>3. PICK j : Traced(x, part, t, p, i, L, j) /\ j + L - i = done.next - 1
          <6>1. \E j : Traced(x, part, t, p, i, L, j) /\ (L = L => j + L - i = done.next - 1)
            BY <1>0, <5>1, <5>2, Zenon
          <6>. QED BY <6>1, Zenon
        <5>4. j \in 1..Len(x) /\ j + m - i = n
          <6>1. j \in 1..Len(x) /\ j + L - i = n - 1
            BY <2>0, <5>3 DEF Traced
          <6>. QED BY <1>1, <4>0, <4>3, <6>1
        <5>5. \A k \in 0..(m - i) : x[j + k] = u[i + k]
          <6> TAKE k \in 0..(m - i)
          <6>1. CASE k = m - i
            <7>1. j + k = n /\ i + k = L + 1
              BY <1>1, <4>0, <4>3, <5>4, <6>1
            <7>. QED BY <3>2, <7>1
          <6>2. CASE k # m - i
            <7>1. k \in 0..(L - i) /\ i + k \in 1..L
              BY <1>1, <4>0, <4>3, <5>1, <6>2
            <7>. QED BY <3>2, <5>3, <7>1 DEF Traced
          <6>. QED BY <6>1, <6>2
        <5>6. Traced(x, part, u, p, i, m, j)
          BY <1>1, <5>3, <5>4, <5>5 DEF Traced
        <5>. QED BY <1>1, <3>2, <5>4, <5>6
      <4>. QED BY <4>1, <4>2, <4>3
    <3>5. new.next \in Nat /\ new.next > n
      BY <1>1, <3>2
    <3>6. Traces(new, n, x, part, p)
      BY <1>2, <3>2, <3>3, <3>4, <3>5 DEF Traces
    <3>. QED BY <3>6 DEF new
  <2>. QED BY <2>1, <2>2
<1>. QED BY <1>3, <1>4

LEMMA ReplaceTraced ==
  ASSUME NEW x \in Seq(Tokens), NEW part \in Seq(Tokens), part # <<>>, NEW p \in Tokens
  PROVE  LET t == Replace(x, part, <<p>>)
         IN  /\ t \in Seq(Tokens) /\ (x # <<>> => t # <<>>)
             /\ \A i, m \in 1..Len(t) :
                  i <= m /\ (\A k \in i..m : t[k] # p) => \E j : Traced(x, part, t, p, i, m, j)
<1>0. <<p>> \in Seq(Tokens) /\ Len(x) \in Nat
  OBVIOUS
<1>1. PICK f : /\ Replace(x, part, <<p>>) = f[Len(x)].text
               /\ f[0] = [text |-> <<>>, next |-> 1]
               /\ \A n \in 1..Len(x) : f[n] = ReplaceStep(f[n - 1], n, x, part, <<p>>)
  BY <1>0, ReplaceRuns
<1> DEFINE I == {n \in 0..Len(x) : Traces(f[n], n, x, part, p)}
<1>2. 0 \in I
  <2> DEFINE zero == [text |-> <<>>, next |-> 1]
  <2>1. zero \in Replaced /\ zero.next = 1 /\ zero.text = <<>> /\ Len(zero.text) = 0
    BY DEF Replaced
  <2> HIDE DEF zero
  <2>2. Traces(zero, 0, x, part, p)
    BY <2>1 DEF Traces
  <2>3. f[0] = zero
    BY <1>1, Zenon DEF zero
  <2>. QED BY <1>0, <2>2, <2>3
<1>3. ASSUME NEW n \in 1..Len(x), n - 1 \in I PROVE n \in I
  <2>1. Traces(f[n - 1], n - 1, x, part, p) /\ n \in 0..Len(x)
    BY <1>3
  <2>2. Traces(ReplaceStep(f[n - 1], n, x, part, <<p>>), n, x, part, p)
    BY <2>1, ReplaceStepTraces
  <2>. QED BY <1>1, <2>1, <2>2
<1>4. 0..Len(x) \subseteq I
  <2> HIDE DEF I
  <2>. QED BY <1>0, <1>2, <1>3, IntervalInduction
<1>5. Traces(f[Len(x)], Len(x), x, part, p)
  BY <1>0, <1>4
<1>6. x # <<>> => f[Len(x)].text # <<>>
  <2>1. x # <<>> => Len(x) >= 1
    BY <1>0
  <2>. QED BY <1>0, <1>5, <2>1 DEF Traces
<1>. QED BY <1>1, <1>5, <1>6 DEF Traces, Replaced

\* What the placeholder is not part of stood in the text before, and the part
\* stands nowhere.
LEMMA ReplaceFree ==
  ASSUME NEW x \in Seq(Tokens), NEW part \in Seq(Tokens), part # <<>>, NEW p \in Tokens,
         NEW v \in Seq(Tokens), v # <<>>, p \notin ToSet(v),
         v = part \/ Free(x, v)
  PROVE  Free(Replace(x, part, <<p>>), v)
<1> DEFINE t == Replace(x, part, <<p>>)
<1>1. /\ t \in Seq(Tokens)
      /\ \A i, m \in 1..Len(t) :
           i <= m /\ (\A k \in i..m : t[k] # p) => \E j : Traced(x, part, t, p, i, m, j)
  BY ReplaceTraced
<1> HIDE DEF t
<1> SUFFICES ASSUME NEW i \in 1..Len(t), At(t, v, i) PROVE FALSE
  BY DEF Free, t
<1> DEFINE m == i + Len(v) - 1
<1>2. Len(v) \in Nat \ {0} /\ Len(t) \in Nat /\ i \in Nat /\ m \in 1..Len(t) /\ i <= m
  BY <1>1 DEF At
<1>3. \A k \in i..m : t[k] # p
  <2> TAKE k \in i..m
  <2>1. k - i + 1 \in 1..Len(v) /\ i + (k - i + 1) - 1 = k
    BY <1>2
  <2>2. t[k] = v[k - i + 1]
    BY <2>1 DEF At
  <2>. QED BY <2>1, <2>2 DEF ToSet
<1>4. PICK j : Traced(x, part, t, p, i, m, j)
  BY <1>1, <1>2, <1>3
<1>5. j \in 1..Len(x) /\ j + Len(v) - 1 <= Len(x)
  BY <1>2, <1>4 DEF Traced
<1>6. \A k \in 1..Len(v) : x[j + k - 1] = v[k]
  <2> TAKE k \in 1..Len(v)
  <2>1. k - 1 \in 0..(m - i) /\ j + (k - 1) = j + k - 1 /\ i + (k - 1) = i + k - 1
    BY <1>2, <1>5
  <2>2. x[j + (k - 1)] = t[i + (k - 1)]
    BY <1>4, <2>1 DEF Traced
  <2>. QED BY <2>1, <2>2 DEF At
<1>7. At(x, v, j)
  BY <1>5, <1>6 DEF At
<1>8. CASE v = part
  BY <1>4, <1>7, <1>8, PartStands DEF Traced
<1>9. CASE Free(x, v)
  BY <1>5, <1>7, <1>9 DEF Free
<1>. QED BY <1>8, <1>9

\* A value that is found is left nowhere.
LEMMA FoundIsFree ==
  ASSUME NEW x \in Seq(Tokens), NEW v \in ToSet(Found(x))
  PROVE  MaskText(x).text \in Seq(Tokens) /\ Free(MaskText(x).text, v)
<1> DEFINE found == Found(x)
           N == Len(found)
           zero == [text |-> x, mappings |-> <<>>]
           FreeOf(done, n) == /\ done \in Done /\ Numbered(done.mappings)
                              /\ \A k \in 1..n : Free(done.text, found[k])
<1>1. PICK f : /\ MaskText(x) = f[N]
               /\ f[0] = zero
               /\ \A n \in 1..N : f[n] = MaskValue(f[n - 1], found[n])
  BY MaskTextRuns
<1>2. found \in Seq(Values)
  BY FoundAreValues
<1>3. \E k \in 1..N : found[k] = v
  BY <1>2 DEF ToSet
<1> HIDE DEF found
<1>4. N \in Nat /\ \A n \in 1..N : found[n] \in Values
  BY <1>2
<1>5. \A w \in Values : w \in Seq(Tokens) /\ w # <<>> /\ w \in Seq(Written)
  BY PatternsAssumption, WrittenTokens DEF Values
<1> DEFINE I == {n \in 0..N : FreeOf(f[n], n)}
<1>6. 0 \in I
  <2>1. zero \in Done
    <3>1. <<>> \in Seq(Mappings)
      OBVIOUS
    <3>. QED BY <3>1 DEF Done
  <2>2. Numbered(<<>>)
    BY DEF Numbered
  <2>3. zero.mappings = <<>>
    OBVIOUS
  <2>4. \A k \in 1..0 : Free(zero.text, found[k])
    OBVIOUS
  <2> HIDE DEF zero
  <2>5. FreeOf(zero, 0)
    BY <2>1, <2>2, <2>3, <2>4
  <2>. QED BY <1>1, <1>4, <2>5
<1>7. ASSUME NEW n \in 1..N, n - 1 \in I PROVE n \in I
  <2> DEFINE done == f[n - 1]
             w == found[n]
             next == MaskValue(done, w)
  <2>1. FreeOf(done, n - 1) /\ w \in Values /\ f[n] = next /\ n \in 0..N
    BY <1>1, <1>4, <1>7
  <2> HIDE DEF done
  <2>2. next \in Done /\ Numbered(next.mappings)
    BY <2>1, MaskValueType, MaskValueStep
  <2>3. PICK m \in Mappings :
           /\ m.value = w
           /\ next.text = Replace(done.text, w, <<m.placeholder>>)
           /\ m \in ToSet(next.mappings)
    <3>1. PICK m \in Mappings :
             /\ m.value = w
             /\ next.text = Replace(done.text, w, <<m.placeholder>>)
             /\ \/ m \in ToSet(done.mappings) /\ next.mappings = done.mappings
                \/ /\ m = NewMapping(done.mappings, w)
                   /\ next.mappings = Append(done.mappings, m)
      BY <2>1, MaskValueCases
    <3>2. done.mappings \in Seq(Mappings)
      BY <2>1 DEF Done
    <3>3. ToSet(Append(done.mappings, m)) = ToSet(done.mappings) \cup {m}
      BY <3>2, ElementsAppend
    <3>4. m \in ToSet(next.mappings)
      BY <3>1, <3>3
    <3>. QED BY <3>1, <3>4
  <2>4. m.placeholder \in Tokens /\ m.placeholder \notin Written
    <3>1. next.mappings \in Seq(Mappings)
      BY <2>2 DEF Done
    <3>2. Sound(next.mappings)
      BY <2>2, <3>1, NumberedSound
    <3>. QED BY <2>3, <3>2 DEF Sound, ToSet, Mappings
  <2>5. ASSUME NEW k \in 1..n PROVE Free(next.text, found[k])
    <3>1. k \in 1..N /\ n \in 1..N
      BY <1>4
    <3>2. found[k] \in Seq(Tokens) /\ found[k] # <<>> /\ found[k] \in Seq(Written)
          /\ w \in Seq(Tokens) /\ w # <<>>
      BY <1>4, <1>5, <3>1
    <3>3. m.placeholder \notin ToSet(found[k])
      BY <2>4, <3>2 DEF ToSet
    <3>4. done.text \in Seq(Tokens)
      BY <2>1 DEF Done
    <3>5. found[k] = w \/ Free(done.text, found[k])
      <4>1. CASE k = n
        BY <4>1
      <4>2. CASE k # n
        <5>1. k \in 1..(n - 1)
          BY <1>4, <4>2
        <5>. QED BY <2>1, <5>1
      <4>. QED BY <4>1, <4>2
    <3> DEFINE t == done.text
               q == m.placeholder
               u == found[k]
    <3>6. t \in Seq(Tokens) /\ q \in Tokens /\ u \in Seq(Tokens) /\ u # <<>> /\ q \notin ToSet(u)
          /\ (u = w \/ Free(t, u)) /\ w \in Seq(Tokens) /\ w # <<>>
          /\ next.text = Replace(t, w, <<q>>)
      BY <2>3, <2>4, <3>2, <3>3, <3>4, <3>5
    <3> HIDE DEF t, q, u, w, next
    <3>7. Free(Replace(t, w, <<q>>), u)
      BY <3>6, ReplaceFree
    <3>. QED BY <3>6, <3>7 DEF u
  <2> HIDE DEF next
  <2>6. FreeOf(next, n)
    BY <2>2, <2>5
  <2>. QED BY <2>1, <2>6
<1>8. 0..N \subseteq I
  <2> HIDE DEF I, N
  <2>. QED BY <1>4, <1>6, <1>7, IntervalInduction
<1>9. FreeOf(f[N], N)
  BY <1>4, <1>8
<1>. QED BY <1>1, <1>3, <1>9 DEF Done

LEMMA FlattenElements ==
  ASSUME NEW X, NEW ss \in Seq(Seq(X)), NEW t \in 1..Len(ss), NEW e \in ToSet(ss[t])
  PROVE  e \in ToSet(FlattenSeq(ss))
<1> DEFINE flat == FlattenSeq(ss)
           s == ss[t]
           N == Len(ss)
<1>1. PICK start : EndsAt(start, ss)
  BY EndsExist
<1>2. /\ flat \in Seq(X) /\ Len(flat) = start[N]
      /\ start[t] <= start[N]
      /\ \A k \in 1..Len(s) : flat[start[t - 1] + k] = s[k]
  BY <1>1, FlattenAt
<1>3. /\ t - 1 \in 0..N /\ t \in 0..N /\ N \in 0..N /\ s \in Seq(X)
      /\ start \in [0..N -> Nat] /\ start[t] = start[t - 1] + Len(s)
  BY <1>1 DEF EndsAt
<1> HIDE DEF flat, s, N
<1>4. start[t - 1] \in Nat /\ start[t] \in Nat /\ start[N] \in Nat /\ Len(s) \in Nat
  <2>1. \A n \in 0..N : start[n] \in Nat
    BY <1>3
  <2>2. Len(s) \in Nat
    BY <1>3
  <2>. QED BY <1>3, <2>1, <2>2
<1>5. PICK k \in 1..Len(s) : s[k] = e
  <2>1. e \in ToSet(s)
    BY DEF s
  <2>. QED BY <1>3, <2>1 DEF ToSet
<1> DEFINE before == start[t - 1]
           all == start[N]
<1>6. before + k \in 1..all
  <2> DEFINE behind == start[t]
  <2>1. /\ before \in Nat /\ behind \in Nat /\ all \in Nat /\ Len(s) \in Nat
        /\ behind = before + Len(s) /\ behind <= all
    BY <1>2, <1>3, <1>4, Zenon
  <2> HIDE DEF before, behind, all
  <2>. QED BY <2>1
<1>7. DOMAIN flat = 1..all /\ flat[before + k] = s[k]
  BY <1>2
<1>8. flat[before + k] = e /\ before + k \in DOMAIN flat
  BY <1>5, <1>6, <1>7, Zenon
<1>. QED BY <1>8, Zenon DEF ToSet, flat

\* The patterns find every word that is a value.
LEMMA ValuesAreFound ==
  ASSUME NEW x \in Seq(Tokens), NEW i \in DOMAIN SplitWords(x), Strip(SplitWords(x)[i]) \in DOMAIN PiiOf
  PROVE  Strip(SplitWords(x)[i]) \in ToSet(Found(x)) /\ Strip(SplitWords(x)[i]) \in Seq(Solid)
<1> DEFINE words == SplitWords(x)
           v == Strip(words[i])
           stripped == [k \in DOMAIN words |-> Strip(words[k])]
           S(type) == {value \in DOMAIN PiiOf : PiiOf[value] = type}
           ss == [t \in DOMAIN PiiTypes |-> Matches(x, PiiTypes[t])]
<1>1. words \in Seq(Words) /\ DOMAIN words = 1..Len(words) /\ Len(words) \in Nat
      /\ \A k \in DOMAIN words : words[k] \in Seq(Solid)
  <2>1. words \in Seq(Words)
    BY NormType
  <2> HIDE DEF words
  <2>. QED BY <2>1, WordsAt
<1>2. PICK type : type \in ToSet(PiiTypes) /\ PiiOf[v] = type
  BY PatternsAssumption
<1>3. PICK t \in DOMAIN PiiTypes : PiiTypes[t] = type
  BY <1>2 DEF ToSet
<1>4. \A k \in DOMAIN words : Strip(words[k]) \in Seq(Solid)
  BY <1>1, StripType
<1>5. stripped \in Seq(Seq(Solid)) /\ v \in ToSet(stripped)
  <2>1. stripped \in [1..Len(words) -> Seq(Solid)]
    BY <1>1, <1>4
  <2>2. stripped[i] = v /\ i \in DOMAIN stripped
    OBVIOUS
  <2>3. v \in ToSet(stripped)
    BY <2>2, Zenon DEF ToSet
  <2> HIDE DEF stripped
  <2>. QED BY <1>1, <2>1, <2>3, SequenceOf
<1>6. Matches(x, type) = Kept(stripped, S(type))
  BY DEF Matches
<1>7. v \in ToSet(Matches(x, type))
  <2> HIDE DEF stripped, v
  <2>1. v \in S(type)
    BY <1>2 DEF v
  <2>2. ToSet(Kept(stripped, S(type))) = ToSet(stripped) \cap S(type)
    <3> HIDE DEF S
    <3>. QED BY <1>5, KeptElements
  <2>. QED BY <1>5, <1>6, <2>1, <2>2
<1>8. DOMAIN PiiTypes = 1..4 /\ \A k \in 1..4 : PiiTypes[k] \in ToSet(PiiTypes)
  BY DEF PiiTypes, ToSet
<1>9. ss \in Seq(Seq(Values)) /\ Len(ss) = 4 /\ ss[t] = Matches(x, type)
  <2>1. \A k \in 1..4 : Matches(x, PiiTypes[k]) \in Seq(Values)
    BY <1>8, MatchesAreValues
  <2>2. ss \in [1..4 -> Seq(Values)]
    BY <1>8, <2>1
  <2>3. ss[t] = Matches(x, type)
    BY <1>3
  <2> HIDE DEF ss
  <2>4. ss \in Seq(Seq(Values)) /\ Len(ss) = 4
    <3> DEFINE V == Seq(Values)
               n == 4
    <3>1. ss \in [1..n -> V] /\ n \in Nat
      BY <2>2
    <3> HIDE DEF V, n
    <3>2. ss \in Seq(V) /\ Len(ss) = n
      BY <3>1, SequenceOf
    <3>. QED BY <3>2 DEF V, n
  <2>. QED BY <2>3, <2>4
<1> HIDE DEF ss
<1>10. t \in 1..Len(ss) /\ v \in ToSet(ss[t])
  BY <1>7, <1>8, <1>9
<1>11. v \in ToSet(FlattenSeq(ss))
  <2> HIDE DEF v
  <2>. QED BY <1>9, <1>10, FlattenElements
<1>12. Found(x) = FlattenSeq(ss)
  BY DEF Found, ss
<1>. QED BY <1>4, <1>11, <1>12

\* The atoms of w are the last ones of x.
EndOf(w, x) == Len(w) <= Len(x) /\ \A k \in 1..Len(w) : w[k] = x[Len(x) - Len(w) + k]

LEMMA TailFree ==
  ASSUME NEW x \in Seq(Tokens), NEW w \in Seq(Tokens), EndOf(w, x),
         NEW v \in Seq(Tokens), v # <<>>, Free(x, v)
  PROVE  Free(w, v)
<1> SUFFICES ASSUME NEW i \in 1..Len(w), At(w, v, i) PROVE FALSE
  BY DEF Free
<1> DEFINE d == Len(x) - Len(w)
           j == d + i
<1>1. /\ Len(x) \in Nat /\ Len(w) \in Nat /\ Len(v) \in Nat \ {0} /\ Len(w) <= Len(x)
      /\ i + Len(v) - 1 <= Len(w) /\ i \in Nat
  BY DEF EndOf, At
<1>2. d \in Nat /\ j \in 1..Len(x) /\ j + Len(v) - 1 <= Len(x)
  BY <1>1
<1>3. \A k \in 1..Len(v) : x[j + k - 1] = v[k]
  <2> TAKE k \in 1..Len(v)
  <2>1. i + k - 1 \in 1..Len(w) /\ d + (i + k - 1) = j + k - 1
    BY <1>1
  <2>2. w[i + k - 1] = x[d + (i + k - 1)]
    BY <2>1 DEF EndOf
  <2>3. w[i + k - 1] = v[k]
    BY DEF At
  <2>. QED BY <2>1, <2>2, <2>3
<1>4. At(x, v, j)
  BY <1>2, <1>3 DEF At
<1>. QED BY <1>2, <1>4 DEF Free

LEMMA TailAppend ==
  ASSUME NEW x \in Seq(Tokens), NEW a \in Tokens
  PROVE  /\ EndOf(<<>>, x)
         /\ \A w \in Seq(Tokens) : EndOf(w, x) => EndOf(Append(w, a), Append(x, a))
         /\ \A v \in Seq(Tokens) : Free(Append(x, a), v) => Free(x, v)
<1> DEFINE y == Append(x, a)
<1>1. /\ Len(x) \in Nat /\ Len(y) = Len(x) + 1 /\ y[Len(x) + 1] = a
      /\ \A k \in 1..Len(x) : y[k] = x[k]
  OBVIOUS
<1> HIDE DEF y
<1>2. EndOf(<<>>, x)
  BY <1>1 DEF EndOf
<1>3. ASSUME NEW w \in Seq(Tokens), EndOf(w, x) PROVE EndOf(Append(w, a), y)
  <2> DEFINE z == Append(w, a)
  <2>1. /\ Len(w) \in Nat /\ Len(z) = Len(w) + 1 /\ z[Len(w) + 1] = a
        /\ \A k \in 1..Len(w) : z[k] = w[k]
    OBVIOUS
  <2> HIDE DEF z
  <2>2. Len(w) <= Len(x) /\ \A k \in 1..Len(w) : w[k] = x[Len(x) - Len(w) + k]
    BY <1>3 DEF EndOf
  <2>3. ASSUME NEW k \in 1..Len(z) PROVE z[k] = y[Len(y) - Len(z) + k]
    <3>1. CASE k = Len(w) + 1
      <4>1. Len(y) - Len(z) + k = Len(x) + 1
        BY <1>1, <2>1, <3>1
      <4>. QED BY <1>1, <2>1, <3>1, <4>1
    <3>2. CASE k # Len(w) + 1
      <4>1. k \in 1..Len(w) /\ Len(y) - Len(z) + k = Len(x) - Len(w) + k
            /\ Len(x) - Len(w) + k \in 1..Len(x)
        BY <1>1, <2>1, <2>2, <3>2
      <4>2. z[k] = w[k] /\ w[k] = x[Len(x) - Len(w) + k]
        BY <2>1, <2>2, <4>1
      <4>. QED BY <1>1, <4>1, <4>2
    <3>. QED BY <3>1, <3>2
  <2>4. Len(z) <= Len(y)
    BY <1>1, <2>1, <2>2
  <2>. QED BY <2>3, <2>4 DEF EndOf, z
<1>4. ASSUME NEW v \in Seq(Tokens), Free(y, v), NEW i \in 1..Len(x), At(x, v, i) PROVE FALSE
  <2>1. i \in 1..Len(y) /\ i \in Nat /\ Len(v) \in Nat /\ i + Len(v) - 1 <= Len(x) /\ i + Len(v) - 1 <= Len(y)
    BY <1>1, <1>4 DEF At
  <2>2. \A k \in 1..Len(v) : y[i + k - 1] = v[k]
    <3> TAKE k \in 1..Len(v)
    <3>1. i + k - 1 \in 1..Len(x)
      BY <1>1, <2>1
    <3>2. x[i + k - 1] = v[k]
      BY <1>4 DEF At
    <3>. QED BY <1>1, <3>1, <3>2
  <2>3. At(y, v, i)
    BY <2>1, <2>2 DEF At
  <2>. QED BY <1>4, <2>1, <2>3 DEF Free
<1>. QED BY <1>2, <1>3, <1>4 DEF Free, y

AllFree(ws, v) == \A i \in DOMAIN ws : Free(ws[i], v)

LEMMA AllFreeAppend ==
  ASSUME NEW ws \in Seq(Seq(Tokens)), NEW w \in Seq(Tokens), NEW v
  PROVE  /\ AllFree(<<>>, v)
         /\ AllFree(Append(ws, w), v) <=> AllFree(ws, v) /\ Free(w, v)
<1> DEFINE long == Append(ws, w)
<1>1. /\ Len(ws) \in Nat /\ DOMAIN ws = 1..Len(ws) /\ DOMAIN long = 1..(Len(ws) + 1)
      /\ long[Len(ws) + 1] = w /\ \A i \in 1..Len(ws) : long[i] = ws[i]
  OBVIOUS
<1> HIDE DEF long
<1>2. AllFree(<<>>, v)
  BY DEF AllFree
<1>3. \A i \in 1..(Len(ws) + 1) : i \in 1..Len(ws) \/ i = Len(ws) + 1
  BY <1>1
<1>4. Len(ws) + 1 \in 1..(Len(ws) + 1) /\ \A i \in 1..Len(ws) : i \in 1..(Len(ws) + 1)
  BY <1>1
<1>5. AllFree(long, v) <=> AllFree(ws, v) /\ Free(w, v)
  BY <1>1, <1>3, <1>4 DEF AllFree
<1>. QED BY <1>2, <1>5 DEF long

\* What stands in a word of a text stands in the text.
LEMMA WordsFree ==
  ASSUME NEW x \in Seq(Tokens), NEW v \in Seq(Tokens), v # <<>>, Free(x, v)
  PROVE  AllFree(SplitWords(x), v)
<1> DEFINE Good(t) == /\ EndOf(Scan(t).word, t)
                      /\ Free(t, v) => AllFree(Scan(t).words, v)
           S == {t \in Seq(Tokens) : Good(t)}
<1>1. <<>> \in S
  <2>1. <<>> \in Seq(Tokens)
    OBVIOUS
  <2>2. Scan(<<>>).word = <<>> /\ Scan(<<>>).words = <<>>
    BY <2>1, ScanAppend, Blanks DEF NoScan
  <2>3. EndOf(<<>>, <<>>) /\ AllFree(<<>>, v)
    BY DEF EndOf, AllFree
  <2>. QED BY <2>1, <2>2, <2>3
<1>2. ASSUME NEW t \in Seq(Tokens), NEW a \in Tokens, t \in S PROVE Append(t, a) \in S
  <2> DEFINE y == Append(t, a)
             ws == Scan(t).words
             w == Scan(t).word
  <2>1. Good(t)
    BY <1>2
  <2>2. Scan(y) = NextAtom(Scan(t), a)
    BY ScanAppend
  <2>3. ws \in Seq(Seq(Tokens)) /\ w \in Seq(Tokens)
    <3>1. Scan(t) \in [words : Seq(Words), word : Seq(Solid)]
      BY ScanType
    <3>2. Seq(Words) \subseteq Seq(Seq(Tokens)) /\ Seq(Solid) \subseteq Seq(Tokens)
      BY SolidTokens
    <3>. QED BY <3>1, <3>2
  <2>4. y \in Seq(Tokens) /\ EndOf(<<>>, y)
    <3>1. y \in Seq(Tokens)
      OBVIOUS
    <3> HIDE DEF y
    <3>. QED BY <3>1, TailAppend
  <2>5. Free(y, v) => Free(t, v)
    BY TailAppend
  <2>6. Free(y, v) => AllFree(ws, v) /\ Free(w, v)
    <3> HAVE Free(y, v)
    <3>1. Free(t, v) /\ EndOf(w, t) /\ AllFree(ws, v)
      BY <2>1, <2>5
    <3> HIDE DEF w, ws
    <3>. QED BY <2>3, <3>1, TailFree
  <2>7. Good(y)
    <3>1. CASE a \notin White
      <4>1. Scan(y).words = ws /\ Scan(y).word = Append(w, a)
        BY <2>2, <3>1 DEF NextAtom
      <4>2. EndOf(w, t)
        BY <2>1
      <4> HIDE DEF w, ws
      <4>3. EndOf(Append(w, a), y)
        BY <2>3, <4>2, TailAppend
      <4> HIDE DEF y
      <4>. QED BY <2>6, <4>1, <4>3
    <3>2. CASE a \in White
      <4>1. Scan(y).words = EndWord(Scan(t)) /\ Scan(y).word = <<>>
        BY <2>2, <3>2 DEF NextAtom
      <4>2. EndWord(Scan(t)) = IF w = <<>> THEN ws ELSE Append(ws, w)
        BY DEF EndWord
      <4> HIDE DEF w, ws, y
      <4>3. Free(y, v) => AllFree(Append(ws, w), v)
        BY <2>3, <2>6, AllFreeAppend
      <4>. QED BY <2>4, <2>6, <4>1, <4>2, <4>3, Zenon
    <3>. QED BY <3>1, <3>2
  <2> HIDE DEF Good
  <2>. QED BY <2>4, <2>7 DEF y
<1>3. Good(x)
  <2>1. Seq(Tokens) \subseteq S
    <3> HIDE DEF S
    <3>. QED BY <1>1, <1>2, SequenceInduction
  <2>. QED BY <2>1
<1> DEFINE ws == Scan(x).words
           w == Scan(x).word
<1>4. ws \in Seq(Seq(Tokens)) /\ w \in Seq(Tokens)
  <2>1. Scan(x) \in [words : Seq(Words), word : Seq(Solid)]
    BY ScanType
  <2>2. Seq(Words) \subseteq Seq(Seq(Tokens)) /\ Seq(Solid) \subseteq Seq(Tokens)
    BY SolidTokens
  <2>. QED BY <2>1, <2>2
<1>5. AllFree(ws, v) /\ EndOf(w, x)
  BY <1>3
<1>6. SplitWords(x) = IF w = <<>> THEN ws ELSE Append(ws, w)
  BY DEF SplitWords, EndWord
<1> HIDE DEF w, ws
<1>7. Free(w, v)
  BY <1>4, <1>5, TailFree
<1>8. AllFree(Append(ws, w), v)
  BY <1>4, <1>5, <1>7, AllFreeAppend
<1>. QED BY <1>5, <1>6, <1>8, Zenon

LEMMA SpacedAt ==
  ASSUME NEW x \in Seq(Tokens), NEW w \in Seq(Tokens)
  PROVE  LET y == x \o (<<Space>> \o w)
         IN  /\ y \in Seq(Tokens) /\ Len(y) = Len(x) + 1 + Len(w)
             /\ y[Len(x) + 1] = Space
             /\ \A i \in 1..Len(x) : y[i] = x[i]
             /\ \A k \in 1..Len(w) : y[Len(x) + 1 + k] = w[k]
<1> DEFINE b == <<Space>>
           r == b \o w
           y == x \o r
           L == Len(x)
<1>1. b \in Seq(Tokens) /\ Len(b) = 1 /\ b[1] = Space /\ 1 \in 1..Len(b)
  BY Blanks
<1> HIDE DEF b
<1>2. /\ r \in Seq(Tokens) /\ Len(r) = 1 + Len(w) /\ r[1] = Space
      /\ \A k \in 1..Len(w) : r[1 + k] = w[k]
  <2>1. /\ r \in Seq(Tokens) /\ Len(r) = Len(b) + Len(w)
        /\ \A i \in 1..Len(b) : r[i] = b[i]
        /\ \A k \in 1..Len(w) : r[Len(b) + k] = w[k]
    <3>1. b \in Seq(Tokens)
      BY <1>1
    <3>. QED BY <3>1, ConcatAt
  <2> HIDE DEF r
  <2>. QED BY <1>1, <2>1
<1> HIDE DEF r
<1>3. /\ y \in Seq(Tokens) /\ Len(y) = L + Len(r)
      /\ \A i \in 1..L : y[i] = x[i]
      /\ \A k \in 1..Len(r) : y[L + k] = r[k]
  <2>1. r \in Seq(Tokens)
    BY <1>2
  <2>. QED BY <2>1, ConcatAt
<1> HIDE DEF y
<1>4. L \in Nat /\ Len(w) \in Nat
  OBVIOUS
<1>5. 1 \in 1..Len(r) /\ \A k \in 1..Len(w) : 1 + k \in 1..Len(r) /\ L + (1 + k) = L + 1 + k
  BY <1>2, <1>4
<1>6. y[L + 1] = Space /\ \A k \in 1..Len(w) : y[L + 1 + k] = w[k]
  BY <1>2, <1>3, <1>5
<1>7. Len(y) = L + 1 + Len(w)
  BY <1>2, <1>3, <1>4
<1>. QED BY <1>3, <1>6, <1>7 DEF y, r, b

LEMMA SpacedFree ==
  ASSUME NEW x \in Seq(Tokens), NEW w \in Seq(Tokens), NEW v \in Seq(Solid), v # <<>>,
         Free(x, v), Free(w, v)
  PROVE  Free(x \o (<<Space>> \o w), v)
<1> DEFINE y == x \o (<<Space>> \o w)
           L == Len(x)
<1>1. /\ Len(y) = L + 1 + Len(w)
      /\ y[L + 1] = Space
      /\ \A i \in 1..L : y[i] = x[i]
      /\ \A k \in 1..Len(w) : y[L + 1 + k] = w[k]
  BY SpacedAt, Zenon
<1> HIDE DEF y
<1>2. L \in Nat /\ Len(w) \in Nat
  OBVIOUS
<1>3. Len(v) \in Nat \ {0} /\ v \in Seq(Tokens) /\ \A k \in 1..Len(v) : v[k] # Space
  <2>1. \A k \in 1..Len(v) : v[k] \in Solid
    OBVIOUS
  <2>. QED BY <2>1, SolidTokens DEF Solid, White
<1> SUFFICES ASSUME NEW i \in 1..Len(y), At(y, v, i) PROVE FALSE
  BY DEF Free, y
<1> DEFINE m == i + Len(v) - 1
<1>5. i \in Nat /\ i >= 1 /\ m \in Nat /\ i <= m /\ m <= L + 1 + Len(w)
  BY <1>1, <1>2, <1>3 DEF At
<1>6. \A k \in 1..Len(v) : y[i + k - 1] = v[k]
  BY DEF At
<1>7. CASE m <= L
  <2>1. i \in 1..L
    BY <1>2, <1>5, <1>7
  <2>2. \A k \in 1..Len(v) : x[i + k - 1] = v[k]
    <3> TAKE k \in 1..Len(v)
    <3>1. i + k - 1 \in 1..L
      BY <1>2, <1>3, <1>5, <1>7
    <3>. QED BY <1>1, <1>6, <3>1
  <2>3. At(x, v, i)
    BY <1>7, <2>1, <2>2 DEF At
  <2>. QED BY <2>1, <2>3 DEF Free
<1>8. CASE i > L + 1
  <2> DEFINE j == i - (L + 1)
  <2>1. j \in 1..Len(w) /\ j + Len(v) - 1 <= Len(w)
    BY <1>2, <1>3, <1>5, <1>8
  <2>2. \A k \in 1..Len(v) : w[j + k - 1] = v[k]
    <3> TAKE k \in 1..Len(v)
    <3>1. j + k - 1 \in 1..Len(w) /\ L + 1 + (j + k - 1) = i + k - 1
      BY <1>2, <1>3, <1>5, <2>1
    <3>2. y[L + 1 + (j + k - 1)] = w[j + k - 1]
      BY <1>1, <3>1
    <3>. QED BY <1>6, <3>1, <3>2
  <2>3. At(w, v, j)
    BY <2>1, <2>2 DEF At
  <2>. QED BY <2>1, <2>3 DEF Free
<1>9. CASE i <= L + 1 /\ m > L
  <2> DEFINE k == L + 2 - i
  <2>1. k \in 1..Len(v) /\ i + k - 1 = L + 1
    BY <1>2, <1>3, <1>5, <1>9
  <2>2. v[k] = Space
    BY <1>1, <1>6, <2>1
  <2>. QED BY <1>3, <2>1, <2>2
<1>. QED BY <1>2, <1>5, <1>7, <1>8, <1>9

\* What has no white space in it stands in a text put together of words only if
\* it stands in one of them.
LEMMA JoinFree ==
  ASSUME NEW ws \in Seq(Seq(Tokens)), NEW v \in Seq(Solid), v # <<>>, AllFree(ws, v)
  PROVE  Free(JoinWords(ws), v)
<1> DEFINE Good(s) == AllFree(s, v) => Free(JoinWords(s), v)
           S == {s \in Seq(Seq(Tokens)) : Good(s)}
<1>1. <<>> \in S
  <2>1. <<>> \in Seq(Seq(Tokens))
    OBVIOUS
  <2>2. JoinWords(<<>>) = <<>>
    BY <2>1, SpacedType
  <2>3. Free(<<>>, v)
    BY DEF Free
  <2>. QED BY <2>1, <2>2, <2>3
<1>2. ASSUME NEW s \in Seq(Seq(Tokens)), NEW w \in Seq(Tokens), s \in S PROVE Append(s, w) \in S
  <2> DEFINE J == JoinWords(s)
             long == Append(s, w)
  <2>1. Good(s) /\ J \in Seq(Tokens) /\ long \in Seq(Seq(Tokens))
    BY <1>2, SpacedType
  <2>2. JoinWords(long) = IF s = <<>> THEN w ELSE J \o (<<Space>> \o w)
    BY JoinAppend
  <2>3. AllFree(long, v) => Free(JoinWords(long), v)
    <3> HAVE AllFree(long, v)
    <3>1. AllFree(s, v) /\ Free(w, v)
      BY AllFreeAppend
    <3>2. Free(J, v)
      BY <2>1, <3>1
    <3> HIDE DEF J
    <3>3. Free(J \o (<<Space>> \o w), v)
      BY <2>1, <3>1, <3>2, SpacedFree
    <3>. QED BY <2>2, <3>1, <3>3, Zenon
  <2> HIDE DEF long
  <2>. QED BY <2>1, <2>3 DEF long
<1>3. ws \in S
  <2>1. Seq(Seq(Tokens)) \subseteq S
    <3> HIDE DEF S
    <3>. QED BY <1>1, <1>2, SequenceInduction
  <2>. QED BY <2>1
<1>. QED BY <1>3

\* Stripping takes away nothing but punctuation, and all of it at the ends.
LEMMA StripWord ==
  ASSUME NEW word \in Seq(Tokens)
  PROVE  /\ \A a \in ToSet(word) \ Punct : a \in ToSet(Strip(word))
         /\ Strip(word) # <<>> => Strip(word)[1] \notin Punct
<1> DEFINE core == {i \in DOMAIN word : word[i] \notin Punct}
           First(i) == \A k \in core : i <= k
           Final(i) == \A k \in core : i >= k
<1>1. DOMAIN word = 1..Len(word) /\ Len(word) \in Nat
  OBVIOUS
<1>2. CASE core = {}
  <2>1. Strip(word) = <<>>
    BY <1>2 DEF Strip
  <2>2. \A a \in ToSet(word) : a \in Punct
    BY <1>2 DEF ToSet
  <2>. QED BY <2>1, <2>2
<1>3. CASE core # {}
  <2>1. core \in SUBSET (1..Len(word)) /\ core \in SUBSET Nat
    BY <1>1
  <2>2. \A i \in core : i \in DOMAIN word /\ word[i] \notin Punct
    OBVIOUS
  <2>3. \A a \in ToSet(word) \ Punct : \E i \in core : word[i] = a
    BY DEF ToSet
  <2> HIDE DEF core
  <2>4. PICK i \in core : First(i)
    BY <1>3, <2>1, LeastExists
  <2>5. PICK k \in core : Final(k)
    <3>1. PICK k \in core : \A j \in core : j <= k
      BY <1>1, <1>3, <2>1, GreatestExists
    <3>2. \A j \in core : k >= j
      BY <2>1, <3>1
    <3>. QED BY <3>1, <3>2
  <2>6. PICK p : p = CHOOSE j \in core : First(j)
    OBVIOUS
  <2>7. PICK q : q = CHOOSE j \in core : Final(j)
    OBVIOUS
  <2>8. p \in core /\ q \in core /\ First(p) /\ Final(q)
    <3> HIDE DEF First, Final
    <3>. QED BY <2>4, <2>5, <2>6, <2>7, Zenon
  <2> DEFINE s == SubSeq(word, p, q)
  <2>9. Strip(word) = s
    BY <1>3, <2>6, <2>7, Zenon DEF Strip, core
  <2>10. p \in Nat /\ q \in Nat /\ 1 <= p /\ p <= q /\ q <= Len(word)
    BY <1>1, <2>1, <2>8
  <2>11. Len(s) = q - p + 1 /\ DOMAIN s = 1..(q - p + 1) /\ \A n \in 1..(q - p + 1) : s[n] = word[p + n - 1]
    BY <2>10
  <2> HIDE DEF s
  <2>12. s[1] = word[p]
    <3>1. 1 \in 1..(q - p + 1) /\ p + 1 - 1 = p
      BY <2>10
    <3>. QED BY <2>11, <3>1
  <2>13. ASSUME NEW a \in ToSet(word) \ Punct PROVE a \in ToSet(s)
    <3>1. PICK j \in core : word[j] = a
      BY <2>3
    <3>2. j \in Nat /\ p <= j /\ j <= q
      BY <2>1, <2>8, <3>1
    <3>3. j - p + 1 \in 1..(q - p + 1) /\ p + (j - p + 1) - 1 = j
      BY <2>10, <3>2
    <3>4. s[j - p + 1] = a
      BY <2>11, <3>1, <3>3
    <3>. QED BY <2>11, <3>3, <3>4 DEF ToSet
  <2>. QED BY <2>2, <2>8, <2>9, <2>12, <2>13
<1>. QED BY <1>2, <1>3

LEMMA NameAtToken ==
  ASSUME NEW words \in Seq(Words), NEW i \in DOMAIN words, IsName(words, i)
  PROVE  /\ NameAt(words, i) \in Tokens /\ NameAt(words, i) \notin Written
         /\ NameAt(words, i) \in Solid /\ NameAt(words, i).nr # 0
<1>1. NameNumber(words, i) \in Nat \ {0}
  BY NamesCounted
<1>. QED BY <1>1 DEF NameAt, Placeholder, Tokens, Written, Solid, White, Space, NewLine, Atom

\* In a word that is a name the placeholder has taken the name's place.
LEMMA MaskedName ==
  ASSUME NEW words \in Seq(Words), NEW i \in DOMAIN words, IsName(words, i)
  PROVE  /\ MaskedWord(words, i) \in Words
         /\ \A spelling : Strip(MaskedWord(words, i)) # <<Atom(spelling)>>
<1> DEFINE w == words[i]
           p == NameAt(words, i)
<1>1. PICK b : Strip(w) = <<b>>
  BY DEF IsName, Spells
<1>2. w \in Words /\ w \in Seq(Solid) /\ w \in Seq(Tokens)
  BY WordsAt
<1>3. p \in Tokens /\ p \in Solid /\ p.nr # 0
  BY NameAtToken
<1>4. <<b>> \in Seq(Tokens) /\ b \in Tokens
  <2> DEFINE s == Strip(w)
  <2>1. s \in Seq(Tokens) /\ s = <<b>>
    BY <1>1, <1>2, StripType
  <2> HIDE DEF s
  <2>2. <<b>>[1] = b /\ 1 \in 1..Len(<<b>>)
    OBVIOUS
  <2>. QED BY <2>1, <2>2
<1> DEFINE t == Replace(w, <<b>>, <<p>>)
<1>5. MaskedWord(words, i) = t
  BY <1>1 DEF MaskedWord
<1> HIDE DEF w, p
<1>6. <<b>> # <<>> /\ Len(<<b>>) = 1 /\ <<b>>[1] = b
  OBVIOUS
<1>7. /\ t \in Seq(Tokens) /\ (w # <<>> => t # <<>>)
      /\ \A k, m \in 1..Len(t) :
           k <= m /\ (\A n \in k..m : t[n] # p) => \E j : Traced(w, <<b>>, t, p, k, m, j)
  BY <1>2, <1>3, <1>4, <1>6, ReplaceTraced
<1> HIDE DEF t
<1>8. ASSUME NEW k \in 1..Len(t), t[k] # p
      PROVE  \E j \in 1..Len(w) : w[j] = t[k] /\ w[j] # b
  <2>1. k <= k /\ \A n \in k..k : t[n] # p
    BY <1>8
  <2>2. PICK j : Traced(w, <<b>>, t, p, k, k, j)
    BY <1>7, <2>1
  <2>3. j \in 1..Len(w) /\ 0 \in 0..(k - k) /\ j + 0 = j /\ k + 0 = k
    BY <2>2 DEF Traced
  <2>4. w[j] = t[k]
    <3>1. w[j + 0] = t[k + 0]
      BY <2>2, <2>3 DEF Traced
    <3>. QED BY <2>3, <3>1
  <2>5. w[j] # b
    <3> SUFFICES ASSUME w[j] = b PROVE FALSE
      OBVIOUS
    <3>1. \A n \in 1..1 : w[j + n - 1] = <<b>>[n]
      BY <1>6, <2>3
    <3>2. At(w, <<b>>, j)
      BY <1>2, <1>6, <2>3, <3>1 DEF At
    <3>3. Stands(w, <<b>>, j)
      BY <1>2, <1>4, <1>6, <3>2, PartStands
    <3>. QED BY <2>2, <3>3 DEF Traced
  <2>. QED BY <2>3, <2>4, <2>5
<1>9. t \in Words
  <2>1. \A k \in 1..Len(t) : t[k] \in Solid
    <3> TAKE k \in 1..Len(t)
    <3>1. CASE t[k] = p
      BY <1>3, <3>1
    <3>2. CASE t[k] # p
      <4>1. PICK j \in 1..Len(w) : w[j] = t[k]
        BY <1>8, <3>2
      <4>2. w[j] \in Solid
        BY <1>2
      <4>. QED BY <4>1, <4>2
    <3>. QED BY <3>1, <3>2
  <2>2. ToSet(t) \subseteq Solid
    BY <1>7, <2>1 DEF ToSet
  <2>3. t \in Seq(Solid)
    BY <1>7, <2>2, SequenceWithin
  <2>. QED BY <1>2, <1>7, <2>3 DEF Words
<1>10. ASSUME NEW spelling, Strip(t) = <<Atom(spelling)>> PROVE FALSE
  <2> DEFINE a == Atom(spelling)
  <2>1. a.nr = 0
    BY DEF Atom
  <2> HIDE DEF a
  <2>2. Strip(t) = <<a>> /\ Strip(t) # <<>> /\ Strip(t)[1] = a
    BY <1>10 DEF a
  <2>3. a \notin Punct
    BY <1>7, <2>2, StripWord
  <2>4. ToSet(Strip(t)) \subseteq ToSet(t)
    BY <1>7, StripType
  <2>5. a \in ToSet(Strip(t))
    <3>1. <<a>>[1] = a /\ 1 \in DOMAIN <<a>>
      OBVIOUS
    <3>. QED BY <2>2, <3>1 DEF ToSet
  <2>6. PICK k \in 1..Len(t) : t[k] = a
    <3>1. DOMAIN t = 1..Len(t)
      BY <1>7
    <3>. QED BY <2>4, <2>5, <3>1, Zenon DEF ToSet
  <2>7. a # p
    BY <1>3, <2>1
  <2>8. PICK j \in 1..Len(w) : w[j] = a /\ a # b
    BY <1>8, <2>6, <2>7
  <2>9. a \in ToSet(w)
    BY <1>2, <2>8 DEF ToSet
  <2>10. a \in ToSet(Strip(w))
    BY <1>2, <2>3, <2>9, StripWord
  <2>11. a = b
    <3>1. \A n \in DOMAIN <<b>> : <<b>>[n] = b
      OBVIOUS
    <3>. QED BY <1>1, <2>10, <3>1 DEF ToSet, w
  <2>. QED BY <2>8, <2>11
<1>. QED BY <1>5, <1>9, <1>10

\* No word that is left is an unambiguous name.
LEMMA NoNameIsLeft ==
  ASSUME NEW words \in Seq(Words), NEW i \in DOMAIN words
  PROVE  /\ MaskedWord(words, i) \in Words
         /\ \A spelling \in CommonNames \ Ambiguous : Strip(MaskedWord(words, i)) # <<Atom(spelling)>>
<1>1. CASE IsName(words, i)
  BY <1>1, MaskedName
<1>2. CASE ~IsName(words, i)
  <2>1. MaskedWord(words, i) = words[i] /\ words[i] \in Words
    BY <1>2, WordsAt DEF MaskedWord
  <2>2. ASSUME NEW spelling \in CommonNames \ Ambiguous, Strip(words[i]) = <<Atom(spelling)>> PROVE FALSE
    <3>1. Spells(words, i, CommonNames)
      BY <2>2 DEF Spells
    <3>2. Spells(words, i, Ambiguous)
      BY <1>2, <3>1 DEF IsName
    <3>3. PICK other \in Ambiguous : Strip(words[i]) = <<Atom(other)>>
      BY <3>2 DEF Spells
    <3>4. <<Atom(other)>>[1] = Atom(other) /\ <<Atom(spelling)>>[1] = Atom(spelling)
      OBVIOUS
    <3>5. Atom(other) = Atom(spelling)
      BY <2>2, <3>3, <3>4
    <3>6. other = spelling
      BY <3>5 DEF Atom
    <3>. QED BY <3>6
  <2>. QED BY <2>1, <2>2
<1>. QED BY <1>1, <1>2

\* Masking leaves no value and no unambiguous name.
LEMMA MaskingLeavesNothing ==
  ASSUME NEW x \in Seq(Tokens)
  PROVE  LET t == MaskAll(x).text
         IN  /\ \A i \in DOMAIN SplitWords(x) :
                  Strip(SplitWords(x)[i]) \in DOMAIN PiiOf => Find(Strip(SplitWords(x)[i]), t) = 0
             /\ \A i \in DOMAIN SplitWords(t) : ~Spells(SplitWords(t), i, CommonNames \ Ambiguous)
<1> DEFINE y == MaskText(x).text
           words == SplitWords(y)
           kept == MaskedWords(words)
           t == MaskAll(x).text
<1>1. y \in Seq(Tokens)
  BY MaskTextRestores DEF Restored, Done
<1>2. t = JoinWords(kept)
  BY MaskNamesParts DEF MaskAll
<1> HIDE DEF y
<1>3. /\ words \in Seq(Words) /\ DOMAIN words = 1..Len(words) /\ Len(words) \in Nat
      /\ \A i \in DOMAIN words : words[i] \in Seq(Tokens)
  <2>1. words \in Seq(Words)
    BY <1>1, NormType
  <2> HIDE DEF words
  <2>. QED BY <2>1, WordsAt
<1> HIDE DEF words
<1>4. /\ DOMAIN kept = 1..Len(words) /\ \A i \in 1..Len(words) : kept[i] = MaskedWord(words, i)
      /\ kept \in Seq(Words)
  <2>1. \A i \in 1..Len(words) : MaskedWord(words, i) \in Words
    BY <1>3, NoNameIsLeft
  <2>2. /\ kept \in [1..Len(words) -> Words]
        /\ DOMAIN kept = 1..Len(words) /\ \A i \in 1..Len(words) : kept[i] = MaskedWord(words, i)
    BY <1>3, <2>1 DEF MaskedWords
  <2> HIDE DEF kept
  <2>. QED BY <1>3, <2>2, SequenceOf
<1> HIDE DEF kept, t
<1>5. ASSUME NEW i \in DOMAIN SplitWords(t) PROVE ~Spells(SplitWords(t), i, CommonNames \ Ambiguous)
  <2>1. SplitWords(t) = kept
    BY <1>2, <1>4, SplitJoin
  <2>2. i \in 1..Len(words) /\ SplitWords(t)[i] = MaskedWord(words, i)
    BY <1>4, <1>5, <2>1
  <2>. QED BY <1>3, <2>2, NoNameIsLeft DEF Spells
<1>6. ASSUME NEW i \in DOMAIN SplitWords(x), Strip(SplitWords(x)[i]) \in DOMAIN PiiOf
      PROVE  Find(Strip(SplitWords(x)[i]), t) = 0
  <2> DEFINE v == Strip(SplitWords(x)[i])
  <2>1. v \in ToSet(Found(x)) /\ v \in Seq(Solid)
    BY <1>6, ValuesAreFound
  <2>2. v \in Seq(Written) /\ v # <<>> /\ v \in Seq(Tokens)
    BY <1>6, PatternsAssumption, WrittenTokens
  <2> HIDE DEF v
  <2>3. Free(y, v)
    BY <2>1, FoundIsFree DEF y
  <2>4. AllFree(words, v)
    BY <1>1, <2>2, <2>3, WordsFree DEF words
  <2>5. ASSUME NEW k \in 1..Len(words) PROVE Free(MaskedWord(words, k), v)
    <3>1. Free(words[k], v) /\ words[k] \in Seq(Tokens)
      BY <1>3, <2>4 DEF AllFree
    <3>2. CASE ~IsName(words, k)
      BY <3>1, <3>2 DEF MaskedWord
    <3>3. CASE IsName(words, k)
      <4> DEFINE p == NameAt(words, k)
                 s == Strip(words[k])
                 w == words[k]
      <4>1. p \in Tokens /\ p \notin Written
        BY <1>3, <3>3, NameAtToken
      <4>2. s \in Seq(Tokens) /\ s # <<>>
        BY <1>3, <3>3, NameWord, WrittenTokens DEF Words
      <4>3. MaskedWord(words, k) = Replace(w, s, <<p>>)
        BY <3>3 DEF MaskedWord
      <4> HIDE DEF p, s, w
      <4>4. p \notin ToSet(v)
        BY <2>2, <4>1 DEF ToSet
      <4>5. w \in Seq(Tokens) /\ Free(w, v)
        BY <3>1 DEF w
      <4>6. Free(Replace(w, s, <<p>>), v)
        BY <2>2, <4>1, <4>2, <4>4, <4>5, ReplaceFree
      <4>. QED BY <4>3, <4>6
    <3>. QED BY <3>2, <3>3
  <2>6. AllFree(kept, v)
    BY <1>4, <2>5 DEF AllFree
  <2>7. kept \in Seq(Seq(Tokens))
    <3>1. Seq(Words) \subseteq Seq(Seq(Tokens))
      BY SolidTokens
    <3>. QED BY <1>4, <3>1
  <2>8. Free(t, v) /\ t \in Seq(Tokens)
    <3>1. Free(JoinWords(kept), v)
      BY <2>1, <2>2, <2>6, <2>7, JoinFree
    <3>2. JoinWords(kept) \in Seq(Tokens)
      BY <2>7, SpacedType
    <3>. QED BY <1>2, <3>1, <3>2
  <2>9. Find(v, t) = 0
    BY <2>2, <2>8, FreeIsNotFound
  <2>. QED BY <2>9 DEF v
<1>. QED BY <1>5, <1>6 DEF t

LEMMA MaskLeavesNothing ==
  ASSUME IInv, StepMask
  PROVE  NothingKnown'
<1>1. raw \in Seq(Tokens) /\ masked' = MaskAll(raw).text /\ raw' = raw
  BY TextsAssumption DEF IInv, StepMask
<1>2. /\ \A i \in DOMAIN SplitWords(raw) :
           Strip(SplitWords(raw)[i]) \in DOMAIN PiiOf => Find(Strip(SplitWords(raw)[i]), masked') = 0
      /\ \A i \in DOMAIN SplitWords(masked') : ~Spells(SplitWords(masked'), i, CommonNames \ Ambiguous)
  BY <1>1, MaskingLeavesNothing
<1>. QED BY <1>1, <1>2 DEF NothingKnown

-----------------------------------------------------------------------------
(* Where the atoms of a text come to stand in another.                      *)

SolidAt(u) == {i \in DOMAIN u : u[i] \notin White}

\* p[i] atoms of v stand for the first i atoms of u.  An atom of K is carried over,
\* any other that is not white space becomes one or more that are not, and the rest
\* of v is white space.
Carries(p, u, v, K) ==
    /\ p \in [0..Len(u) -> 0..Len(v)] /\ p[0] = 0 /\ p[Len(u)] = Len(v)
    /\ \A i, k \in 0..Len(u) : i <= k => p[i] <= p[k]
    /\ K \subseteq SolidAt(u)
    /\ \A i \in SolidAt(u) : p[i - 1] < p[i] /\ v[p[i]] \notin White
    /\ \A i \in K : v[p[i]] = u[i]
    /\ \A l \in SolidAt(v) : \E i \in SolidAt(u) : p[i - 1] < l /\ l <= p[i] /\ (i \in K => l = p[i])

WidthOf(a) == IF a.nr = 0 THEN Width[a.word] ELSE PlaceholderWidth[a.word]

\* As many atoms, and each as wide, stand between i and k and where they are carried.
SameGap(p, u, v, i, k) ==
    /\ p[k] = p[i] + (k - i)
    /\ \A l \in i..k : WidthOf(v[p[i] + (l - i)]) = WidthOf(u[l])

\* The same stands directly before and behind, up to which white space it is.
SameSides(u, i, v, j) ==
    /\ (i = 1 \/ u[i - 1] \in White) <=> (j = 1 \/ v[j - 1] \in White)
    /\ i > 1 /\ u[i - 1] \notin White => j > 1 /\ v[j - 1] = u[i - 1]
    /\ (i = Len(u) \/ u[i + 1] \in White) <=> (j = Len(v) \/ v[j + 1] \in White)
    /\ i < Len(u) /\ u[i + 1] \notin White => j < Len(v) /\ v[j + 1] = u[i + 1]

SumTo(width, n) ==
    LET upto[m \in 0..n] == IF m = 0 THEN 0 ELSE upto[m - 1] + width[m]
    IN  upto[n]

\* Atom for atom as wide, all in all as wide.
LEMMA CharsSame ==
  ASSUME NEW s \in Seq(Tokens), NEW t \in Seq(Tokens), Len(s) = Len(t),
         \A i \in 1..Len(s) : WidthOf(s[i]) = WidthOf(t[i])
  PROVE  Chars(s) = Chars(t)
<1> DEFINE W(x) == [i \in DOMAIN x |-> WidthOf(x[i])]
<1>1. ASSUME NEW x PROVE Chars(x) = SumTo(W(x), Len(x))
  BY DEF Chars, SumTo, WidthOf
<1>2. W(s) = W(t)
  <2>1. DOMAIN s = 1..Len(s) /\ DOMAIN t = 1..Len(s)
    OBVIOUS
  <2> HIDE DEF WidthOf
  <2>. QED BY <2>1
<1> HIDE DEF W
<1>3. Chars(s) = SumTo(W(s), Len(s)) /\ Chars(t) = SumTo(W(t), Len(t))
  BY <1>1
<1>. QED BY <1>2, <1>3, Zenon

\* A gap that is carried as it is has its length.
LEMMA GapChars ==
  ASSUME NEW u \in Seq(Tokens), NEW v \in Seq(Tokens), NEW K, NEW p, Carries(p, u, v, K),
         NEW i \in 1..Len(u), NEW k \in 1..Len(u), i < k, 1 <= p[i], SameGap(p, u, v, i, k)
  PROVE  /\ Chars(SubSeq(u, i + 1, k)) = Chars(SubSeq(v, p[i] + 1, p[k]))
         /\ Chars(SubSeq(u, i, k - 1)) = Chars(SubSeq(v, p[i], p[k] - 1))
<1> DEFINE n == k - i
           a == p[i]
<1>1. /\ Len(u) \in Nat /\ Len(v) \in Nat /\ i \in Nat /\ k \in Nat /\ n \in Nat /\ k = i + n
      /\ a \in Nat /\ p[k] = a + n /\ a + n <= Len(v) /\ i + n <= Len(u) /\ 1 <= a /\ 1 <= n
      /\ \A m \in 0..n : WidthOf(v[a + m]) = WidthOf(u[i + m])
  <2>1. p[i] \in 0..Len(v) /\ p[k] \in 0..Len(v) /\ i \in 0..Len(u) /\ k \in 0..Len(u) /\ Len(u) \in Nat /\ Len(v) \in Nat
    BY DEF Carries
  <2>2. ASSUME NEW m \in 0..n PROVE WidthOf(v[a + m]) = WidthOf(u[i + m])
    <3>1. i + m \in i..k /\ (i + m) - i = m
      BY <2>1
    <3> HIDE DEF WidthOf
    <3>2. WidthOf(v[p[i] + ((i + m) - i)]) = WidthOf(u[i + m])
      BY <3>1 DEF SameGap
    <3>. QED BY <3>1, <3>2
  <2> HIDE DEF WidthOf
  <2>. QED BY <2>1, <2>2 DEF SameGap
<1> HIDE DEF n, a, WidthOf
<1>2. ASSUME NEW d \in {0, 1}
      PROVE  Chars(SubSeq(u, i + d, i + d + (n - 1))) = Chars(SubSeq(v, a + d, a + d + (n - 1)))
  <2> DEFINE s == SubSeq(u, i + d, i + d + (n - 1))
             t == SubSeq(v, a + d, a + d + (n - 1))
  <2>1. s \in Seq(Tokens) /\ Len(s) = n /\ \A m \in 1..n : s[m] = u[i + (d + m - 1)]
    BY <1>1
  <2>2. t \in Seq(Tokens) /\ Len(t) = n /\ \A m \in 1..n : t[m] = v[a + (d + m - 1)]
    BY <1>1
  <2>3. ASSUME NEW m \in 1..n PROVE WidthOf(s[m]) = WidthOf(t[m])
    <3>1. d + m - 1 \in 0..n
      BY <1>1
    <3>2. WidthOf(v[a + (d + m - 1)]) = WidthOf(u[i + (d + m - 1)])
      BY <1>1, <3>1
    <3>. QED BY <2>1, <2>2, <3>2
  <2> HIDE DEF s, t
  <2>4. Chars(s) = Chars(t)
    BY <2>1, <2>2, <2>3, CharsSame
  <2>. QED BY <2>4 DEF s, t
<1>3. /\ i + 1 + (n - 1) = k /\ a + 1 + (n - 1) = p[k] /\ i + 0 + (n - 1) = k - 1 /\ a + 0 + (n - 1) = p[k] - 1
      /\ i + 0 = i /\ a + 0 = a
  BY <1>1
<1>6. a = p[i]
  BY DEF a
<1>4. Chars(SubSeq(u, i + 1, k)) = Chars(SubSeq(v, p[i] + 1, p[k]))
  <2>1. Chars(SubSeq(u, i + 1, i + 1 + (n - 1))) = Chars(SubSeq(v, a + 1, a + 1 + (n - 1)))
    BY <1>2
  <2>. QED BY <1>3, <1>6, <2>1, Zenon
<1>5. Chars(SubSeq(u, i, k - 1)) = Chars(SubSeq(v, p[i], p[k] - 1))
  <2>1. Chars(SubSeq(u, i + 0, i + 0 + (n - 1))) = Chars(SubSeq(v, a + 0, a + 0 + (n - 1)))
    BY <1>2
  <2>. QED BY <1>3, <1>6, <2>1, Zenon
<1>. QED BY <1>4, <1>5

\* Where an atom is carried, and in which order.
LEMMA CarriedAt ==
  ASSUME NEW u \in Seq(Tokens), NEW v \in Seq(Tokens), NEW K, NEW p, Carries(p, u, v, K)
  PROVE  /\ Len(u) \in Nat /\ Len(v) \in Nat
         /\ \A i \in 0..Len(u) : p[i] \in 0..Len(v)
         /\ \A i \in K : i \in 1..Len(u) /\ i \in SolidAt(u)
         /\ \A i \in SolidAt(u) : i \in 1..Len(u) /\ i - 1 \in 0..Len(u) /\ p[i] \in 1..Len(v) /\ p[i - 1] < p[i]
         /\ \A i \in 0..Len(u), k \in SolidAt(u) : i < k => p[i] <= p[k - 1] /\ p[i] < p[k]
         /\ \A i \in 0..Len(u), k \in 0..Len(u) : p[i] < p[k] => i < k
<1>1. Len(u) \in Nat /\ Len(v) \in Nat /\ \A i \in 0..Len(u) : p[i] \in 0..Len(v)
  <2>1. p \in [0..Len(u) -> 0..Len(v)]
    BY DEF Carries
  <2>. QED BY <2>1
<1>2. \A i \in K : i \in 1..Len(u) /\ i \in SolidAt(u)
  <2>1. DOMAIN u = 1..Len(u) /\ K \subseteq SolidAt(u) /\ SolidAt(u) \subseteq DOMAIN u
    BY DEF Carries, SolidAt
  <2>. QED BY <2>1
<1>3. ASSUME NEW i \in SolidAt(u)
      PROVE  i \in 1..Len(u) /\ i - 1 \in 0..Len(u) /\ p[i] \in 1..Len(v) /\ p[i - 1] < p[i]
  <2>1. i \in 1..Len(u) /\ i - 1 \in 0..Len(u) /\ i \in 0..Len(u)
    BY <1>1 DEF SolidAt
  <2>2. p[i - 1] < p[i]
    BY DEF Carries
  <2>3. p[i - 1] \in 0..Len(v) /\ p[i] \in 0..Len(v)
    BY <1>1, <2>1
  <2>. QED BY <1>1, <2>1, <2>2, <2>3
<1>4. ASSUME NEW i \in 0..Len(u), NEW k \in SolidAt(u), i < k PROVE p[i] <= p[k - 1] /\ p[i] < p[k]
  <2>1. k - 1 \in 0..Len(u) /\ k \in 1..Len(u) /\ p[k - 1] < p[k]
    BY <1>3
  <2>2. i <= k - 1
    BY <1>1, <1>4, <2>1
  <2>3. p[i] <= p[k - 1]
    BY <2>1, <2>2 DEF Carries
  <2>4. p[i] \in Nat /\ p[k] \in Nat /\ p[k - 1] \in Nat
    BY <1>1, <2>1
  <2>. QED BY <2>1, <2>3, <2>4
<1>5. ASSUME NEW i \in 0..Len(u), NEW k \in 0..Len(u), p[i] < p[k] PROVE i < k
  <2> SUFFICES ASSUME k <= i PROVE FALSE
    BY <1>1
  <2>1. p[k] <= p[i]
    BY DEF Carries
  <2>. QED BY <1>1, <1>5, <2>1
<1>. QED BY <1>1, <1>2, <1>3, <1>4, <1>5

\* Between two atoms that are carried over there is nothing but white space where
\* there was nothing but white space.
LEMMA BlankSame ==
  ASSUME NEW u \in Seq(Tokens), NEW v \in Seq(Tokens), NEW K, NEW p, Carries(p, u, v, K),
         NEW i \in K, NEW k \in K, i < k
  PROVE  Blank(u, i + 1, k - 1) <=> Blank(v, p[i] + 1, p[k] - 1)
<1>0. /\ Len(u) \in Nat /\ Len(v) \in Nat /\ i \in 1..Len(u) /\ k \in 1..Len(u) /\ p[i] \in 1..Len(v) /\ p[k] \in 1..Len(v)
      /\ i \in SolidAt(u) /\ k \in SolidAt(u)
  BY CarriedAt
<1>1. ASSUME Blank(v, p[i] + 1, p[k] - 1), NEW m \in (i + 1)..(k - 1) PROVE u[m] \in White
  <2> SUFFICES ASSUME u[m] \notin White PROVE FALSE
    OBVIOUS
  <2>1. m \in SolidAt(u) /\ i < m /\ m < k /\ m \in 0..Len(u) /\ i \in 0..Len(u)
    BY <1>0 DEF SolidAt
  <2>2. p[i] < p[m] /\ p[m] < p[k] /\ p[m] \in 1..Len(v)
    BY <1>0, <2>1, CarriedAt
  <2>3. v[p[m]] \notin White
    BY <2>1 DEF Carries
  <2>4. p[m] \in (p[i] + 1)..(p[k] - 1)
    BY <1>0, <2>2
  <2>. QED BY <1>1, <2>3, <2>4 DEF Blank
<1>2. ASSUME Blank(u, i + 1, k - 1), NEW l \in (p[i] + 1)..(p[k] - 1) PROVE v[l] \in White
  <2> SUFFICES ASSUME v[l] \notin White PROVE FALSE
    OBVIOUS
  <2>0. l \in SolidAt(v) /\ p[i] < l /\ l < p[k] /\ l \in Nat
    BY <1>0 DEF SolidAt
  <2>1. PICK m \in SolidAt(u) : p[m - 1] < l /\ l <= p[m] /\ (m \in K => l = p[m])
    BY <2>0 DEF Carries
  <2>2. m \in 1..Len(u) /\ m - 1 \in 0..Len(u) /\ p[m] \in 1..Len(v) /\ p[m - 1] \in 0..Len(v)
    BY CarriedAt
  <2>3. p[i] < p[m] /\ p[m - 1] < p[k]
    <3>1. p[i] \in Nat /\ p[m] \in Nat /\ p[m - 1] \in Nat /\ p[k] \in Nat
      <4>1. 1..Len(v) \subseteq Nat /\ 0..Len(v) \subseteq Nat
        BY <1>0
      <4>. QED BY <1>0, <2>2, <4>1, Zenon
    <3>2. p[m - 1] < l /\ l <= p[m]
      BY <2>1
    <3>. QED BY <2>0, <3>1, <3>2
  <2>4. i < m /\ m - 1 < k
    <3>1. i \in 0..Len(u) /\ k \in 0..Len(u) /\ m \in 0..Len(u)
      BY <1>0, <2>2
    <3>. QED BY <2>2, <2>3, <3>1, CarriedAt
  <2>5. m # k
    BY <2>0, <2>1, <1>0
  <2>6. m \in (i + 1)..(k - 1)
    BY <1>0, <2>2, <2>4, <2>5
  <2>. QED BY <1>2, <2>6 DEF Blank, SolidAt
<1>. QED BY <1>1, <1>2 DEF Blank

\* Nor does anything follow where nothing followed.
LEMMA BlankEnd ==
  ASSUME NEW u \in Seq(Tokens), NEW v \in Seq(Tokens), NEW K, NEW p, Carries(p, u, v, K), NEW i \in K
  PROVE  Blank(u, i + 1, Len(u)) <=> Blank(v, p[i] + 1, Len(v))
<1>0. Len(u) \in Nat /\ Len(v) \in Nat /\ i \in 1..Len(u) /\ p[i] \in 1..Len(v) /\ i \in SolidAt(u)
  BY CarriedAt
<1>1. ASSUME Blank(v, p[i] + 1, Len(v)), NEW m \in (i + 1)..Len(u) PROVE u[m] \in White
  <2> SUFFICES ASSUME u[m] \notin White PROVE FALSE
    OBVIOUS
  <2>1. m \in SolidAt(u) /\ i < m /\ i \in 0..Len(u)
    BY <1>0 DEF SolidAt
  <2>2. p[i] < p[m] /\ p[m] \in 1..Len(v)
    BY <1>0, <2>1, CarriedAt
  <2>3. v[p[m]] \notin White
    BY <2>1 DEF Carries
  <2>4. p[m] \in (p[i] + 1)..Len(v)
    BY <1>0, <2>2
  <2>. QED BY <1>1, <2>3, <2>4 DEF Blank
<1>2. ASSUME Blank(u, i + 1, Len(u)), NEW l \in (p[i] + 1)..Len(v) PROVE v[l] \in White
  <2> SUFFICES ASSUME v[l] \notin White PROVE FALSE
    OBVIOUS
  <2>0. l \in SolidAt(v) /\ p[i] < l /\ l \in Nat
    BY <1>0 DEF SolidAt
  <2>1. PICK m \in SolidAt(u) : p[m - 1] < l /\ l <= p[m] /\ (m \in K => l = p[m])
    BY <2>0 DEF Carries
  <2>2. m \in 1..Len(u) /\ p[m] \in 1..Len(v)
    BY CarriedAt
  <2>3. p[i] < p[m]
    BY <1>0, <2>0, <2>1, <2>2
  <2>4. i < m
    <3>1. i \in 0..Len(u) /\ m \in 0..Len(u)
      BY <1>0, <2>2
    <3>. QED BY <2>3, <3>1, CarriedAt
  <2>5. m \in (i + 1)..Len(u)
    BY <1>0, <2>2, <2>4
  <2>. QED BY <1>2, <2>5 DEF Blank, SolidAt
<1>. QED BY <1>1, <1>2 DEF Blank

-----------------------------------------------------------------------------
(* The guards of a term that is carried over.                               *)

\* A word of D is one that is carried over, in both texts.
Sees(p, u, v, K, D) ==
    /\ \A k \in DOMAIN u : u[k] \in D => k \in K
    /\ \A l \in DOMAIN v : v[l] \in D => \E k \in K : l = p[k]

\* Words that are carried over at their distance are in the window in both texts.
LEMMA FarSame ==
  ASSUME NEW u \in Seq(Tokens), NEW v \in Seq(Tokens), NEW K, NEW p, Carries(p, u, v, K),
         NEW i \in K, NEW dictionary, Sees(p, u, v, K, Atoms(dictionary)),
         \A k \in K : u[k] \in Atoms(dictionary) =>
           (i < k => SameGap(p, u, v, i, k)) /\ (k < i => SameGap(p, u, v, k, i))
  PROVE  /\ After(u, i, dictionary) <=> After(v, p[i], dictionary)
         /\ Before(u, i, dictionary) <=> Before(v, p[i], dictionary)
<1>0. /\ Len(u) \in Nat /\ Len(v) \in Nat /\ i \in 1..Len(u) /\ p[i] \in 1..Len(v)
      /\ DOMAIN u = 1..Len(u) /\ DOMAIN v = 1..Len(v)
  BY CarriedAt
<1>1. ASSUME NEW k \in K
      PROVE  /\ k \in 1..Len(u) /\ p[k] \in 1..Len(v) /\ v[p[k]] = u[k]
             /\ i < k <=> p[i] < p[k]
             /\ k < i <=> p[k] < p[i]
             /\ u[k] \in Atoms(dictionary) =>
                  /\ i < k => Chars(SubSeq(u, i + 1, k)) = Chars(SubSeq(v, p[i] + 1, p[k]))
                  /\ k < i => Chars(SubSeq(u, k, i - 1)) = Chars(SubSeq(v, p[k], p[i] - 1))
  <2>1. k \in 1..Len(u) /\ p[k] \in 1..Len(v) /\ k \in SolidAt(u) /\ i \in SolidAt(u) /\ k \in 0..Len(u) /\ i \in 0..Len(u)
    BY CarriedAt
  <2>2. v[p[k]] = u[k]
    BY DEF Carries
  <2>3. (i < k <=> p[i] < p[k]) /\ (k < i <=> p[k] < p[i])
    BY <2>1, CarriedAt
  <2>4. ASSUME u[k] \in Atoms(dictionary), i < k
        PROVE  Chars(SubSeq(u, i + 1, k)) = Chars(SubSeq(v, p[i] + 1, p[k]))
    <3>1. SameGap(p, u, v, i, k) /\ 1 <= p[i]
      BY <1>0, <2>4
    <3>. QED BY <1>0, <2>1, <2>4, <3>1, GapChars
  <2>5. ASSUME u[k] \in Atoms(dictionary), k < i
        PROVE  Chars(SubSeq(u, k, i - 1)) = Chars(SubSeq(v, p[k], p[i] - 1))
    <3>1. SameGap(p, u, v, k, i) /\ 1 <= p[k]
      BY <2>1, <2>5
    <3>. QED BY <1>0, <2>1, <2>5, <3>1, GapChars
  <2>. QED BY <2>1, <2>2, <2>3, <2>4, <2>5
<1>2. After(u, i, dictionary) <=>
        \E k \in K : i < k /\ u[k] \in Atoms(dictionary) /\ Chars(SubSeq(u, i + 1, k)) <= Window
  <2>1. ASSUME NEW k \in (i + 1)..Len(u), u[k] \in Atoms(dictionary) PROVE k \in K /\ i < k
    BY <1>0, <2>1 DEF Sees
  <2>2. ASSUME NEW k \in K, i < k PROVE k \in (i + 1)..Len(u)
    BY <1>0, <1>1, <2>2
  <2>. QED BY <2>1, <2>2, Zenon DEF After
<1>3. After(v, p[i], dictionary) <=>
        \E k \in K : p[i] < p[k] /\ v[p[k]] \in Atoms(dictionary) /\ Chars(SubSeq(v, p[i] + 1, p[k])) <= Window
  <2>1. ASSUME NEW l \in (p[i] + 1)..Len(v), v[l] \in Atoms(dictionary) PROVE \E k \in K : l = p[k] /\ p[i] < p[k]
    <3>1. l \in DOMAIN v /\ p[i] < l
      BY <1>0
    <3>. QED BY <2>1, <3>1 DEF Sees
  <2>2. ASSUME NEW k \in K, p[i] < p[k] PROVE p[k] \in (p[i] + 1)..Len(v)
    BY <1>0, <1>1, <2>2
  <2>. QED BY <2>1, <2>2, Zenon DEF After
<1>4. Before(u, i, dictionary) <=>
        \E k \in K : k < i /\ u[k] \in Atoms(dictionary) /\ Chars(SubSeq(u, k, i - 1)) <= Window
  <2>1. ASSUME NEW k \in 1..(i - 1), u[k] \in Atoms(dictionary) PROVE k \in K /\ k < i
    BY <1>0, <2>1 DEF Sees
  <2>2. ASSUME NEW k \in K, k < i PROVE k \in 1..(i - 1)
    BY <1>0, <1>1, <2>2
  <2>. QED BY <2>1, <2>2, Zenon DEF Before
<1>5. Before(v, p[i], dictionary) <=>
        \E k \in K : p[k] < p[i] /\ v[p[k]] \in Atoms(dictionary) /\ Chars(SubSeq(v, p[k], p[i] - 1)) <= Window
  <2>1. ASSUME NEW l \in 1..(p[i] - 1), v[l] \in Atoms(dictionary) PROVE \E k \in K : l = p[k] /\ p[k] < p[i]
    <3>1. l \in DOMAIN v /\ l < p[i]
      BY <1>0
    <3>. QED BY <2>1, <3>1 DEF Sees
  <2>2. ASSUME NEW k \in K, p[k] < p[i] PROVE p[k] \in 1..(p[i] - 1)
    BY <1>0, <1>1, <2>2
  <2>. QED BY <2>1, <2>2, Zenon DEF Before
<1>6. After(u, i, dictionary) <=> After(v, p[i], dictionary)
  BY <1>1, <1>2, <1>3, Zenon
<1>7. Before(u, i, dictionary) <=> Before(v, p[i], dictionary)
  BY <1>1, <1>4, <1>5, Zenon
<1>. QED BY <1>6, <1>7

\* The rules look for words.
LEMMA GuardsBlank ==
  ASSUME NEW D \in {Negations, CareActions, Questions, NegationSuffixes, InjuryTerms}
  PROVE  \A a \in Atoms(D) : a \notin White /\ a.nr = 0
BY DictionariesAssumption DEF Atoms, White, Space, NewLine, Atom

\* A question particle follows in both texts.
LEMMA AskedSame ==
  ASSUME NEW u \in Seq(Tokens), NEW v \in Seq(Tokens), NEW K, NEW p, Carries(p, u, v, K),
         NEW i \in K, Sees(p, u, v, K, Atoms(Questions)),
         \A k \in K : u[k] \in Atoms(Questions) /\ i < k /\ Blank(u, i + 1, k - 1) => SameGap(p, u, v, i, k)
  PROVE  Asked(u, i) <=> Asked(v, p[i])
<1>0. /\ Len(u) \in Nat /\ Len(v) \in Nat /\ i \in 1..Len(u) /\ p[i] \in 1..Len(v)
      /\ DOMAIN u = 1..Len(u) /\ DOMAIN v = 1..Len(v) /\ i \in 0..Len(u)
  BY CarriedAt
<1> DEFINE Asks(k) == u[k] \in Atoms(Questions) /\ Blank(u, i + 1, k - 1) /\ Chars(SubSeq(u, i + 1, k)) <= Window
           AsksThere(k) == /\ v[p[k]] \in Atoms(Questions) /\ Blank(v, p[i] + 1, p[k] - 1)
                           /\ Chars(SubSeq(v, p[i] + 1, p[k])) <= Window
<1>1. ASSUME NEW k \in K
      PROVE  /\ k \in 1..Len(u) /\ p[k] \in 1..Len(v)
             /\ i < k <=> p[i] < p[k]
             /\ i < k => (Asks(k) <=> AsksThere(k))
  <2>1. k \in 1..Len(u) /\ p[k] \in 1..Len(v) /\ k \in SolidAt(u) /\ k \in 0..Len(u)
    BY CarriedAt
  <2>2. v[p[k]] = u[k]
    BY DEF Carries
  <2>3. i < k <=> p[i] < p[k]
    BY <1>0, <2>1, CarriedAt
  <2>4. i < k => (Blank(u, i + 1, k - 1) <=> Blank(v, p[i] + 1, p[k] - 1))
    BY BlankSame
  <2>5. ASSUME i < k, u[k] \in Atoms(Questions), Blank(u, i + 1, k - 1)
        PROVE  Chars(SubSeq(u, i + 1, k)) = Chars(SubSeq(v, p[i] + 1, p[k]))
    <3>1. SameGap(p, u, v, i, k) /\ 1 <= p[i]
      BY <1>0, <2>5
    <3>. QED BY <1>0, <2>1, <2>5, <3>1, GapChars
  <2>6. i < k => (Asks(k) <=> AsksThere(k))
    BY <2>2, <2>4, <2>5, Zenon
  <2>. QED BY <2>1, <2>3, <2>6
<1>2. Asked(u, i) <=> \E k \in K : i < k /\ Asks(k)
  <2>1. ASSUME NEW k \in (i + 1)..Len(u), u[k] \in Atoms(Questions) PROVE k \in K /\ i < k
    BY <1>0, <2>1 DEF Sees
  <2>2. ASSUME NEW k \in K, i < k PROVE k \in (i + 1)..Len(u)
    BY <1>0, <1>1, <2>2
  <2>. QED BY <2>1, <2>2, Zenon DEF Asked
<1>3. Asked(v, p[i]) <=> \E k \in K : p[i] < p[k] /\ AsksThere(k)
  <2>1. ASSUME NEW l \in (p[i] + 1)..Len(v), v[l] \in Atoms(Questions) PROVE \E k \in K : l = p[k] /\ p[i] < p[k]
    <3>1. l \in DOMAIN v /\ p[i] < l
      BY <1>0
    <3>. QED BY <2>1, <3>1 DEF Sees
  <2>2. ASSUME NEW k \in K, p[i] < p[k] PROVE p[k] \in (p[i] + 1)..Len(v)
    BY <1>0, <1>1, <2>2
  <2>. QED BY <2>1, <2>2, Zenon DEF Asked
<1> HIDE DEF Asks, AsksThere
<1>. QED BY <1>1, <1>2, <1>3, Zenon

\* In a text of one line only the end of the text ends a form field.
OneLine(t) == \A i \in DOMAIN t : t[i] # NewLine

LEMMA EmptyOneLine ==
  ASSUME NEW t \in Seq(Tokens), OneLine(t), NEW i \in 1..Len(t)
  PROVE  EmptyField(t, i) <=>
           \E k \in (i + 1)..Len(t) : t[k] = Colon /\ Blank(t, i + 1, k - 1) /\ Blank(t, k + 1, Len(t))
<1>1. ASSUME NEW k \in (i + 1)..Len(t), NEW n \in (k + 1)..Len(t) PROVE t[n] # NewLine
  <2>1. n \in DOMAIN t
    OBVIOUS
  <2>. QED BY <2>1 DEF OneLine
<1>. QED BY <1>1, Zenon DEF EmptyField

LEMMA EmptyIfBlank ==
  ASSUME NEW t, NEW i, NEW k \in (i + 1)..Len(t),
         t[k] = Colon, Blank(t, i + 1, k - 1), Blank(t, k + 1, Len(t))
  PROVE  EmptyField(t, i)
BY Zenon DEF EmptyField

\* An empty field in one of them is an empty field in the other.
LEMMA EmptySame ==
  ASSUME NEW u \in Seq(Tokens), NEW v \in Seq(Tokens), NEW K, NEW p, Carries(p, u, v, K),
         NEW i \in K, Sees(p, u, v, K, {Colon})
  PROVE  /\ OneLine(v) /\ EmptyField(v, p[i]) => EmptyField(u, i)
         /\ OneLine(u) /\ EmptyField(u, i) => EmptyField(v, p[i])
<1>0. /\ Len(u) \in Nat /\ Len(v) \in Nat /\ i \in 1..Len(u) /\ p[i] \in 1..Len(v)
      /\ DOMAIN u = 1..Len(u) /\ DOMAIN v = 1..Len(v) /\ i \in 0..Len(u)
  BY CarriedAt
<1>1. ASSUME NEW k \in K
      PROVE  /\ k \in 1..Len(u) /\ p[k] \in 1..Len(v) /\ v[p[k]] = u[k]
             /\ i < k <=> p[i] < p[k]
             /\ i < k => (Blank(u, i + 1, k - 1) <=> Blank(v, p[i] + 1, p[k] - 1))
             /\ Blank(u, k + 1, Len(u)) <=> Blank(v, p[k] + 1, Len(v))
  <2>1. k \in 1..Len(u) /\ p[k] \in 1..Len(v) /\ k \in SolidAt(u) /\ k \in 0..Len(u)
    BY CarriedAt
  <2>2. v[p[k]] = u[k]
    BY DEF Carries
  <2>3. i < k <=> p[i] < p[k]
    BY <1>0, <2>1, CarriedAt
  <2>4. i < k => (Blank(u, i + 1, k - 1) <=> Blank(v, p[i] + 1, p[k] - 1))
    BY BlankSame
  <2>5. Blank(u, k + 1, Len(u)) <=> Blank(v, p[k] + 1, Len(v))
    BY BlankEnd
  <2>. QED BY <2>1, <2>2, <2>3, <2>4, <2>5
<1>2. ASSUME OneLine(v), EmptyField(v, p[i]) PROVE EmptyField(u, i)
  <2>1. PICK l \in (p[i] + 1)..Len(v) : v[l] = Colon /\ Blank(v, p[i] + 1, l - 1) /\ Blank(v, l + 1, Len(v))
    BY <1>0, <1>2, EmptyOneLine
  <2>2. l \in DOMAIN v /\ p[i] < l /\ v[l] \in {Colon}
    BY <1>0, <2>1
  <2>3. PICK k \in K : l = p[k]
    BY <2>2 DEF Sees
  <2>4. i < k /\ k \in 1..Len(u) /\ u[k] = Colon
    BY <1>1, <2>1, <2>2, <2>3
  <2>5. k \in (i + 1)..Len(u)
    BY <1>0, <2>4
  <2>6. Blank(u, i + 1, k - 1) /\ Blank(u, k + 1, Len(u))
    BY <1>1, <2>1, <2>3, <2>4
  <2>. QED BY <2>4, <2>5, <2>6, EmptyIfBlank
<1>3. ASSUME OneLine(u), EmptyField(u, i) PROVE EmptyField(v, p[i])
  <2>1. PICK k \in (i + 1)..Len(u) : u[k] = Colon /\ Blank(u, i + 1, k - 1) /\ Blank(u, k + 1, Len(u))
    BY <1>0, <1>3, EmptyOneLine
  <2>2. k \in DOMAIN u /\ i < k /\ u[k] \in {Colon}
    BY <1>0, <2>1
  <2>3. k \in K
    BY <2>2 DEF Sees
  <2>4. p[i] < p[k] /\ p[k] \in 1..Len(v) /\ v[p[k]] = Colon
    BY <1>1, <2>1, <2>2, <2>3
  <2>5. p[k] \in (p[i] + 1)..Len(v)
    BY <1>0, <2>4
  <2>6. Blank(v, p[i] + 1, p[k] - 1) /\ Blank(v, p[k] + 1, Len(v))
    BY <1>1, <2>1, <2>2, <2>3
  <2>. QED BY <2>4, <2>5, <2>6, EmptyIfBlank
<1>. QED BY <1>2, <1>3

\* What the guards of a term see of it in the two texts is the same.
LEMMA GuardsAgree ==
  ASSUME NEW u \in Seq(Tokens), NEW v \in Seq(Tokens), NEW K, NEW p, Carries(p, u, v, K),
         NEW i \in K, SameSides(u, i, v, p[i]),
         Sees(p, u, v, K, Atoms(Negations)), Sees(p, u, v, K, Atoms(CareActions)),
         Sees(p, u, v, K, Atoms(Questions)),
         \A k \in K : u[k] \in FarWords =>
           (i < k => SameGap(p, u, v, i, k)) /\ (k < i => SameGap(p, u, v, k, i)),
         \A k \in K : u[k] \in Atoms(Questions) /\ i < k /\ Blank(u, i + 1, k - 1) => SameGap(p, u, v, i, k),
         ~EmptyField(u, i), ~EmptyField(v, p[i])
  PROVE  Asserts(u, i) <=> Asserts(v, p[i])
<1>0. /\ Len(u) \in Nat /\ Len(v) \in Nat /\ i \in 1..Len(u) /\ p[i] \in 1..Len(v)
  BY CarriedAt
<1>1. v[p[i]] = u[i]
  BY DEF Carries
<1>2. \A k \in K : u[k] \in Atoms(Negations) \/ u[k] \in Atoms(CareActions) => u[k] \in FarWords
  BY DEF FarWords, Atoms
<1>3. ASSUME NEW D \in {Negations, CareActions}
      PROVE  /\ After(u, i, D) <=> After(v, p[i], D)
             /\ Before(u, i, D) <=> Before(v, p[i], D)
  <2>1. Sees(p, u, v, K, Atoms(D))
    OBVIOUS
  <2>2. \A k \in K : u[k] \in Atoms(D) =>
           (i < k => SameGap(p, u, v, i, k)) /\ (k < i => SameGap(p, u, v, k, i))
    BY <1>2
  <2>. QED BY <2>1, <2>2, FarSame
<1>4. Asked(u, i) <=> Asked(v, p[i])
  BY AskedSame
<1>5. StartsWord(u, i) <=> StartsWord(v, p[i])
  <2>1. i - 1 \in 1..Len(u) \/ i = 1
    BY <1>0
  <2>2. p[i] - 1 \in 1..Len(v) \/ p[i] = 1
    BY <1>0
  <2>3. CASE i = 1 \/ u[i - 1] \in White
    BY <2>3 DEF StartsWord, SameSides
  <2>4. CASE ~(i = 1 \/ u[i - 1] \in White)
    <3>1. i > 1 /\ i # 1 /\ u[i - 1] \notin White
      BY <1>0, <2>4
    <3>2. p[i] > 1 /\ v[p[i] - 1] = u[i - 1]
      BY <3>1 DEF SameSides
    <3>3. p[i] # 1
      BY <3>2, <1>0
    <3>. QED BY <3>1, <3>2, <3>3, Zenon DEF StartsWord
  <2>. QED BY <2>3, <2>4
<1>6. ASSUME NEW S, \A a \in White : a \notin S
      PROVE  (i < Len(u) /\ u[i + 1] \in S) <=> (p[i] < Len(v) /\ v[p[i] + 1] \in S)
  <2>3. CASE i = Len(u) \/ u[i + 1] \in White
    <3>1. p[i] = Len(v) \/ v[p[i] + 1] \in White
      BY <2>3 DEF SameSides
    <3>2. ~(i < Len(u) /\ u[i + 1] \in S)
      BY <1>0, <1>6, <2>3
    <3>3. ~(p[i] < Len(v) /\ v[p[i] + 1] \in S)
      BY <1>0, <1>6, <3>1
    <3>. QED BY <3>2, <3>3
  <2>4. CASE ~(i = Len(u) \/ u[i + 1] \in White)
    <3>1. i < Len(u) /\ u[i + 1] \notin White
      BY <1>0, <2>4
    <3>2. p[i] < Len(v) /\ v[p[i] + 1] = u[i + 1]
      BY <3>1 DEF SameSides
    <3>. QED BY <3>1, <3>2, Zenon
  <2>. QED BY <2>3, <2>4
<1>7. Negated(u, i) <=> Negated(v, p[i])
  <2>1. \A a \in White : a \notin Atoms(NegationSuffixes)
    BY GuardsBlank
  <2>2. (i < Len(u) /\ u[i + 1] \in Atoms(NegationSuffixes)) <=> (p[i] < Len(v) /\ v[p[i] + 1] \in Atoms(NegationSuffixes))
    BY <1>6, <2>1
  <2>. QED BY <1>3, <2>2, Zenon DEF Negated
<1>8. Qualifies(u, i) <=> Qualifies(v, p[i])
  <2> DEFINE S == {u[k] : k \in DOMAIN u} \cup {v[k] : k \in DOMAIN v}
             T == {a \in S : a \notin White \cup Punct /\ a.nr = 0}
  <2>1. \A a \in White : a \notin T
    OBVIOUS
  <2>2. (i < Len(u) /\ u[i + 1] \in T) <=> (p[i] < Len(v) /\ v[p[i] + 1] \in T)
    <3> HIDE DEF T
    <3>. QED BY <1>6, <2>1
  <2>3. i < Len(u) => (u[i + 1] \in T <=> u[i + 1] \notin White \cup Punct /\ u[i + 1].nr = 0)
    <3>1. i < Len(u) => i + 1 \in DOMAIN u
      BY <1>0
    <3>. QED BY <3>1
  <2>4. p[i] < Len(v) => (v[p[i] + 1] \in T <=> v[p[i] + 1] \notin White \cup Punct /\ v[p[i] + 1].nr = 0)
    <3>1. p[i] < Len(v) => p[i] + 1 \in DOMAIN v
      BY <1>0
    <3>. QED BY <3>1
  <2> HIDE DEF T
  <2>5. After(u, i, CareActions) <=> After(v, p[i], CareActions)
    BY <1>3
  <2>. QED BY <2>2, <2>3, <2>4, <2>5, Zenon DEF Qualifies
<1>. QED BY <1>1, <1>4, <1>5, <1>7, <1>8, Zenon DEF Asserts

-----------------------------------------------------------------------------
(* Evened out: where the atoms of a text stand once its white space is.     *)

\* White space that is followed by a word, and not the first in the text, leaves a blank.
Leaves(p, x, i) == i > 1 /\ x[i - 1] \in White /\ p[i - 1] > 0

Evens(p, x, n) ==
    /\ p \in [0..Len(x) -> 0..Len(n)] /\ p[0] = 0 /\ p[Len(x)] = Len(n)
    /\ \A i \in 1..Len(x) : x[i] \in White => p[i] = p[i - 1]
    /\ \A i \in 1..Len(x) : x[i] \notin White =>
         /\ n[p[i]] = x[i]
         /\ Leaves(p, x, i) => p[i] = p[i - 1] + 2 /\ n[p[i] - 1] = Space
         /\ ~Leaves(p, x, i) => p[i] = p[i - 1] + 1

Prefix(x, i) == SubSeq(x, 1, i)

LEMMA PrefixGrows ==
  ASSUME NEW x \in Seq(Tokens)
  PROVE  /\ Prefix(x, 0) = <<>> /\ Prefix(x, Len(x)) = x
         /\ \A i \in 0..Len(x) : Prefix(x, i) \in Seq(Tokens)
         /\ \A i \in 1..Len(x) : Prefix(x, i) = Append(Prefix(x, i - 1), x[i]) /\ x[i] \in Tokens
<1>1. Prefix(x, 0) = <<>> /\ Prefix(x, Len(x)) = x
  BY DEF Prefix
<1>2. ASSUME NEW i \in 0..Len(x) PROVE Prefix(x, i) \in Seq(Tokens)
  BY DEF Prefix
<1>3. ASSUME NEW i \in 1..Len(x) PROVE Prefix(x, i) = Append(Prefix(x, i - 1), x[i]) /\ x[i] \in Tokens
  BY DEF Prefix
<1>. QED BY <1>1, <1>2, <1>3

\* A blank is due behind a word once white space has come.
LEMMA StagesOf ==
  ASSUME NEW x \in Seq(Tokens), NEW i \in 0..Len(x)
  PROVE  Gap(Prefix(x, i)) = IF i > 0 /\ x[i] \in White /\ Norm(Prefix(x, i)) # <<>> THEN <<Space>> ELSE <<>>
<1> DEFINE S == {k \in 0..Len(x) : /\ k = 0 => Stage(Prefix(x, k)) = "before"
                                   /\ Stage(Prefix(x, k)) = "before" => Norm(Prefix(x, k)) = <<>>
                                   /\ Stage(Prefix(x, k)) # "before" => k > 0 /\ Norm(Prefix(x, k)) # <<>>
                                   /\ k > 0 => (Stage(Prefix(x, k)) = "within" <=> x[k] \notin White)
                                   /\ Stage(Prefix(x, k)) \in {"within", "behind", "before"}}
<1>0. Len(x) \in Nat
  OBVIOUS
<1>1. 0 \in S
  <2>1. Prefix(x, 0) = <<>>
    BY PrefixGrows
  <2>2. Stage(<<>>) = "before"
    <3>1. <<>> \in Seq(Tokens) /\ 0 \in Nat
      OBVIOUS
    <3>2. Scan(<<>>) = NoScan
      BY <3>1, ScanAppend, Blanks
    <3>. QED BY <3>2 DEF Stage, NoScan
  <2>3. Norm(<<>>) = <<>>
    BY NormEmpty
  <2>. QED BY <1>0, <2>1, <2>2, <2>3
<1>2. ASSUME NEW k \in 1..Len(x), k - 1 \in S PROVE k \in S
  <2> DEFINE y == Prefix(x, k - 1)
             a == x[k]
  <2>1. y \in Seq(Tokens) /\ a \in Tokens /\ Prefix(x, k) = Append(y, a)
    <3>1. k - 1 \in 0..Len(x)
      BY <1>0
    <3>. QED BY <3>1, PrefixGrows
  <2>2. /\ Stage(y) = "before" => Norm(y) = <<>>
        /\ Stage(y) # "before" => Norm(y) # <<>>
        /\ Stage(y) \in {"within", "behind", "before"}
    BY <1>2
  <2> HIDE DEF y, a, S
  <2>3. /\ Stage(Append(y, a)) = IF a \notin White THEN "within"
                                  ELSE IF Stage(y) = "before" THEN "before" ELSE "behind"
        /\ Norm(Append(y, a)) = IF a \in White THEN Norm(y) ELSE Norm(y) \o (Gap(y) \o <<a>>)
    BY <2>1, NormAppend
  <2>4. a \notin White => Norm(Append(y, a)) # <<>>
    <3> SUFFICES ASSUME a \notin White PROVE Norm(Append(y, a)) # <<>>
      OBVIOUS
    <3> DEFINE p == Norm(y)
               g == Gap(y)
    <3>1. p \in Seq(Tokens) /\ g \in Seq(Tokens)
      <4>1. p \in Seq(Tokens)
        BY <2>1, NormType
      <4>2. g \in Seq(Tokens)
        BY Blanks DEF Gap
      <4>. QED BY <4>1, <4>2
    <3> HIDE DEF p, g
    <3>2. p \o (g \o <<a>>) # <<>>
      <4>1. Len(p) \in Nat /\ Len(g) \in Nat /\ <<a>> \in Seq(Tokens)
        BY <2>1, <3>1
      <4>2. g \o <<a>> \in Seq(Tokens) /\ Len(g \o <<a>>) = Len(g) + 1
        BY <2>1, <3>1
      <4>3. Len(p \o (g \o <<a>>)) = Len(p) + (Len(g) + 1)
        BY <3>1, <4>2, ConcatAt
      <4>. QED BY <4>1, <4>3
    <3>. QED BY <2>3, <3>2, Zenon DEF p, g
  <2>5. /\ k > 0 /\ k # 0
        /\ Stage(Append(y, a)) = "before" => Norm(Append(y, a)) = <<>>
        /\ Stage(Append(y, a)) # "before" => Norm(Append(y, a)) # <<>>
        /\ Stage(Append(y, a)) = "within" <=> a \notin White
        /\ Stage(Append(y, a)) \in {"within", "behind", "before"}
    BY <2>2, <2>3, <2>4
  <2>6. k \in 0..Len(x)
    BY <1>0
  <2>. QED BY <2>1, <2>5, <2>6 DEF S, a
<1>3. i \in S
  <2> HIDE DEF S
  <2>1. 0..Len(x) \subseteq S
    BY <1>0, <1>1, <1>2, IntervalInduction
  <2>. QED BY <2>1
<1>. QED BY <1>0, <1>3 DEF Gap

\* Where an atom comes to stand: as far as the prefix up to it reaches, evened out.
LEMMA EvensOut ==
  ASSUME NEW x \in Seq(Tokens)
  PROVE  \E p : Evens(p, x, Norm(x))
<1> DEFINE n == Norm(x)
           N(i) == Norm(Prefix(x, i))
           p == [i \in 0..Len(x) |-> Len(N(i))]
<1>0. Len(x) \in Nat /\ n \in Seq(Tokens) /\ Len(n) \in Nat
  BY NormType
<1>1. ASSUME NEW i \in 0..Len(x)
      PROVE  /\ N(i) \in Seq(Tokens) /\ Len(N(i)) \in 0..Len(n) /\ p[i] = Len(N(i))
             /\ \A l \in 1..Len(N(i)) : n[l] = N(i)[l]
  <2>1. /\ x = Prefix(x, i) \o SubSeq(x, i + 1, Len(x))
        /\ Prefix(x, i) \in Seq(Tokens) /\ SubSeq(x, i + 1, Len(x)) \in Seq(Tokens)
    <3>1. Len(x) \in i..Len(x) /\ SubSeq(x, 1, Len(x)) = x
      BY <1>0
    <3>. QED BY <3>1, SubSeqSplits DEF Prefix
  <2>2. N(i) \in Seq(Tokens)
    BY <2>1, NormType
  <2>3. PICK z \in Seq(Tokens) : n = N(i) \o z
    <3> DEFINE y == Prefix(x, i)
               r == SubSeq(x, i + 1, Len(x))
    <3>1. y \in Seq(Tokens) /\ r \in Seq(Tokens)
      BY <2>1
    <3>2. Norm(y \o r) = n
      BY <2>1
    <3> HIDE DEF y, r, n
    <3>3. \E z \in Seq(Tokens) : Norm(y \o r) = Norm(y) \o z
      BY <3>1, NormPrefix
    <3>. QED BY <3>2, <3>3 DEF y
  <2> HIDE DEF N
  <2>4. Len(n) = Len(N(i)) + Len(z) /\ Len(N(i)) \in Nat /\ Len(z) \in Nat
    BY <2>2, <2>3
  <2>5. \A l \in 1..Len(N(i)) : (N(i) \o z)[l] = N(i)[l]
    BY <2>2, ConcatAt
  <2>. QED BY <2>2, <2>3, <2>4, <2>5
<1>2. p[0] = 0 /\ p[Len(x)] = Len(n)
  <2>1. N(0) = <<>> /\ N(Len(x)) = n
    BY PrefixGrows, NormEmpty
  <2>. QED BY <1>0, <2>1
<1>3. ASSUME NEW i \in 1..Len(x)
      PROVE  /\ x[i] \in White => p[i] = p[i - 1]
             /\ x[i] \notin White =>
                  /\ n[p[i]] = x[i]
                  /\ Leaves(p, x, i) => p[i] = p[i - 1] + 2 /\ n[p[i] - 1] = Space
                  /\ ~Leaves(p, x, i) => p[i] = p[i - 1] + 1
  <2> DEFINE y == Prefix(x, i - 1)
             a == x[i]
             q == Norm(y)
             g == Gap(y)
  <2>0. i \in 0..Len(x) /\ i - 1 \in 0..Len(x)
    BY <1>0
  <2>1. y \in Seq(Tokens) /\ a \in Tokens /\ Prefix(x, i) = Append(y, a)
    BY <2>0, PrefixGrows
  <2>2. N(i) = IF a \in White THEN q ELSE q \o (g \o <<a>>)
    BY <2>1, NormAppend
  <2>3. q \in Seq(Tokens) /\ g \in Seq(Tokens) /\ <<a>> \in Seq(Tokens)
    <3>1. g \in Seq(Tokens)
      BY Blanks DEF Gap
    <3>. QED BY <2>1, <3>1, NormType
  <2>4. q = N(i - 1) /\ p[i - 1] = Len(q) /\ p[i] = Len(N(i)) /\ p[i - 1] \in Nat
    <3>1. q = N(i - 1)
      OBVIOUS
    <3> HIDE DEF N, q, p
    <3>. QED BY <1>0, <1>1, <2>0, <3>1
  <2>5. (g = <<Space>> /\ Leaves(p, x, i)) \/ (g = <<>> /\ ~Leaves(p, x, i))
    <3>1. g = IF i - 1 > 0 /\ x[i - 1] \in White /\ q # <<>> THEN <<Space>> ELSE <<>>
      BY <2>0, StagesOf
    <3> HIDE DEF q, p, g
    <3>2. q # <<>> <=> p[i - 1] > 0
      BY <2>3, <2>4
    <3>. QED BY <2>0, <3>1, <3>2 DEF Leaves
  <2>6. \A l \in 1..Len(N(i)) : n[l] = N(i)[l]
    <3> HIDE DEF N, n, p
    <3>. QED BY <1>1, <2>0
  <2> HIDE DEF y, a, q, g, N, p, n
  <2>7. CASE a \in White
    BY <2>2, <2>4, <2>7 DEF a
  <2>8. CASE a \notin White /\ g = <<Space>> /\ Leaves(p, x, i)
    <3>1. N(i) = q \o (<<Space>> \o <<a>>)
      BY <2>2, <2>8
    <3>2. Len(N(i)) = Len(q) + 2 /\ N(i)[Len(q) + 1] = Space /\ N(i)[Len(q) + 2] = a
      BY <2>1, <2>3, <3>1, Blanks
    <3>3. Len(q) + 1 \in 1..Len(N(i)) /\ Len(q) + 2 \in 1..Len(N(i)) /\ Len(q) \in Nat
      BY <2>3, <3>2
    <3>4. n[Len(q) + 1] = Space /\ n[Len(q) + 2] = a
      BY <2>6, <3>2, <3>3
    <3>5. p[i] = Len(q) + 2 /\ p[i] - 1 = Len(q) + 1 /\ p[i] = p[i - 1] + 2
      BY <2>4, <3>2, <3>3
    <3>. QED BY <2>8, <3>4, <3>5 DEF a
  <2>9. CASE a \notin White /\ g = <<>> /\ ~Leaves(p, x, i)
    <3>1. N(i) = q \o (<<>> \o <<a>>)
      BY <2>2, <2>9
    <3>2. Len(N(i)) = Len(q) + 1 /\ N(i)[Len(q) + 1] = a
      BY <2>1, <2>3, <3>1
    <3>3. Len(q) + 1 \in 1..Len(N(i)) /\ Len(q) \in Nat
      BY <2>3, <3>2
    <3>4. n[Len(q) + 1] = a
      BY <2>6, <3>2, <3>3
    <3>5. p[i] = Len(q) + 1 /\ p[i] = p[i - 1] + 1
      BY <2>4, <3>2, <3>3
    <3>. QED BY <2>9, <3>4, <3>5 DEF a
  <2>. QED BY <2>5, <2>7, <2>8, <2>9
<1>4. p \in [0..Len(x) -> 0..Len(n)]
  <2> HIDE DEF n, N
  <2>. QED BY <1>1
<1> HIDE DEF p
<1>5. Evens(p, x, n)
  <2> HIDE DEF n
  <2>. QED BY <1>2, <1>3, <1>4 DEF Evens
<1>. QED BY <1>5

LEMMA EvensAt ==
  ASSUME NEW x \in Seq(Tokens), NEW n \in Seq(Tokens), NEW p, Evens(p, x, n)
  PROVE  /\ Len(x) \in Nat /\ Len(n) \in Nat /\ DOMAIN x = 1..Len(x)
         /\ \A i \in 0..Len(x) : p[i] \in 0..Len(n) /\ p[i] \in Nat
         /\ \A i \in 1..Len(x) : p[i - 1] <= p[i]
         /\ \A i \in 1..Len(x) : x[i] \notin White =>
              p[i - 1] < p[i] /\ p[i] \in 1..Len(n) /\ p[i] <= p[i - 1] + 2
<1>1. Len(x) \in Nat /\ Len(n) \in Nat /\ DOMAIN x = 1..Len(x)
  OBVIOUS
<1>2. ASSUME NEW i \in 0..Len(x) PROVE p[i] \in 0..Len(n) /\ p[i] \in Nat
  <2>1. p \in [0..Len(x) -> 0..Len(n)]
    BY DEF Evens
  <2>. QED BY <1>1, <2>1
<1>3. ASSUME NEW i \in 1..Len(x) PROVE p[i - 1] \in 0..Len(n) /\ p[i] \in 0..Len(n)
  <2>1. i \in 0..Len(x) /\ i - 1 \in 0..Len(x)
    BY <1>1
  <2>. QED BY <1>2, <2>1
<1>4. ASSUME NEW i \in 1..Len(x), x[i] \notin White PROVE p[i] = p[i - 1] + 1 \/ p[i] = p[i - 1] + 2
  BY <1>4 DEF Evens
<1>5. ASSUME NEW i \in 1..Len(x), x[i] \in White PROVE p[i] = p[i - 1]
  BY <1>5 DEF Evens
<1>6. ASSUME NEW i \in 1..Len(x) PROVE p[i - 1] <= p[i]
  <2>1. CASE x[i] \in White
    BY <1>1, <1>3, <1>5, <2>1
  <2>2. CASE x[i] \notin White
    BY <1>1, <1>3, <1>4, <2>2
  <2>. QED BY <2>1, <2>2
<1>7. ASSUME NEW i \in 1..Len(x), x[i] \notin White
      PROVE  p[i - 1] < p[i] /\ p[i] \in 1..Len(n) /\ p[i] <= p[i - 1] + 2
  BY <1>1, <1>3, <1>4, <1>7
<1>. QED BY <1>1, <1>2, <1>6, <1>7

\* A function that never falls from one to the next never falls.
LEMMA Rises ==
  ASSUME NEW N \in Nat, NEW p \in [0..N -> Nat], \A i \in 1..N : p[i - 1] <= p[i]
  PROVE  \A i, k \in 0..N : i <= k => p[i] <= p[k]
<1> SUFFICES ASSUME NEW i \in 0..N PROVE \A k \in 0..N : i <= k => p[i] <= p[k]
  OBVIOUS
<1> DEFINE S == {k \in 0..N : i <= k => p[i] <= p[k]}
<1>1. 0 \in S
  OBVIOUS
<1>2. ASSUME NEW k \in 1..N, k - 1 \in S PROVE k \in S
  <2>1. k - 1 \in 0..N /\ k \in 0..N /\ p[k - 1] <= p[k] /\ p[k - 1] \in Nat /\ p[k] \in Nat /\ p[i] \in Nat
    OBVIOUS
  <2>2. CASE i <= k - 1
    <3>1. p[i] <= p[k - 1]
      BY <1>2, <2>2
    <3>. QED BY <2>1, <3>1
  <2>3. CASE i = k
    BY <2>1, <2>3
  <2>4. CASE k < i
    BY <2>1, <2>4
  <2>. QED BY <2>2, <2>3, <2>4
<1>. QED
  <2> HIDE DEF S
  <2>1. 0..N \subseteq S
    BY <1>1, <1>2, IntervalInduction
  <2>. QED BY <2>1 DEF S

\* Every place of the evened-out text is reached by some atom first.
LEMMA Reached ==
  ASSUME NEW N \in Nat, NEW M \in Nat, NEW p \in [0..N -> 0..M], p[0] = 0, p[N] = M, NEW l \in 1..M
  PROVE  \E i \in 1..N : p[i - 1] < l /\ l <= p[i]
<1> DEFINE S == {i \in 0..N : l <= p[i]}
<1>1. N \in S /\ S \in SUBSET Nat
  OBVIOUS
<1>2. PICK i \in S : \A k \in S : i <= k
  <2> HIDE DEF S
  <2>. QED BY <1>1, LeastExists
<1>3. i # 0
  OBVIOUS
<1>4. i \in 1..N /\ i - 1 \in 0..N /\ ~(i <= i - 1)
  BY <1>3
<1>5. i - 1 \notin S
  BY <1>2, <1>4
<1>6. p[i - 1] \in 0..M /\ ~(l <= p[i - 1])
  BY <1>4, <1>5
<1>. QED BY <1>4, <1>6

\* Evening out carries every atom of a word over.
LEMMA EvenCarries ==
  ASSUME NEW x \in Seq(Tokens), NEW n \in Seq(Tokens), NEW p, Evens(p, x, n)
  PROVE  /\ Carries(p, x, n, SolidAt(x))
         /\ \A l \in DOMAIN n : n[l] # Space => \E i \in SolidAt(x) : l = p[i]
<1>0. /\ Len(x) \in Nat /\ Len(n) \in Nat /\ DOMAIN x = 1..Len(x) /\ DOMAIN n = 1..Len(n)
      /\ \A i \in 0..Len(x) : p[i] \in 0..Len(n) /\ p[i] \in Nat
      /\ \A i \in 1..Len(x) : p[i - 1] <= p[i]
  BY EvensAt
<1>1. p \in [0..Len(x) -> 0..Len(n)] /\ p[0] = 0 /\ p[Len(x)] = Len(n)
  BY DEF Evens
<1>2. \A i, k \in 0..Len(x) : i <= k => p[i] <= p[k]
  <2>1. p \in [0..Len(x) -> Nat]
    BY <1>0, <1>1
  <2>. QED BY <1>0, <2>1, Rises
<1>3. ASSUME NEW i \in SolidAt(x) PROVE i \in 1..Len(x) /\ x[i] \notin White /\ p[i - 1] < p[i] /\ n[p[i]] = x[i]
  <2>1. i \in 1..Len(x) /\ x[i] \notin White
    BY <1>0 DEF SolidAt
  <2>2. n[p[i]] = x[i]
    BY <2>1 DEF Evens
  <2>3. p[i - 1] < p[i]
    BY <2>1, EvensAt
  <2>. QED BY <2>1, <2>2, <2>3
<1>4. ASSUME NEW l \in DOMAIN n, n[l] # Space PROVE \E i \in SolidAt(x) : l = p[i] /\ p[i - 1] < l
  <2>0. l \in 1..Len(n)
    BY <1>0
  <2>1. PICK i \in 1..Len(x) : p[i - 1] < l /\ l <= p[i]
    BY <1>0, <1>1, <2>0, Reached
  <2>2. i - 1 \in 0..Len(x) /\ i \in 0..Len(x)
    BY <1>0
  <2>3. p[i - 1] \in Nat /\ p[i] \in Nat /\ l \in Nat
    BY <1>0, <2>0, <2>2
  <2>4. x[i] \notin White
    <3> SUFFICES ASSUME x[i] \in White PROVE FALSE
      OBVIOUS
    <3>1. p[i] = p[i - 1]
      BY DEF Evens
    <3>. QED BY <2>1, <2>3, <3>1
  <2>5. l = p[i]
    <3>1. CASE Leaves(p, x, i)
      <4>1. p[i] = p[i - 1] + 2 /\ n[p[i] - 1] = Space
        BY <2>4, <3>1 DEF Evens
      <4>2. l # p[i] - 1
        BY <1>4, <4>1
      <4>. QED BY <2>1, <2>3, <4>1, <4>2
    <3>2. CASE ~Leaves(p, x, i)
      <4>1. p[i] = p[i - 1] + 1
        BY <2>4, <3>2 DEF Evens
      <4>. QED BY <2>1, <2>3, <4>1
    <3>. QED BY <3>1, <3>2
  <2>6. i \in SolidAt(x)
    BY <1>0, <2>4 DEF SolidAt
  <2>. QED BY <2>1, <2>5, <2>6
<1>5. ASSUME NEW l \in SolidAt(n) PROVE \E i \in SolidAt(x) : p[i - 1] < l /\ l <= p[i] /\ (i \in SolidAt(x) => l = p[i])
  <2>1. l \in DOMAIN n /\ n[l] # Space
    BY DEF SolidAt, White
  <2>2. PICK i \in SolidAt(x) : l = p[i] /\ p[i - 1] < l
    BY <1>4, <2>1
  <2>3. l <= p[i]
    BY <1>0, <2>1, <2>2
  <2>. QED BY <2>2, <2>3
<1>6. \A i \in SolidAt(x) : p[i - 1] < p[i] /\ n[p[i]] \notin White
  BY <1>3
<1>7. Carries(p, x, n, SolidAt(x))
  BY <1>1, <1>2, <1>3, <1>5, <1>6, Zenon DEF Carries
<1>. QED BY <1>4, <1>7

\* A text that is evened out has the words of the other, on one line.
LEMMA EvenSees ==
  ASSUME NEW x \in Seq(Tokens), NEW n \in Seq(Tokens), NEW p, Evens(p, x, n)
  PROVE  /\ \A D : (\A a \in White : a \notin D) => Sees(p, x, n, SolidAt(x), D)
         /\ OneLine(n)
<1>1. \A l \in DOMAIN n : n[l] # Space => \E i \in SolidAt(x) : l = p[i]
  BY EvenCarries
<1>2. ASSUME NEW D, \A a \in White : a \notin D PROVE Sees(p, x, n, SolidAt(x), D)
  <2>1. ASSUME NEW k \in DOMAIN x, x[k] \in D PROVE k \in SolidAt(x)
    BY <1>2, <2>1 DEF SolidAt
  <2>2. ASSUME NEW l \in DOMAIN n, n[l] \in D PROVE \E i \in SolidAt(x) : l = p[i]
    <3>1. n[l] # Space
      BY <1>2, <2>2 DEF White
    <3>. QED BY <1>1, <3>1
  <2>. QED BY <2>1, <2>2 DEF Sees
<1>3. ASSUME NEW l \in DOMAIN n PROVE n[l] # NewLine
  <2> SUFFICES ASSUME n[l] = NewLine PROVE FALSE
    OBVIOUS
  <2>1. NewLine # Space
    BY DEF NewLine, Space, Atom
  <2>2. PICK i \in SolidAt(x) : l = p[i]
    BY <1>1, <2>1
  <2>3. n[p[i]] \notin White
    BY EvenCarries DEF Carries
  <2>. QED BY <2>2, <2>3 DEF White
<1>. QED BY <1>2, <1>3 DEF OneLine

\* What stands directly beside an atom of a word does so still.
LEMMA EvenSides ==
  ASSUME NEW x \in Seq(Tokens), NEW n \in Seq(Tokens), NEW p, Evens(p, x, n), NEW i \in SolidAt(x)
  PROVE  SameSides(x, i, n, p[i])
<1>0. /\ Len(x) \in Nat /\ Len(n) \in Nat /\ DOMAIN x = 1..Len(x) /\ DOMAIN n = 1..Len(n)
      /\ \A k \in 0..Len(x) : p[k] \in 0..Len(n) /\ p[k] \in Nat
      /\ \A k \in 1..Len(x) : p[k - 1] <= p[k]
      /\ p[0] = 0 /\ p[Len(x)] = Len(n)
  <2>1. p[0] = 0 /\ p[Len(x)] = Len(n)
    BY DEF Evens
  <2>2. DOMAIN n = 1..Len(n)
    OBVIOUS
  <2>. QED BY <2>1, <2>2, EvensAt
<1>1. i \in 1..Len(x) /\ i \in 0..Len(x) /\ i - 1 \in 0..Len(x) /\ x[i] \notin White /\ p[i] \in 1..Len(n) /\ p[i - 1] \in Nat
  <2>1. i \in 1..Len(x) /\ x[i] \notin White
    BY <1>0 DEF SolidAt
  <2>2. p[i] \in 1..Len(n)
    BY <2>1, EvensAt
  <2>3. i \in 0..Len(x) /\ i - 1 \in 0..Len(x)
    BY <1>0, <2>1
  <2>. QED BY <1>0, <2>1, <2>2, <2>3
<1>2. \A a, b \in 0..Len(x) : a <= b => p[a] <= p[b]
  BY EvenCarries DEF Carries
<1>3. /\ n[p[i]] = x[i]
      /\ Leaves(p, x, i) => p[i] = p[i - 1] + 2 /\ n[p[i] - 1] = Space
      /\ ~Leaves(p, x, i) => p[i] = p[i - 1] + 1
  BY <1>1 DEF Evens
<1>4. ASSUME i = 1 \/ x[i - 1] \in White PROVE p[i] = 1 \/ n[p[i] - 1] \in White
  <2>1. CASE Leaves(p, x, i)
    BY <1>3, <2>1 DEF White
  <2>2. CASE ~Leaves(p, x, i)
    <3>1. p[i - 1] = 0
      BY <1>0, <1>1, <1>4, <2>2 DEF Leaves
    <3>. QED BY <1>3, <2>2, <3>1
  <2>. QED BY <2>1, <2>2
<1>5. ASSUME i > 1, x[i - 1] \notin White
      PROVE  p[i] > 1 /\ p[i] # 1 /\ n[p[i] - 1] = x[i - 1]
  <2>1. i - 1 \in 1..Len(x)
    BY <1>0, <1>1, <1>5
  <2>2. n[p[i - 1]] = x[i - 1] /\ p[i - 1] \in 1..Len(n)
    BY <1>5, <2>1, EvensAt DEF Evens
  <2>3. p[i] = p[i - 1] + 1
    BY <1>3, <1>5 DEF Leaves
  <2>4. p[i] - 1 = p[i - 1] /\ p[i] > 1 /\ p[i] # 1
    BY <1>0, <2>2, <2>3
  <2>. QED BY <2>2, <2>4
<1>6. ASSUME i < Len(x), x[i + 1] \notin White
      PROVE  p[i] < Len(n) /\ n[p[i] + 1] = x[i + 1]
  <2>1. i + 1 \in 1..Len(x) /\ (i + 1) - 1 = i
    BY <1>0, <1>1, <1>6
  <2>2. n[p[i + 1]] = x[i + 1] /\ p[i + 1] \in 1..Len(n)
    BY <1>6, <2>1, EvensAt DEF Evens
  <2>3. ~Leaves(p, x, i + 1)
    BY <1>1, <2>1 DEF Leaves
  <2>4. p[i + 1] = p[i] + 1
    BY <1>6, <2>1, <2>3 DEF Evens
  <2>5. p[i] < Len(n)
    BY <1>0, <1>1, <2>2, <2>4
  <2>. QED BY <2>2, <2>4, <2>5
<1>7. ASSUME i = Len(x) \/ x[i + 1] \in White PROVE p[i] = Len(n) \/ n[p[i] + 1] \in White
  <2> SUFFICES ASSUME p[i] # Len(n), n[p[i] + 1] \notin White PROVE FALSE
    OBVIOUS
  <2>1. i # Len(x) /\ i + 1 \in 1..Len(x) /\ x[i + 1] \in White /\ i + 1 \in 0..Len(x) /\ (i + 1) - 1 = i
    <3>1. i # Len(x)
      BY <1>0
    <3>2. Len(x) \in Nat /\ i \in 1..Len(x)
      BY <1>0, <1>1
    <3>. QED BY <1>7, <3>1, <3>2
  <2>2. p[i] + 1 \in DOMAIN n /\ n[p[i] + 1] # Space
    BY <1>0, <1>1 DEF White
  <2>3. PICK k \in SolidAt(x) : p[i] + 1 = p[k]
    BY <2>2, EvenCarries
  <2>4. k \in 1..Len(x) /\ x[k] \notin White /\ k - 1 \in 0..Len(x) /\ k \in 0..Len(x)
    BY <1>0 DEF SolidAt
  <2>5. i < k
    <3> SUFFICES ASSUME k <= i PROVE FALSE
      BY <1>0, <1>1, <2>4
    <3>1. p[k] <= p[i]
      BY <1>1, <1>2, <2>4
    <3>. QED BY <1>1, <2>3, <3>1
  <2>6. k # i + 1
    BY <2>1, <2>4
  <2>7. i + 1 <= k - 1 /\ k - 1 > 0
    BY <1>0, <1>1, <2>4, <2>5, <2>6
  <2>8. p[i + 1] <= p[k - 1] /\ p[i + 1] = p[i]
    <3>1. p[i + 1] = p[i]
      BY <2>1 DEF Evens
    <3>. QED BY <1>2, <2>1, <2>4, <2>7, <3>1
  <2>9. p[k - 1] > 0 /\ p[k - 1] \in Nat /\ p[k] \in Nat /\ p[i] <= p[k - 1]
    BY <1>0, <1>1, <2>4, <2>8
  <2>10. CASE Leaves(p, x, k)
    <3>1. p[k] = p[k - 1] + 2
      BY <2>4, <2>10 DEF Evens
    <3>. QED BY <1>1, <2>3, <2>9, <3>1
  <2>11. CASE ~Leaves(p, x, k)
    <3>1. x[k - 1] \notin White /\ k - 1 \in 1..Len(x)
      BY <1>0, <2>4, <2>7, <2>9, <2>11 DEF Leaves
    <3>2. (k - 1) - 1 \in 0..Len(x) /\ i + 1 <= (k - 1) - 1
      <4>1. k - 1 # i + 1
        BY <2>1, <3>1
      <4>. QED BY <1>0, <1>1, <2>4, <2>7, <4>1
    <3>3. p[(k - 1) - 1] < p[k - 1]
      BY <3>1, EvensAt
    <3>4. p[i + 1] <= p[(k - 1) - 1]
      BY <1>2, <2>1, <3>2
    <3>5. p[k] = p[k - 1] + 1
      BY <2>4, <2>11 DEF Evens
    <3>6. p[(k - 1) - 1] \in Nat
      BY <1>0, <3>2
    <3>. QED BY <1>1, <2>3, <2>8, <2>9, <3>3, <3>4, <3>5, <3>6
  <2>. QED BY <2>10, <2>11
<1>8. (i = 1 \/ x[i - 1] \in White) <=> (p[i] = 1 \/ n[p[i] - 1] \in White)
  <2>1. CASE i = 1 \/ x[i - 1] \in White
    BY <1>4, <2>1
  <2>2. CASE ~(i = 1 \/ x[i - 1] \in White)
    <3>1. i > 1 /\ x[i - 1] \notin White
      BY <1>0, <1>1, <2>2
    <3>. QED BY <1>5, <2>2, <3>1
  <2>. QED BY <2>1, <2>2
<1>9. (i = Len(x) \/ x[i + 1] \in White) <=> (p[i] = Len(n) \/ n[p[i] + 1] \in White)
  <2>1. CASE i = Len(x) \/ x[i + 1] \in White
    BY <1>7, <2>1
  <2>2. CASE ~(i = Len(x) \/ x[i + 1] \in White)
    <3>1. i < Len(x) /\ x[i + 1] \notin White
      <4>1. Len(x) \in Nat /\ i \in 1..Len(x)
        BY <1>0, <1>1
      <4>2. i # Len(x) /\ x[i + 1] \notin White
        BY <2>2
      <4>. QED BY <4>1, <4>2
    <3>2. p[i] # Len(n) /\ n[p[i] + 1] \notin White
      BY <1>0, <1>1, <1>6, <3>1
    <3>. QED BY <2>2, <3>2
  <2>. QED BY <2>1, <2>2
<1>. QED BY <1>5, <1>6, <1>8, <1>9, Zenon DEF SameSides

\* Where single blanks stand between words, they stay where they are.
LEMMA EvenGap ==
  ASSUME NEW x \in Seq(Tokens), NEW n \in Seq(Tokens), NEW p, Evens(p, x, n),
         NEW i \in SolidAt(x), NEW k \in SolidAt(x), i < k,
         \A j \in i..k : j < k => x[j] \notin White \/ x[j + 1] \notin White
  PROVE  SameGap(p, x, n, i, k)
<1>0. /\ Len(x) \in Nat /\ Len(n) \in Nat /\ DOMAIN x = 1..Len(x)
      /\ \A l \in 0..Len(x) : p[l] \in Nat
      /\ i \in 1..Len(x) /\ k \in 1..Len(x) /\ x[i] \notin White /\ x[k] \notin White /\ p[i] \in Nat
      /\ 1 <= p[i]
  <2>1. i \in 1..Len(x) /\ k \in 1..Len(x) /\ x[i] \notin White /\ x[k] \notin White
    BY DEF SolidAt
  <2>2. p[i] \in 1..Len(n)
    BY <2>1, EvensAt
  <2>. QED BY <2>1, <2>2, EvensAt
<1> DEFINE N == k - i
           At0(m) == IF x[i + m] \in White THEN p[i + m] = p[i] + m - 1 /\ m > 0 ELSE p[i + m] = p[i] + m
           S == {m \in 0..N : At0(m)}
<1>1. N \in Nat /\ N > 0 /\ \A m \in 0..N : i + m \in 1..Len(x) /\ i + m \in i..k /\ i + m \in 0..Len(x)
  BY <1>0
<1>2. 0 \in S
  BY <1>0, <1>1
<1>3. ASSUME NEW m \in 1..N, m - 1 \in S PROVE m \in S
  <2>1. /\ m - 1 \in 0..N /\ m \in 0..N /\ i + m - 1 = i + (m - 1) /\ m \in Nat /\ m > 0
        /\ i + (m - 1) \in i..k /\ i + (m - 1) < k /\ i + (m - 1) + 1 = i + m /\ i + m > 1
        /\ p[i + m] \in Nat /\ p[i + (m - 1)] \in Nat
    BY <1>0, <1>1
  <2>2. At0(m - 1)
    BY <1>3
  <2>3. x[i + (m - 1)] \notin White \/ x[i + m] \notin White
    BY <2>1
  <2>4. i + m \in 1..Len(x) /\ (i + m) - 1 = i + (m - 1)
    BY <1>0, <1>1, <2>1
  <2>5. CASE x[i + m] \in White
    <3>1. p[i + m] = p[i + (m - 1)]
      BY <2>4, <2>5 DEF Evens
    <3>2. p[i + (m - 1)] = p[i] + (m - 1)
      BY <2>2, <2>3, <2>5
    <3>. QED BY <1>0, <2>1, <2>5, <3>1, <3>2
  <2>6. CASE x[i + m] \notin White
    <3>1. CASE x[i + (m - 1)] \in White
      <4>1. p[i + (m - 1)] = p[i] + (m - 1) - 1 /\ m - 1 > 0
        BY <2>2, <3>1
      <4>2. p[i + (m - 1)] > 0
        BY <1>0, <2>1, <4>1
      <4>3. Leaves(p, x, i + m)
        BY <2>1, <2>4, <3>1, <4>2 DEF Leaves
      <4>4. p[i + m] = p[(i + m) - 1] + 2
        BY <2>4, <2>6, <4>3 DEF Evens
      <4>5. p[i + m] = p[i] + m
        BY <1>0, <2>1, <2>4, <4>1, <4>4
      <4>. QED BY <2>1, <2>6, <4>5
    <3>2. CASE x[i + (m - 1)] \notin White
      <4>1. p[i + (m - 1)] = p[i] + (m - 1)
        BY <2>2, <3>2
      <4>2. ~Leaves(p, x, i + m)
        BY <2>4, <3>2 DEF Leaves
      <4>3. p[i + m] = p[(i + m) - 1] + 1
        BY <2>4, <2>6, <4>2 DEF Evens
      <4>4. p[i + m] = p[i] + m
        BY <1>0, <2>1, <2>4, <4>1, <4>3
      <4>. QED BY <2>1, <2>6, <4>4
    <3>. QED BY <3>1, <3>2
  <2>. QED BY <2>5, <2>6
<1>4. ASSUME NEW m \in 0..N PROVE At0(m)
  <2> HIDE DEF At0
  <2>1. 0..N \subseteq S
    <3> HIDE DEF S, N
    <3>. QED BY <1>1, <1>2, <1>3, IntervalInduction
  <2>. QED BY <2>1
<1>5. p[k] = p[i] + (k - i)
  <2>1. N \in 0..N /\ i + N = k
    BY <1>0, <1>1
  <2>2. At0(N)
    BY <1>4, <2>1
  <2>. QED BY <1>0, <2>1, <2>2
<1>6. ASSUME NEW l \in i..k PROVE WidthOf(n[p[i] + (l - i)]) = WidthOf(x[l])
  <2>1. l \in 1..Len(x) /\ l - i \in 0..N /\ i + (l - i) = l
    BY <1>0
  <2>2. At0(l - i)
    BY <1>4, <2>1
  <2>3. CASE x[l] \notin White
    <3>1. p[l] = p[i] + (l - i)
      BY <2>1, <2>2, <2>3
    <3>2. n[p[l]] = x[l]
      BY <2>1, <2>3 DEF Evens
    <3>. QED BY <3>1, <3>2
  <2>4. CASE x[l] \in White
    <3>1. l # k
      BY <1>0, <2>4
    <3>2. l + 1 \in 1..Len(x) /\ (l + 1) - 1 = l /\ l < k /\ (l - i) + 1 \in 0..N /\ i + ((l - i) + 1) = l + 1 /\ l + 1 > 1
      BY <1>0, <2>1, <3>1
    <3>3. x[l + 1] \notin White
      BY <2>4, <3>2
    <3>4. At0((l - i) + 1)
      BY <1>4, <3>2
    <3>5. p[l + 1] = p[i] + ((l - i) + 1)
      BY <3>2, <3>3, <3>4
    <3>6. p[l] = p[i] + (l - i) - 1 /\ l - i > 0
      BY <2>1, <2>2, <2>4
    <3>7. p[l] > 0
      BY <1>0, <2>1, <3>6
    <3>8. Leaves(p, x, l + 1)
      BY <2>4, <3>2, <3>7 DEF Leaves
    <3>9. n[p[l + 1] - 1] = Space
      BY <3>2, <3>3, <3>8 DEF Evens
    <3>10. p[l + 1] - 1 = p[i] + (l - i)
      BY <1>0, <2>1, <3>5
    <3>11. n[p[i] + (l - i)] = Space
      BY <3>9, <3>10
    <3>12. x[l] = Space \/ x[l] = NewLine
      BY <2>4 DEF White
    <3>. QED BY <3>11, <3>12, WidthsAssumption DEF WidthOf, Space, NewLine, Atom
  <2>. QED BY <2>3, <2>4
<1>. QED BY <1>5, <1>6 DEF SameGap

-----------------------------------------------------------------------------
(* Put back: where the atoms of a masked text stand once its values are.    *)

Puts(q, h, y, n) ==
    /\ q \in [0..Len(y) -> 0..Len(n)] /\ q[0] = 0 /\ q[Len(y)] = Len(n)
    /\ \A j \in 1..Len(y) :
         /\ q[j] = q[j - 1] + Len(h[y[j]])
         /\ \A m \in 1..Len(h[y[j]]) : n[q[j - 1] + m] = h[y[j]][m]

LEMMA PutsOut ==
  ASSUME NEW h, Swaps(h, Tokens), NEW y \in Seq(Tokens)
  PROVE  \E q : Puts(q, h, y, Put(h, y))
<1> DEFINE n == Put(h, y)
           Q(j) == Put(h, Prefix(y, j))
           q == [j \in 0..Len(y) |-> Len(Q(j))]
<1>0. Len(y) \in Nat /\ n \in Seq(Tokens) /\ Len(n) \in Nat
  BY PutTokens
<1>1. ASSUME NEW j \in 0..Len(y)
      PROVE  /\ Q(j) \in Seq(Tokens) /\ Len(Q(j)) \in 0..Len(n) /\ q[j] = Len(Q(j))
             /\ \A l \in 1..Len(Q(j)) : n[l] = Q(j)[l]
  <2>1. /\ y = Prefix(y, j) \o SubSeq(y, j + 1, Len(y))
        /\ Prefix(y, j) \in Seq(Tokens) /\ SubSeq(y, j + 1, Len(y)) \in Seq(Tokens)
    <3>1. Len(y) \in j..Len(y) /\ SubSeq(y, 1, Len(y)) = y
      BY <1>0
    <3>. QED BY <3>1, SubSeqSplits DEF Prefix
  <2>2. Q(j) \in Seq(Tokens)
    BY <2>1, PutTokens
  <2>3. PICK z \in Seq(Tokens) : n = Q(j) \o z
    <3> DEFINE a == Prefix(y, j)
               r == SubSeq(y, j + 1, Len(y))
    <3>1. a \in Seq(Tokens) /\ r \in Seq(Tokens)
      BY <2>1
    <3>2. Put(h, a \o r) = n
      BY <2>1
    <3> HIDE DEF a, r, n
    <3>3. Put(h, a \o r) = Put(h, a) \o Put(h, r) /\ Put(h, r) \in Seq(Tokens)
      BY <3>1, PutTokens
    <3>. QED BY <3>2, <3>3 DEF a
  <2> HIDE DEF Q
  <2>4. Len(n) = Len(Q(j)) + Len(z) /\ Len(Q(j)) \in Nat /\ Len(z) \in Nat
    BY <2>2, <2>3
  <2>5. \A l \in 1..Len(Q(j)) : (Q(j) \o z)[l] = Q(j)[l]
    BY <2>2, ConcatAt
  <2>. QED BY <2>2, <2>3, <2>4, <2>5
<1>2. q[0] = 0 /\ q[Len(y)] = Len(n)
  <2>1. Q(0) = <<>> /\ Q(Len(y)) = n
    BY PrefixGrows, PutTokens
  <2>. QED BY <1>0, <2>1
<1>3. ASSUME NEW j \in 1..Len(y)
      PROVE  /\ q[j] = q[j - 1] + Len(h[y[j]])
             /\ \A m \in 1..Len(h[y[j]]) : n[q[j - 1] + m] = h[y[j]][m]
  <2> DEFINE a == y[j]
             b == Q(j - 1)
             c == h[a]
  <2>0. j \in 0..Len(y) /\ j - 1 \in 0..Len(y)
    BY <1>0
  <2>1. Prefix(y, j - 1) \in Seq(Tokens) /\ a \in Tokens /\ Prefix(y, j) = Append(Prefix(y, j - 1), a)
    BY <2>0, PrefixGrows
  <2>2. Q(j) = b \o c /\ b \in Seq(Tokens) /\ c \in Seq(Tokens)
    <3> DEFINE z == Prefix(y, j - 1)
    <3>1. z \in Seq(Tokens) /\ a \in Tokens
      BY <2>1
    <3>2. Q(j) = Put(h, Append(z, a))
      BY <2>1
    <3> HIDE DEF z, Q, a
    <3>3. Put(h, Append(z, a)) = Put(h, z) \o h[a] /\ Put(h, z) \in Seq(Tokens) /\ h[a] \in Seq(Tokens)
      BY <3>1, PutTokens
    <3>. QED BY <3>2, <3>3 DEF z, Q
  <2>3. q[j - 1] = Len(b) /\ q[j] = Len(Q(j))
    BY <2>0
  <2>4. \A l \in 1..Len(Q(j)) : n[l] = Q(j)[l]
    <3> HIDE DEF Q, n, q
    <3>. QED BY <1>1, <2>0
  <2> HIDE DEF a, b, c, q, n, Q
  <2>5. Len(Q(j)) = Len(b) + Len(c) /\ Len(b) \in Nat /\ Len(c) \in Nat
    BY <2>2
  <2>6. ASSUME NEW m \in 1..Len(c) PROVE n[Len(b) + m] = c[m]
    <3>1. Len(b) + m \in 1..Len(Q(j))
      BY <2>5
    <3>2. (b \o c)[Len(b) + m] = c[m]
      BY <2>2, ConcatAt
    <3>. QED BY <2>2, <2>4, <3>1, <3>2
  <2>7. q[j] = q[j - 1] + Len(c)
    BY <2>3, <2>5
  <2>8. \A m \in 1..Len(c) : n[q[j - 1] + m] = c[m]
    BY <2>3, <2>6
  <2>. QED BY <2>7, <2>8 DEF c, a
<1>4. q \in [0..Len(y) -> 0..Len(n)]
  <2> HIDE DEF n, Q
  <2>. QED BY <1>1
<1> HIDE DEF q
<1>5. Puts(q, h, y, n)
  <2> HIDE DEF n
  <2>. QED BY <1>2, <1>3, <1>4 DEF Puts
<1>. QED BY <1>5

\* The values replace placeholders only.
PutsBack(h) == Respects(h) /\ \A a \in Written : h[a] = <<a>>

WrittenAt(y) == {j \in SolidAt(y) : y[j] \in Written}

LEMMA PutsAt ==
  ASSUME NEW h, PutsBack(h), NEW y \in Seq(Tokens), NEW n \in Seq(Tokens), NEW q, Puts(q, h, y, n)
  PROVE  /\ Len(y) \in Nat /\ Len(n) \in Nat /\ DOMAIN y = 1..Len(y) /\ DOMAIN n = 1..Len(n)
         /\ \A j \in 0..Len(y) : q[j] \in 0..Len(n) /\ q[j] \in Nat
         /\ \A j \in 1..Len(y) : q[j - 1] < q[j] /\ q[j] \in 1..Len(n) /\ j - 1 \in 0..Len(y) /\ j \in 0..Len(y)
         /\ \A j \in 1..Len(y) : y[j] \in Written => q[j] = q[j - 1] + 1 /\ n[q[j]] = y[j]
         /\ \A j \in 1..Len(y), l \in 1..Len(n) : q[j - 1] < l /\ l <= q[j] =>
              /\ n[l] \in ToSet(h[y[j]])
              /\ y[j] \in White => n[l] = y[j]
              /\ y[j] \notin White => n[l] \notin White
<1>1. Len(y) \in Nat /\ Len(n) \in Nat /\ DOMAIN y = 1..Len(y) /\ DOMAIN n = 1..Len(n)
  OBVIOUS
<1>2. ASSUME NEW j \in 0..Len(y) PROVE q[j] \in 0..Len(n) /\ q[j] \in Nat
  <2>1. q \in [0..Len(y) -> 0..Len(n)]
    BY DEF Puts
  <2>. QED BY <1>1, <2>1
<1>3. ASSUME NEW j \in 1..Len(y)
      PROVE  /\ j - 1 \in 0..Len(y) /\ j \in 0..Len(y) /\ q[j - 1] \in Nat /\ q[j] \in 0..Len(n) /\ q[j] \in Nat
             /\ y[j] \in Tokens /\ h[y[j]] \in Seq(Tokens) /\ Len(h[y[j]]) \in Nat /\ Len(h[y[j]]) > 0
             /\ q[j] = q[j - 1] + Len(h[y[j]])
             /\ \A m \in 1..Len(h[y[j]]) : n[q[j - 1] + m] = h[y[j]][m]
  <2>1. j - 1 \in 0..Len(y) /\ j \in 0..Len(y)
    BY <1>1
  <2>2. y[j] \in Tokens
    OBVIOUS
  <2>3. h[y[j]] \in Seq(Tokens) /\ h[y[j]] # <<>>
    <3>1. Swaps(h, Tokens)
      BY DEF PutsBack, Respects
    <3>2. h[y[j]] \in Seq(Tokens)
      BY <2>2, <3>1 DEF Swaps
    <3>3. CASE y[j] \in White
      <4>1. h[y[j]] = <<y[j]>>
        BY <3>3 DEF PutsBack, Respects
      <4>2. <<y[j]>> # <<>>
        OBVIOUS
      <4>. QED BY <3>2, <4>1, <4>2, Zenon
    <3>4. CASE y[j] \notin White
      <4>1. h[y[j]] \in Words
        BY <2>2, <3>4 DEF PutsBack, Respects, Solid
      <4>. QED BY <3>2, <4>1 DEF Words
    <3>. QED BY <3>3, <3>4
  <2> DEFINE c == h[y[j]]
  <2>4. Len(c) \in Nat /\ Len(c) > 0
    <3> HIDE DEF c
    <3>1. c \in Seq(Tokens) /\ c # <<>>
      BY <2>3 DEF c
    <3>. QED BY <3>1
  <2>5. q[j] = q[j - 1] + Len(h[y[j]]) /\ \A m \in 1..Len(h[y[j]]) : n[q[j - 1] + m] = h[y[j]][m]
    BY DEF Puts
  <2>. QED BY <1>2, <2>1, <2>2, <2>3, <2>4, <2>5
<1>4. ASSUME NEW j \in 1..Len(y) PROVE q[j - 1] < q[j] /\ q[j] \in 1..Len(n)
  <2> DEFINE c == Len(h[y[j]])
  <2>1. q[j - 1] \in Nat /\ q[j] \in 0..Len(n) /\ c \in Nat /\ c > 0 /\ q[j] = q[j - 1] + c
    BY <1>3
  <2> HIDE DEF c
  <2>. QED BY <1>1, <2>1
<1>5. ASSUME NEW j \in 1..Len(y), y[j] \in Written PROVE q[j] = q[j - 1] + 1 /\ n[q[j]] = y[j]
  <2>1. h[y[j]] = <<y[j]>>
    BY <1>5 DEF PutsBack
  <2>2. Len(h[y[j]]) = 1 /\ h[y[j]][1] = y[j] /\ 1 \in 1..Len(h[y[j]])
    BY <2>1
  <2>3. q[j] = q[j - 1] + 1
    BY <1>3, <2>2
  <2>4. n[q[j - 1] + 1] = y[j]
    BY <1>3, <2>2
  <2>. QED BY <2>3, <2>4
<1>6. ASSUME NEW j \in 1..Len(y), NEW l \in 1..Len(n), q[j - 1] < l, l <= q[j]
      PROVE  /\ n[l] \in ToSet(h[y[j]])
             /\ y[j] \in White => n[l] = y[j]
             /\ y[j] \notin White => n[l] \notin White
  <2> DEFINE c == h[y[j]]
             m == l - q[j - 1]
  <2>1. /\ q[j - 1] \in Nat /\ q[j] \in Nat /\ Len(c) \in Nat /\ q[j] = q[j - 1] + Len(c) /\ l \in Nat
        /\ \A k \in 1..Len(c) : n[q[j - 1] + k] = c[k]
        /\ c \in Seq(Tokens) /\ y[j] \in Tokens
    BY <1>1, <1>3
  <2> HIDE DEF c
  <2>2. m \in 1..Len(c) /\ q[j - 1] + m = l
    BY <1>6, <2>1
  <2> HIDE DEF m
  <2>3. n[l] = c[m] /\ m \in DOMAIN c
    BY <2>1, <2>2
  <2>4. n[l] \in ToSet(c)
    BY <2>3 DEF ToSet
  <2>5. y[j] \in White => n[l] = y[j]
    <3> SUFFICES ASSUME y[j] \in White PROVE n[l] = y[j]
      OBVIOUS
    <3>1. c = <<y[j]>>
      BY DEF c, PutsBack, Respects
    <3>. QED BY <2>2, <2>3, <3>1
  <2>6. y[j] \notin White => n[l] \notin White
    <3> SUFFICES ASSUME y[j] \notin White PROVE n[l] \notin White
      OBVIOUS
    <3>1. c \in Words
      BY <2>1 DEF c, PutsBack, Respects, Solid
    <3>2. c \in Seq(Solid)
      BY <3>1 DEF Words
    <3>. QED BY <2>3, <3>2 DEF Solid
  <2>. QED BY <2>4, <2>5, <2>6 DEF c
<1>. QED BY <1>1, <1>2, <1>3, <1>4, <1>5, <1>6

\* The written atoms are carried over, the placeholders become their values.
LEMMA PutCarries ==
  ASSUME NEW h, PutsBack(h), NEW y \in Seq(Tokens), NEW n \in Seq(Tokens), NEW q, Puts(q, h, y, n)
  PROVE  Carries(q, y, n, WrittenAt(y))
<1>0. /\ Len(y) \in Nat /\ Len(n) \in Nat /\ DOMAIN y = 1..Len(y) /\ DOMAIN n = 1..Len(n)
      /\ \A j \in 0..Len(y) : q[j] \in 0..Len(n) /\ q[j] \in Nat
      /\ \A j \in 1..Len(y) : q[j - 1] < q[j] /\ q[j] \in 1..Len(n) /\ j - 1 \in 0..Len(y) /\ j \in 0..Len(y)
  BY PutsAt
<1>1. q \in [0..Len(y) -> 0..Len(n)] /\ q[0] = 0 /\ q[Len(y)] = Len(n)
  BY DEF Puts
<1>2. \A j, k \in 0..Len(y) : j <= k => q[j] <= q[k]
  <2>1. \A j \in 1..Len(y) : q[j - 1] <= q[j]
    <3> SUFFICES ASSUME NEW j \in 1..Len(y) PROVE q[j - 1] <= q[j]
      OBVIOUS
    <3>1. q[j - 1] \in Nat /\ q[j] \in Nat /\ q[j - 1] < q[j]
      BY <1>0
    <3>. QED BY <3>1
  <2>2. q \in [0..Len(y) -> Nat]
    BY <1>0, <1>1
  <2>. QED BY <1>0, <2>1, <2>2, Rises
<1>3. ASSUME NEW j \in SolidAt(y) PROVE q[j - 1] < q[j] /\ n[q[j]] \notin White
  <2>1. j \in 1..Len(y) /\ y[j] \notin White
    BY <1>0 DEF SolidAt
  <2>2. q[j - 1] < q[j] /\ q[j] \in 1..Len(n) /\ q[j] <= q[j]
    BY <1>0, <2>1
  <2>3. n[q[j]] \notin White
    BY <2>1, <2>2, PutsAt
  <2>. QED BY <2>2, <2>3
<1>4. ASSUME NEW j \in WrittenAt(y) PROVE n[q[j]] = y[j] /\ j \in SolidAt(y)
  <2>1. j \in 1..Len(y) /\ y[j] \in Written /\ j \in SolidAt(y)
    BY <1>0 DEF SolidAt, WrittenAt
  <2>. QED BY <2>1, PutsAt
<1>5. ASSUME NEW l \in SolidAt(n)
      PROVE  \E j \in SolidAt(y) : q[j - 1] < l /\ l <= q[j] /\ (j \in WrittenAt(y) => l = q[j])
  <2>1. l \in 1..Len(n) /\ n[l] \notin White
    BY <1>0 DEF SolidAt
  <2>2. PICK j \in 1..Len(y) : q[j - 1] < l /\ l <= q[j]
    BY <1>0, <1>1, <2>1, Reached
  <2>3. y[j] \notin White
    BY <2>1, <2>2, PutsAt
  <2>4. j \in SolidAt(y)
    BY <1>0, <2>3 DEF SolidAt
  <2>5. j \in WrittenAt(y) => l = q[j]
    <3> SUFFICES ASSUME j \in WrittenAt(y) PROVE l = q[j]
      OBVIOUS
    <3>1. q[j] = q[j - 1] + 1
      BY PutsAt DEF WrittenAt
    <3>2. q[j - 1] \in Nat /\ l \in Nat
      BY <1>0, <2>1
    <3>. QED BY <2>2, <3>1, <3>2
  <2>. QED BY <2>2, <2>4, <2>5
<1>. QED BY <1>1, <1>2, <1>3, <1>4, <1>5, Zenon DEF Carries

\* A word that no value holds stands in the masked text already.
LEMMA PutSees ==
  ASSUME NEW h, PutsBack(h), NEW y \in Seq(Tokens), NEW n \in Seq(Tokens), NEW q, Puts(q, h, y, n),
         NEW D, \A a \in D : a \notin White /\ a.nr = 0,
         \A a \in Tokens \ Written : ToSet(h[a]) \cap D = {}
  PROVE  Sees(q, y, n, WrittenAt(y), D)
<1>0. /\ Len(y) \in Nat /\ Len(n) \in Nat /\ DOMAIN y = 1..Len(y) /\ DOMAIN n = 1..Len(n)
      /\ \A j \in 0..Len(y) : q[j] \in 0..Len(n) /\ q[j] \in Nat
      /\ \A j \in 1..Len(y) : q[j - 1] < q[j] /\ q[j] \in 1..Len(n) /\ j - 1 \in 0..Len(y) /\ j \in 0..Len(y)
  BY PutsAt
<1>1. ASSUME NEW j \in DOMAIN y, y[j] \in D PROVE j \in WrittenAt(y)
  <2>1. y[j] \in Tokens /\ y[j].nr = 0 /\ y[j] \notin White
    BY <1>1
  <2>2. y[j] \in Written
    BY <2>1, TokenParts
  <2>. QED BY <2>1, <2>2 DEF WrittenAt, SolidAt
<1>2. ASSUME NEW l \in DOMAIN n, n[l] \in D PROVE \E j \in WrittenAt(y) : l = q[j]
  <2>1. l \in 1..Len(n) /\ n[l] \notin White
    BY <1>0, <1>2
  <2>2. q \in [0..Len(y) -> 0..Len(n)] /\ q[0] = 0 /\ q[Len(y)] = Len(n)
    BY DEF Puts
  <2>3. PICK j \in 1..Len(y) : q[j - 1] < l /\ l <= q[j]
    BY <1>0, <2>1, <2>2, Reached
  <2>4. n[l] \in ToSet(h[y[j]]) /\ y[j] \notin White /\ y[j] \in Tokens
    BY <2>1, <2>3, PutsAt
  <2>5. y[j] \in Written
    BY <1>2, <2>4
  <2>6. q[j] = q[j - 1] + 1
    BY <2>5, PutsAt
  <2>7. l = q[j]
    <3>1. q[j - 1] \in Nat /\ l \in Nat
      BY <1>0, <2>1
    <3>. QED BY <2>3, <2>6, <3>1
  <2>. QED BY <1>0, <2>4, <2>5, <2>7 DEF WrittenAt, SolidAt
<1>. QED BY <1>1, <1>2 DEF Sees

\* No placeholder stands between them: as many atoms, and the same.
LEMMA PutGap ==
  ASSUME NEW h, PutsBack(h), NEW y \in Seq(Tokens), NEW n \in Seq(Tokens), NEW q, Puts(q, h, y, n),
         NEW i \in 1..Len(y), NEW k \in 1..Len(y), i <= k, \A j \in i..k : y[j] \in Written
  PROVE  SameGap(q, y, n, i, k)
<1>0. /\ Len(y) \in Nat /\ Len(n) \in Nat /\ DOMAIN y = 1..Len(y) /\ DOMAIN n = 1..Len(n)
      /\ \A j \in 0..Len(y) : q[j] \in 0..Len(n) /\ q[j] \in Nat
      /\ \A j \in 1..Len(y) : y[j] \in Written => q[j] = q[j - 1] + 1 /\ n[q[j]] = y[j]
  BY PutsAt
<1> DEFINE N == k - i
           S == {m \in 0..N : q[i + m] = q[i] + m}
<1>1. N \in Nat /\ q[i] \in Nat /\ \A m \in 0..N : i + m \in 1..Len(y) /\ i + m \in i..k /\ i + m \in 0..Len(y)
  BY <1>0
<1>2. 0 \in S
  BY <1>0, <1>1
<1>3. ASSUME NEW m \in 1..N, m - 1 \in S PROVE m \in S
  <2>1. m \in 0..N /\ m - 1 \in 0..N /\ (i + m) - 1 = i + (m - 1) /\ m \in Nat
    BY <1>1
  <2>2. q[i + (m - 1)] = q[i] + (m - 1)
    BY <1>3
  <2>3. q[i + m] = q[(i + m) - 1] + 1
    BY <1>0, <1>1, <2>1
  <2>4. q[i + m] = q[i] + m
    BY <1>1, <2>1, <2>2, <2>3
  <2>. QED BY <2>1, <2>4
<1>4. ASSUME NEW m \in 0..N PROVE q[i + m] = q[i] + m
  <2>1. 0..N \subseteq S
    <3> HIDE DEF S, N
    <3>. QED BY <1>1, <1>2, <1>3, IntervalInduction
  <2>. QED BY <2>1
<1>5. q[k] = q[i] + (k - i)
  <2>1. N \in 0..N /\ i + N = k
    BY <1>0, <1>1
  <2>2. q[i + N] = q[i] + N
    BY <1>4, <2>1
  <2>. QED BY <2>1, <2>2
<1>6. ASSUME NEW l \in i..k PROVE n[q[i] + (l - i)] = y[l]
  <2>1. l \in 1..Len(y) /\ l - i \in 0..N /\ i + (l - i) = l
    BY <1>0
  <2>2. q[l] = q[i] + (l - i)
    BY <1>4, <2>1
  <2>. QED BY <1>0, <2>1, <2>2
<1>. QED BY <1>5, <1>6 DEF SameGap

\* No placeholder stands directly beside it.
LEMMA PutSides ==
  ASSUME NEW h, PutsBack(h), NEW y \in Seq(Tokens), NEW n \in Seq(Tokens), NEW q, Puts(q, h, y, n),
         NEW i \in WrittenAt(y),
         \A j \in DOMAIN y : j \in {i - 1, i + 1} => y[j] \in Written
  PROVE  SameSides(y, i, n, q[i])
<1>0. /\ Len(y) \in Nat /\ Len(n) \in Nat /\ DOMAIN y = 1..Len(y) /\ DOMAIN n = 1..Len(n)
      /\ i \in 1..Len(y) /\ y[i] \in Written /\ q[i] \in 1..Len(n)
      /\ q[i] = q[i - 1] + 1
  <2>1. i \in 1..Len(y) /\ y[i] \in Written
    BY DEF WrittenAt, SolidAt
  <2>. QED BY <2>1, PutsAt
<1>1. i > 1 => q[i] > 1 /\ n[q[i] - 1] = y[i - 1]
  <2> SUFFICES ASSUME i > 1 PROVE q[i] > 1 /\ n[q[i] - 1] = y[i - 1]
    OBVIOUS
  <2>1. i - 1 \in 1..Len(y) /\ i - 1 \in DOMAIN y
    BY <1>0
  <2>2. y[i - 1] \in Written
    BY <2>1
  <2>3. n[q[i - 1]] = y[i - 1] /\ q[i - 1] \in 1..Len(n)
    BY <2>1, <2>2, PutsAt
  <2>4. q[i] - 1 = q[i - 1] /\ q[i] > 1
    BY <1>0, <2>3
  <2>. QED BY <2>3, <2>4
<1>2. i = 1 => q[i] = 1
  <2>1. q[0] = 0
    BY DEF Puts
  <2>. QED BY <1>0, <2>1
<1>3. i < Len(y) => q[i] < Len(n) /\ n[q[i] + 1] = y[i + 1]
  <2> SUFFICES ASSUME i < Len(y) PROVE q[i] < Len(n) /\ n[q[i] + 1] = y[i + 1]
    OBVIOUS
  <2>1. i + 1 \in 1..Len(y) /\ i + 1 \in DOMAIN y /\ (i + 1) - 1 = i
    BY <1>0
  <2>2. y[i + 1] \in Written
    BY <2>1
  <2>3. n[q[i + 1]] = y[i + 1] /\ q[i + 1] \in 1..Len(n) /\ q[i + 1] = q[(i + 1) - 1] + 1
    BY <2>1, <2>2, PutsAt
  <2>4. q[i + 1] = q[i] + 1 /\ q[i] < Len(n)
    BY <1>0, <2>1, <2>3
  <2>. QED BY <2>3, <2>4
<1>4. i = Len(y) => q[i] = Len(n)
  BY DEF Puts
<1>5. /\ (i = 1 \/ i > 1) /\ (i = Len(y) \/ i < Len(y))
      /\ (q[i] > 1 => q[i] # 1) /\ (q[i] < Len(n) => q[i] # Len(n)) /\ (i > 1 => i # 1) /\ (i < Len(y) => i # Len(y))
  <2> DEFINE a == q[i]
  <2>1. Len(y) \in Nat /\ Len(n) \in Nat /\ i \in 1..Len(y) /\ a \in 1..Len(n)
    BY <1>0
  <2> HIDE DEF a
  <2>2. /\ (i = 1 \/ i > 1) /\ (i = Len(y) \/ i < Len(y))
        /\ (a > 1 => a # 1) /\ (a < Len(n) => a # Len(n)) /\ (i > 1 => i # 1) /\ (i < Len(y) => i # Len(y))
    BY <2>1
  <2>. QED BY <2>2 DEF a
<1>. QED BY <1>1, <1>2, <1>3, <1>4, <1>5, Zenon DEF SameSides

\* A line break stays one.
LEMMA PutOneLine ==
  ASSUME NEW h, PutsBack(h), NEW y \in Seq(Tokens), NEW n \in Seq(Tokens), NEW q, Puts(q, h, y, n), OneLine(n)
  PROVE  OneLine(y)
<1> SUFFICES ASSUME NEW j \in DOMAIN y, y[j] = NewLine PROVE FALSE
  BY DEF OneLine
<1>1. j \in 1..Len(y) /\ Len(n) \in Nat
  OBVIOUS
<1>2. q[j] \in 1..Len(n) /\ q[j - 1] < q[j] /\ q[j] <= q[j]
  BY <1>1, PutsAt
<1>3. n[q[j]] = NewLine
  BY <1>1, <1>2, PutsAt DEF White
<1>4. q[j] \in DOMAIN n
  BY <1>2
<1>. QED BY <1>3, <1>4 DEF OneLine

-----------------------------------------------------------------------------
(* The signals of a message and of its masked text.                         *)

\* A name is one word of the dictionary, and a value of a pattern has no punctuation.
LEMMA NoColonIsReplaced ==
  ASSUME NEW x \in Seq(Tokens), NEW m \in ToSet(MaskAll(x).mappings)
  PROVE  Colon \notin ToSet(m.value)
<1> DEFINE pii == MaskText(x)
           words == SplitWords(pii.text)
           named == NameMappings(words)
<1>1. MaskAll(x).mappings = pii.mappings \o named
  BY MaskNamesParts DEF MaskAll
<1>2. Restored(pii, x)
  BY MaskTextRestores
<1> HIDE DEF pii
<1>3. pii.text \in Seq(Tokens) /\ pii.mappings \in Seq(Mappings) /\ Numbered(pii.mappings)
  BY <1>2 DEF Restored, Done
<1>4. words \in Seq(Words)
  BY <1>3, NormType
<1> HIDE DEF words
<1>5. /\ named \in Seq(Mappings)
      /\ \A n \in DOMAIN named : \E i \in DOMAIN words :
           IsName(words, i) /\ named[n] = Mapping(NameAt(words, i), Strip(words[i]))
  BY <1>4, NameMappingsAt
<1> HIDE DEF named
<1>6. m \in ToSet(pii.mappings) \/ m \in ToSet(named)
  <2>1. ToSet(pii.mappings \o named) = ToSet(pii.mappings) \cup ToSet(named)
    BY <1>3, <1>5, ElementsConcat
  <2>. QED BY <1>1, <2>1
<1>7. CASE m \in ToSet(pii.mappings)
  <2>1. PICK n \in DOMAIN pii.mappings : pii.mappings[n] = m
    BY <1>7 DEF ToSet
  <2>2. m.value \in DOMAIN PiiOf
    BY <1>3, <2>1 DEF Numbered, Values
  <2>3. ToSet(m.value) \cap Punct = {}
    BY <2>2, PatternsAssumption
  <2>. QED BY <2>3 DEF Punct
<1>8. CASE m \in ToSet(named)
  <2>1. PICK n \in DOMAIN named : named[n] = m
    BY <1>8 DEF ToSet
  <2>2. PICK i \in DOMAIN words : IsName(words, i) /\ m = Mapping(NameAt(words, i), Strip(words[i]))
    BY <1>5, <2>1
  <2>3. m.value = Strip(words[i])
    BY <2>2 DEF Mapping
  <2>4. PICK w : Strip(words[i]) = <<Atom(w)>>
    BY <2>2 DEF IsName, Spells
  <2>5. Strip(words[i])[1] \notin Punct
    <3> DEFINE word == words[i]
    <3>1. word \in Seq(Tokens)
      BY <1>4, WordsAt
    <3>2. Strip(word) # <<>>
      BY <2>4
    <3> HIDE DEF word
    <3>3. Strip(word)[1] \notin Punct
      BY <3>1, <3>2, StripWord
    <3>. QED BY <3>3 DEF word
  <2>6. Atom(w) \notin Punct /\ ToSet(m.value) = {Atom(w)}
    <3> DEFINE a == Atom(w)
    <3>1. Strip(words[i])[1] = a
      BY <2>4
    <3> HIDE DEF a
    <3>2. ToSet(<<a>>) = {a}
      BY DEF ToSet
    <3>. QED BY <2>3, <2>4, <2>5, <3>1, <3>2 DEF a
  <2>. QED BY <2>6 DEF Punct
<1>. QED BY <1>6, <1>7, <1>8

\* What is put back for a placeholder is free of what no value holds.
LEMMA UnmasksFree ==
  ASSUME NEW ms, Sound(ms), NEW D, \A a \in D : a.nr = 0, \A m \in ToSet(ms) : ToSet(m.value) \cap D = {}
  PROVE  \A a \in Tokens \ Written : ToSet(Unmasks(ms)[a]) \cap D = {}
<1> SUFFICES ASSUME NEW a \in Tokens \ Written PROVE ToSet(Unmasks(ms)[a]) \cap D = {}
  OBVIOUS
<1>1. DOMAIN ms = 1..Len(ms) /\ Len(ms) \in 0..Len(ms)
  BY MappingAt
<1>2. /\ \A k \in 1..Len(ms) : Unmasks(ms)[ms[k].placeholder] = ms[k].value
      /\ (\A k \in 1..Len(ms) : ms[k].placeholder # a) => Unmasks(ms)[a] = <<a>>
  BY <1>1, BackValues DEF Unmasks
<1>3. CASE \E k \in 1..Len(ms) : ms[k].placeholder = a
  <2>1. PICK k \in 1..Len(ms) : ms[k].placeholder = a
    BY <1>3
  <2>2. ms[k] \in ToSet(ms)
    BY <1>1 DEF ToSet
  <2>3. Unmasks(ms)[a] = ms[k].value
    BY <1>2, <2>1
  <2>. QED BY <2>2, <2>3
<1>4. CASE \A k \in 1..Len(ms) : ms[k].placeholder # a
  <2>1. Unmasks(ms)[a] = <<a>>
    BY <1>2, <1>4
  <2>2. ToSet(<<a>>) = {a}
    BY DEF ToSet
  <2>3. a.nr # 0
    BY TokenParts
  <2>. QED BY <2>1, <2>2, <2>3
<1>. QED BY <1>3, <1>4

LEMMA SignalAt ==
  ASSUME NEW t, NEW term
  PROVE  term \in InjurySignals(t) <=> \E i \in DOMAIN t : t[i] = Atom(term) /\ Asserts(t, i)
<1>1. ASSUME NEW i \in DOMAIN t, Asserts(t, i), t[i].word = term PROVE t[i] = Atom(term)
  <2>1. t[i] \in Atoms(InjuryTerms)
    BY <1>1 DEF Asserts
  <2>2. PICK w \in InjuryTerms : t[i] = Atom(w)
    BY <2>1 DEF Atoms
  <2>. QED BY <1>1, <2>2 DEF Atom
<1>2. Atom(term).word = term
  BY DEF Atom
<1>. QED BY <1>1, <1>2, Zenon DEF InjurySignals

\* The dictionaries hold no white space, and the placeholders are none of their words.
LEMMA RuleWords ==
  /\ \A a \in GuardWords \cup Atoms(InjuryTerms) \cup {Colon} : a \notin White /\ a.nr = 0
  /\ Atoms(Negations) \subseteq FarWords /\ Atoms(CareActions) \subseteq FarWords
  /\ FarWords \subseteq GuardWords /\ Atoms(Questions) \subseteq GuardWords
<1>1. \A a \in Atoms(Negations) \cup Atoms(CareActions) \cup Atoms(Questions) \cup Atoms(InjuryTerms) :
        a \notin White /\ a.nr = 0
  BY GuardsBlank
<1>2. Colon \notin White /\ Colon.nr = 0
  BY DEF Colon, White, Space, NewLine, Atom
<1>3. FarWords = Atoms(Negations) \cup Atoms(CareActions)
  BY DEF FarWords, Atoms
<1>. QED BY <1>1, <1>2, <1>3 DEF GuardWords

\* No run of white space between the atom and a word its guards look for.
Single(x, i) ==
    \A k \in DOMAIN x : x[k] \in GuardWords =>
      \A j \in DOMAIN x : Between(j, i, k) => ~({x[j], x[j + 1]} \subseteq White)

\* From the raw text to the evened-out one.
LEMMA RawSignal ==
  ASSUME NEW x \in Seq(Tokens), NEW n \in Seq(Tokens), NEW p, Evens(p, x, n),
         NEW i \in DOMAIN x, x[i] \in Atoms(InjuryTerms), ~EmptyField(x, i), Single(x, i)
  PROVE  /\ p[i] \in 1..Len(n) /\ n[p[i]] = x[i] /\ ~EmptyField(n, p[i])
         /\ Asserts(x, i) <=> Asserts(n, p[i])
<1> DEFINE K == SolidAt(x)
<1>1. Carries(p, x, n, K)
  BY EvenCarries
<1>2. i \in K /\ x[i] \notin White
  BY RuleWords DEF SolidAt
<1>3. /\ Sees(p, x, n, K, Atoms(Negations)) /\ Sees(p, x, n, K, Atoms(CareActions))
      /\ Sees(p, x, n, K, Atoms(Questions)) /\ Sees(p, x, n, K, {Colon}) /\ OneLine(n)
  BY EvenSees, RuleWords
<1>4. SameSides(x, i, n, p[i])
  BY <1>2, EvenSides
<1>5. ASSUME NEW k \in K, x[k] \in GuardWords
      PROVE  (i < k => SameGap(p, x, n, i, k)) /\ (k < i => SameGap(p, x, n, k, i))
  <2>0. Len(x) \in Nat /\ i \in 1..Len(x) /\ k \in 1..Len(x) /\ DOMAIN x = 1..Len(x) /\ x[k] \notin White
    BY <1>2 DEF SolidAt
  <2>1. ASSUME NEW j \in DOMAIN x, Between(j, i, k) PROVE x[j] \notin White \/ x[j + 1] \notin White
    <3>1. k \in DOMAIN x
      BY <2>0
    <3>2. ~({x[j], x[j + 1]} \subseteq White)
      BY <1>5, <2>1, <3>1 DEF Single
    <3>. QED BY <3>2
  <2>2. ASSUME i < k PROVE SameGap(p, x, n, i, k)
    <3>1. ASSUME NEW j \in i..k, j < k PROVE x[j] \notin White \/ x[j + 1] \notin White
      <4>1. CASE j = i
        BY <1>2, <4>1
      <4>2. CASE j # i
        <5>1. j \in DOMAIN x /\ Between(j, i, k)
          BY <2>0, <3>1, <4>2 DEF Between
        <5>. QED BY <2>1, <5>1
      <4>. QED BY <4>1, <4>2
    <3>. QED BY <1>2, <2>2, <3>1, EvenGap
  <2>3. ASSUME k < i PROVE SameGap(p, x, n, k, i)
    <3>1. ASSUME NEW j \in k..i, j < i PROVE x[j] \notin White \/ x[j + 1] \notin White
      <4>1. CASE j = k
        BY <2>0, <4>1
      <4>2. CASE j # k
        <5>1. j \in DOMAIN x /\ Between(j, i, k)
          BY <2>0, <3>1, <4>2 DEF Between
        <5>. QED BY <2>1, <5>1
      <4>. QED BY <4>1, <4>2
    <3>. QED BY <1>2, <2>3, <3>1, EvenGap
  <2>. QED BY <2>2, <2>3
<1>9. /\ \A k \in K : x[k] \in FarWords => (i < k => SameGap(p, x, n, i, k)) /\ (k < i => SameGap(p, x, n, k, i))
      /\ \A k \in K : x[k] \in Atoms(Questions) /\ i < k /\ Blank(x, i + 1, k - 1) => SameGap(p, x, n, i, k)
  <2> HIDE DEF K
  <2>. QED BY <1>5, RuleWords
<1> HIDE DEF K
<1>6. p[i] \in 1..Len(n) /\ n[p[i]] = x[i]
  <2>1. p[i] \in 1..Len(n)
    BY <1>1, <1>2, CarriedAt
  <2>. QED BY <1>1, <1>2, <2>1 DEF Carries
<1>7. ~EmptyField(n, p[i])
  BY <1>1, <1>2, <1>3, EmptySame
<1>8. Asserts(x, i) <=> Asserts(n, p[i])
  BY <1>1, <1>2, <1>3, <1>4, <1>7, <1>9, GuardsAgree
<1>. QED BY <1>6, <1>7, <1>8

\* No placeholder touches the atom, or stands between it and a negation or a care verb.
Clear(y, i) ==
    /\ \A j \in DOMAIN y : j \in {i - 1, i + 1} => y[j].nr = 0
    /\ \A k \in DOMAIN y : y[k] \in FarWords => \A j \in DOMAIN y : Between(j, i, k) => y[j].nr = 0

\* What is put back for a placeholder holds none of these atoms.
HoldsNone(h, D) == \A a \in Tokens \ Written : ToSet(h[a]) \cap D = {}

\* From the masked text to what it stands for.
LEMMA MaskedSignal ==
  ASSUME NEW h, PutsBack(h), NEW y \in Seq(Tokens), NEW n \in Seq(Tokens), NEW q, Puts(q, h, y, n),
         OneLine(n), HoldsNone(h, GuardWords \cup {Colon}),
         NEW i \in DOMAIN y, y[i] \in Atoms(InjuryTerms), ~EmptyField(n, q[i]), Clear(y, i)
  PROVE  Asserts(y, i) <=> Asserts(n, q[i])
<1> DEFINE K == WrittenAt(y)
<1>0. Len(y) \in Nat /\ DOMAIN y = 1..Len(y) /\ \A j \in DOMAIN y : y[j].nr = 0 => y[j] \in Written
  <2>1. \A j \in DOMAIN y : y[j] \in Tokens
    OBVIOUS
  <2>2. \A j \in DOMAIN y : y[j].nr = 0 => y[j] \in Written
    BY <2>1, TokenParts
  <2>3. Len(y) \in Nat /\ DOMAIN y = 1..Len(y)
    OBVIOUS
  <2>. QED BY <2>2, <2>3
<1>1. Carries(q, y, n, K)
  BY PutCarries
<1>2. i \in K
  <2>1. y[i] \notin White /\ y[i].nr = 0
    BY RuleWords
  <2>. QED BY <1>0, <2>1 DEF WrittenAt, SolidAt
<1>3. ASSUME NEW D \in {Atoms(Negations), Atoms(CareActions), Atoms(Questions), {Colon}} PROVE Sees(q, y, n, K, D)
  <2>1. D \subseteq GuardWords \cup {Colon}
    BY RuleWords
  <2>2. \A a \in D : a \notin White /\ a.nr = 0
    BY <2>1, RuleWords
  <2>3. \A a \in Tokens \ Written : ToSet(h[a]) \cap D = {}
    BY <2>1 DEF HoldsNone
  <2>. QED BY <2>2, <2>3, PutSees
<1>4. SameSides(y, i, n, q[i])
  <2>1. \A j \in DOMAIN y : j \in {i - 1, i + 1} => y[j] \in Written
    BY <1>0 DEF Clear
  <2>. QED BY <1>2, <2>1, PutSides
<1>8. ASSUME NEW k \in K, i < k, Blank(y, i + 1, k - 1) PROVE SameGap(q, y, n, i, k)
  <2>1. i \in 1..Len(y) /\ k \in 1..Len(y) /\ y[k] \in Written /\ y[i] \in Written
    BY <1>0, <1>2 DEF WrittenAt, SolidAt
  <2>2. ASSUME NEW j \in i..k PROVE y[j] \in Written
    <3>1. CASE j = i \/ j = k
      BY <2>1, <3>1
    <3>2. CASE j \in (i + 1)..(k - 1)
      <4>1. y[j] \in White
        BY <1>8, <3>2 DEF Blank
      <4>. QED BY <4>1, SpellingsAssumption DEF White, Space, NewLine, Atom, Written
    <3>. QED BY <2>1, <3>1, <3>2
  <2>3. i <= k
    BY <1>8, <2>1
  <2>. QED BY <2>1, <2>2, <2>3, PutGap
<1>5. ASSUME NEW k \in K, y[k] \in FarWords
      PROVE  (i < k => SameGap(q, y, n, i, k)) /\ (k < i => SameGap(q, y, n, k, i))
  <2>0. /\ i \in 1..Len(y) /\ k \in 1..Len(y) /\ y[k] \in Written /\ y[i] \in Written
    BY <1>0, <1>2 DEF WrittenAt, SolidAt
  <2>1. ASSUME NEW j \in DOMAIN y, Between(j, i, k) \/ j = i \/ j = k PROVE y[j] \in Written
    <3>1. CASE Between(j, i, k)
      <4>1. k \in DOMAIN y
        BY <1>0, <2>0
      <4>2. y[j].nr = 0
        BY <1>5, <3>1, <4>1 DEF Clear
      <4>. QED BY <1>0, <4>2
    <3>. QED BY <2>0, <2>1, <3>1
  <2>2. ASSUME i < k PROVE SameGap(q, y, n, i, k)
    <3>1. ASSUME NEW j \in i..k PROVE y[j] \in Written
      <4>1. j \in DOMAIN y /\ (Between(j, i, k) \/ j = i \/ j = k)
        BY <1>0, <2>0 DEF Between
      <4>. QED BY <2>1, <4>1
    <3>2. i <= k
      BY <2>0, <2>2
    <3>. QED BY <2>0, <3>1, <3>2, PutGap
  <2>3. ASSUME k < i PROVE SameGap(q, y, n, k, i)
    <3>1. ASSUME NEW j \in k..i PROVE y[j] \in Written
      <4>1. j \in DOMAIN y /\ (Between(j, i, k) \/ j = i \/ j = k)
        BY <1>0, <2>0 DEF Between
      <4>. QED BY <2>1, <4>1
    <3>2. k <= i
      BY <2>0, <2>3
    <3>. QED BY <2>0, <3>1, <3>2, PutGap
  <2>. QED BY <2>2, <2>3
<1>6. OneLine(y)
  BY PutOneLine
<1> HIDE DEF K
<1>7. ~EmptyField(y, i)
  BY <1>1, <1>2, <1>3, <1>6, EmptySame
<1>. QED BY <1>1, <1>2, <1>3, <1>4, <1>5, <1>7, <1>8, GuardsAgree

\* Both texts are compared with the raw one evened out.
LEMMA SignalsMove ==
  ASSUME raw \in Texts, masked = MaskAll(raw).text, mappings = MaskAll(raw).mappings, PlainText,
         NEW term \in InjuryTerms, ~ReplacedBeside(term), ~EvenedOut(term),
         ~ReplacedWith(GuardWords \cup {Atom(term)}),
         \A i \in DOMAIN raw : raw[i] = Atom(term) => ~EmptyField(raw, i)
  PROVE  term \in InjurySignals(raw) <=> term \in InjurySignals(masked)
<1> DEFINE n == Norm(raw)
           h == Unmasks(mappings)
           a == Atom(term)
<1>1. raw \in Seq(Tokens) /\ n \in Seq(Tokens)
  <2>1. raw \in Seq(Tokens)
    BY TextsAssumption
  <2>. QED BY <2>1, NormType
<1>2. Sound(mappings) /\ masked \in Seq(Tokens) /\ Put(h, masked) = Norm(Put(h, raw))
  BY <1>1, MaskAllPut
<1>3. PutsBack(h)
  BY <1>2, UnmasksFacts DEF PutsBack
<1>4. Put(h, masked) = n
  <2>1. Put(h, raw) = raw
    BY <1>3, WrittenStays DEF PlainText, PutsBack
  <2>. QED BY <1>2, <2>1
<1>5. a \in Atoms(InjuryTerms) /\ a \notin White /\ a.nr = 0
  BY RuleWords DEF Atoms
<1>6. ASSUME NEW D \in SUBSET (GuardWords \cup {Colon, a})
      PROVE  (\A b \in D : b \notin White /\ b.nr = 0) /\ \A b \in Tokens \ Written : ToSet(h[b]) \cap D = {}
  <2>1. \A b \in D : b \notin White /\ b.nr = 0
    BY <1>5, RuleWords
  <2>2. ASSUME NEW m \in ToSet(mappings) PROVE ToSet(m.value) \cap D = {}
    <3>1. Colon \notin ToSet(m.value)
      BY <1>1, NoColonIsReplaced
    <3>2. ToSet(m.value) \cap (GuardWords \cup {a}) = {}
      BY DEF ReplacedWith
    <3> HIDE DEF a, h, n
    <3> DEFINE v == ToSet(m.value)
               g == GuardWords
    <3>4. Colon \notin v /\ v \cap (g \cup {a}) = {} /\ D \subseteq g \cup {Colon, a}
      BY <3>1, <3>2
    <3> HIDE DEF v, g
    <3>5. v \cap D = {}
      BY <3>4
    <3>. QED BY <3>5 DEF v
  <2>3. \A b \in Tokens \ Written : ToSet(h[b]) \cap D = {}
    BY <1>2, <2>1, <2>2, UnmasksFree
  <2>. QED BY <2>1, <2>3
<1> HIDE DEF n, h, a
<1>7. PICK p : Evens(p, raw, n)
  BY <1>1, EvensOut DEF n
<1>8. PICK q : Puts(q, h, masked, n)
  <2>1. Swaps(h, Tokens)
    BY <1>3 DEF PutsBack, Respects
  <2>2. \E q : Puts(q, h, masked, Put(h, masked))
    BY <1>2, <2>1, PutsOut
  <2>. QED BY <1>4, <2>2
<1>9. OneLine(n)
  BY <1>1, <1>7, EvenSees
<1>10. ASSUME NEW i \in DOMAIN raw, raw[i] = a
       PROVE  /\ p[i] \in 1..Len(n) /\ n[p[i]] = a /\ ~EmptyField(n, p[i])
              /\ Asserts(raw, i) <=> Asserts(n, p[i])
  <2>1. raw[i] \in Atoms(InjuryTerms) /\ ~EmptyField(raw, i)
    BY <1>5, <1>10 DEF a
  <2>2. Single(raw, i)
    BY <1>10 DEF EvenedOut, Single, a
  <2>3. i \in DOMAIN raw
    OBVIOUS
  <2>4. p[i] \in 1..Len(n) /\ n[p[i]] = raw[i] /\ ~EmptyField(n, p[i]) /\ (Asserts(raw, i) <=> Asserts(n, p[i]))
    BY <1>1, <1>7, <2>1, <2>2, <2>3, RawSignal, Zenon
  <2>. QED BY <1>10, <2>4
<1>11. ASSUME NEW j \in DOMAIN masked, masked[j] = a
       PROVE  /\ \E i \in DOMAIN raw : raw[i] = a /\ p[i] = q[j]
              /\ Asserts(masked, j) <=> Asserts(n, q[j])
  <2>1. q[j] \in DOMAIN n /\ n[q[j]] = a
    <3>1. Carries(q, masked, n, WrittenAt(masked)) /\ Sees(q, masked, n, WrittenAt(masked), {a})
      <4>1. {a} \in SUBSET (GuardWords \cup {Colon, a})
        OBVIOUS
      <4>2. (\A b \in {a} : b \notin White /\ b.nr = 0) /\ \A b \in Tokens \ Written : ToSet(h[b]) \cap {a} = {}
        BY <1>6, <4>1
      <4>3. Carries(q, masked, n, WrittenAt(masked))
        BY <1>1, <1>2, <1>3, <1>8, PutCarries
      <4>4. Sees(q, masked, n, WrittenAt(masked), {a})
        BY <1>1, <1>2, <1>3, <1>8, <4>2, PutSees
      <4>. QED BY <4>3, <4>4
    <3>2. j \in WrittenAt(masked)
      BY <1>11, <3>1 DEF Sees
    <3>3. q[j] \in 1..Len(n)
      BY <1>1, <1>2, <3>1, <3>2, CarriedAt
    <3>4. n[q[j]] = masked[j]
      BY <3>1, <3>2 DEF Carries
    <3>5. DOMAIN n = 1..Len(n)
      BY <1>1
    <3>. QED BY <1>11, <3>3, <3>4, <3>5
  <2>2. PICK i \in SolidAt(raw) : q[j] = p[i]
    <3>1. n[q[j]] # Space
      BY <1>5, <2>1 DEF White
    <3>. QED BY <1>1, <1>7, <2>1, <3>1, EvenCarries
  <2>3. i \in DOMAIN raw /\ raw[i] = a
    <3>1. Carries(p, raw, n, SolidAt(raw))
      BY <1>1, <1>7, EvenCarries
    <3>2. n[p[i]] = raw[i]
      BY <3>1 DEF Carries
    <3>. QED BY <2>1, <2>2, <3>2 DEF SolidAt
  <2>4. ~EmptyField(n, q[j])
    BY <1>10, <2>2, <2>3
  <2>5. \A k \in DOMAIN masked : masked[k] \in Tokens /\ (masked[k].nr = 0 \/ masked[k].nr > 0)
    <3>1. \A k \in DOMAIN masked : masked[k] \in Tokens
      BY <1>2
    <3>2. \A b \in Tokens : b.nr = 0 \/ b.nr > 0
      BY DEF Tokens, Written
    <3>. QED BY <3>1, <3>2
  <2>6. Clear(masked, j)
    BY <1>11, <2>5 DEF ReplacedBeside, Clear, a
  <2>7. HoldsNone(h, GuardWords \cup {Colon})
    BY <1>6 DEF HoldsNone
  <2>8. masked[j] \in Atoms(InjuryTerms)
    BY <1>5, <1>11
  <2>9. Asserts(masked, j) <=> Asserts(n, q[j])
    <3>1. n \in Seq(Tokens) /\ masked \in Seq(Tokens) /\ PutsBack(h) /\ Puts(q, h, masked, n) /\ OneLine(n)
      BY <1>1, <1>2, <1>3, <1>8, <1>9
    <3>2. j \in DOMAIN masked
      OBVIOUS
    <3>. QED BY <2>4, <2>6, <2>7, <2>8, <3>1, <3>2, MaskedSignal, Zenon
  <2>. QED BY <2>2, <2>3, <2>9
<1>12. ASSUME NEW i \in DOMAIN raw, raw[i] = a
       PROVE  \E j \in DOMAIN masked : masked[j] = a /\ p[i] = q[j]
  <2>1. p[i] \in DOMAIN n /\ n[p[i]] \in {a}
    <3>1. p[i] \in 1..Len(n) /\ n[p[i]] = a
      BY <1>10, <1>12
    <3>2. DOMAIN n = 1..Len(n)
      BY <1>1
    <3>. QED BY <3>1, <3>2
  <2>2. {a} \in SUBSET (GuardWords \cup {Colon, a})
    OBVIOUS
  <2>3. (\A b \in {a} : b \notin White /\ b.nr = 0) /\ \A b \in Tokens \ Written : ToSet(h[b]) \cap {a} = {}
    BY <1>6, <2>2
  <2>4. Sees(q, masked, n, WrittenAt(masked), {a}) /\ Carries(q, masked, n, WrittenAt(masked))
    BY <1>1, <1>2, <1>3, <1>8, <2>3, PutSees, PutCarries
  <2>5. PICK j \in WrittenAt(masked) : p[i] = q[j]
    BY <2>1, <2>4 DEF Sees
  <2>6. masked[j] = n[q[j]]
    BY <2>4 DEF Carries
  <2>. QED BY <2>1, <2>5, <2>6 DEF WrittenAt, SolidAt
<1>13. term \in InjurySignals(raw) <=> \E i \in DOMAIN raw : raw[i] = a /\ Asserts(raw, i)
  BY SignalAt DEF a
<1>14. term \in InjurySignals(masked) <=> \E j \in DOMAIN masked : masked[j] = a /\ Asserts(masked, j)
  BY SignalAt DEF a
<1>15. ASSUME NEW i \in DOMAIN raw, raw[i] = a, Asserts(raw, i)
       PROVE  \E j \in DOMAIN masked : masked[j] = a /\ Asserts(masked, j)
  <2>1. PICK j \in DOMAIN masked : masked[j] = a /\ p[i] = q[j]
    BY <1>12, <1>15
  <2>2. Asserts(n, q[j])
    BY <1>10, <1>15, <2>1
  <2>. QED BY <1>11, <2>1, <2>2
<1>16. ASSUME NEW j \in DOMAIN masked, masked[j] = a, Asserts(masked, j)
       PROVE  \E i \in DOMAIN raw : raw[i] = a /\ Asserts(raw, i)
  <2>1. PICK i \in DOMAIN raw : raw[i] = a /\ p[i] = q[j]
    BY <1>11, <1>16
  <2>2. Asserts(n, p[i])
    BY <1>11, <1>16, <2>1
  <2>. QED BY <1>10, <2>1, <2>2
<1>. QED BY <1>13, <1>14, <1>15, <1>16, Zenon

LEMMA SignalsInvariant ==
  ASSUME IInv
  PROVE  SignalsMoveOnlyByMasking
<1> SUFFICES ASSUME step = "sanity", PlainText, NEW term \in InjuryTerms,
                    ~ReplacedBeside(term), ~EvenedOut(term),
                    ~ReplacedWith(GuardWords \cup {Atom(term)}),
                    \A i \in DOMAIN raw : raw[i] = Atom(term) => ~EmptyField(raw, i)
             PROVE  term \in InjurySignals(raw) <=> term \in InjurySignals(masked)
  BY Zenon DEF SignalsMoveOnlyByMasking
<1>1. raw \in Texts /\ MaskedOrRaw
  BY DEF IInv
<1>2. CASE masked = MaskAll(raw).text /\ mappings = MaskAll(raw).mappings
  BY <1>1, <1>2, SignalsMove
<1>3. CASE masked = raw /\ mappings = <<>>
  BY <1>3, Zenon
<1>. QED BY <1>1, <1>2, <1>3 DEF MaskedOrRaw

-----------------------------------------------------------------------------
(* The steps.                                                               *)

\* What extraction may answer depends on the text, its mappings and the urgency.
LEMMA AnswersStay ==
  ASSUME masked' = masked, mappings' = mappings, verdict' = verdict
  PROVE  /\ PlateValues' = PlateValues /\ Quotes' = Quotes
         /\ \A plate, injury, shown, hurt :
              Extracted(plate, injury, Evidence(plate, shown, hurt))'
                = Extracted(plate, injury, Evidence(plate, shown, hurt))
<1>1. PlateValues' = PlateValues /\ Quotes' = Quotes
  BY DEF PlateValues, Quotes
<1>2. ASSUME NEW quote PROVE Reference(quote)' = Reference(quote)
  BY DEF Reference
<1>3. ASSUME NEW p PROVE Excerpt(p)' = Excerpt(p)
  BY DEF Excerpt
<1>4. ASSUME NEW given, NEW value PROVE Resolve(given, value)' = Resolve(given, value)
  BY <1>2, <1>3 DEF Resolve
<1>5. ASSUME NEW plate, NEW shown, NEW hurt PROVE Evidence(plate, shown, hurt)' = Evidence(plate, shown, hurt)
  BY <1>4 DEF Evidence
<1>6. ASSUME NEW plate, NEW injury PROVE Blocking(plate, injury)' = Blocking(plate, injury)
  BY DEF Blocking
<1>7. ASSUME NEW refs PROVE Unmasked(refs)' = Unmasked(refs)
  BY DEF Unmasked
<1>8. ASSUME NEW plate, NEW injury, NEW shown, NEW hurt
      PROVE  Extracted(plate, injury, Evidence(plate, shown, hurt))'
                = Extracted(plate, injury, Evidence(plate, shown, hurt))
  BY <1>5, <1>6, <1>7 DEF Extracted
<1>. QED BY <1>1, <1>8

LEMMA InitInvariant ==
  ASSUME Init
  PROVE  IInv
BY DEF Init, IInv, NoData

LEMMA MaskInvariant ==
  ASSUME IInv, StepMask \/ StepMaskFails
  PROVE  IInv'
<1>1. step = "mask" /\ step' = "sanity"
  BY DEF StepMask, StepMaskFails
<1>2. /\ raw \in Texts /\ flags = <<>> /\ check = "none" /\ mappings = <<>>
      /\ data = NoData /\ status # "approved"
  BY <1>1 DEF IInv
<1>3. raw' = raw /\ flags' = flags /\ check' = check /\ data' = data /\ status' = status
  BY DEF StepMask, StepMaskFails
<1>4. MaskedOrRaw'
  <2>1. CASE StepMask
    BY <2>1 DEF StepMask, MaskedOrRaw
  <2>2. CASE StepMaskFails
    BY <1>2, <2>2 DEF StepMaskFails, MaskedOrRaw
  <2>. QED BY <2>1, <2>2
<1>5. data' = NoData'
  BY <1>2, <1>3 DEF NoData
<1>. QED BY <1>1, <1>2, <1>3, <1>4, <1>5 DEF IInv

\* No span of a flag is outside the text.
LEMMA FlagsHold ==
  ASSUME NEW leak_found \in BOOLEAN, NEW span \in Guesses(Chars(masked)), NEW i \in DOMAIN Flagged(leak_found, <<span>>)
  PROVE  SpanHolds(Flagged(leak_found, <<span>>)[i])
<1>1. leak_found /\ i = 1 /\ Flagged(leak_found, <<span>>)[i] = ClampSpan(span, Chars(masked))
  BY DEF Flagged
<1>. QED BY <1>1 DEF ClampSpan, SpanHolds

LEMMA SanityStepInvariant ==
  ASSUME IInv, StepMaskSanity
  PROVE  IInv'
<1>1. /\ step = "sanity" /\ step' = "classify"
      /\ raw' = raw /\ masked' = masked /\ mappings' = mappings /\ data' = data /\ status' = status
  BY DEF StepMaskSanity
<1>2. raw \in Texts /\ MaskedOrRaw /\ data = NoData /\ status # "approved"
  BY <1>1 DEF IInv
<1>3. MaskedOrRaw' /\ data' = NoData'
  BY <1>1, <1>2 DEF MaskedOrRaw, NoData
<1>4. (check' = "failed" => flags' # <<>>) /\ \A i \in DOMAIN flags' : SpanHolds(flags'[i])
  <2>1. CASE \E leak_found \in BOOLEAN, guess \in Guesses(Chars(masked)) :
               check' = "answered" /\ flags' = Flagged(leak_found, <<guess>>)
    BY <2>1, FlagsHold
  <2>2. CASE check' = "failed" /\ flags' = CheckFailed
    BY <2>2 DEF CheckFailed, SpanHolds
  <2>3. CASE check' = "off" /\ flags' = <<>>
    BY <2>3
  <2>. QED BY <2>1, <2>2, <2>3 DEF StepMaskSanity
<1>5. \A i \in DOMAIN flags' : SpanHolds(flags[i])'
  BY <1>1, <1>4 DEF SpanHolds
<1>. QED BY <1>1, <1>2, <1>3, <1>4, <1>5 DEF IInv

LEMMA ClassifyInvariant ==
  ASSUME IInv, StepClassify \/ StepClassifyFails
  PROVE  IInv'
<1>1. /\ step = "classify" /\ step' = "extract" /\ raw' = raw /\ masked' = masked /\ mappings' = mappings
      /\ flags' = flags /\ check' = check /\ data' = data /\ status' = status
  BY DEF StepClassify, StepClassifyFails
<1>2. /\ raw \in Texts /\ MaskedOrRaw /\ data = NoData /\ status # "approved"
      /\ (check = "failed" => flags # <<>>) /\ \A i \in DOMAIN flags : SpanHolds(flags[i])
  BY <1>1 DEF IInv
<1>3. MaskedOrRaw' /\ data' = NoData' /\ \A i \in DOMAIN flags' : SpanHolds(flags[i])'
  BY <1>1, <1>2 DEF MaskedOrRaw, NoData, SpanHolds
<1>4. InjurySignals(masked') # {} => verdict'.urgency = "critical"
  BY <1>1 DEF StepClassify, StepClassifyFails
<1>. QED BY <1>1, <1>2, <1>3, <1>4 DEF IInv

LEMMA ExtractInvariant ==
  ASSUME IInv, ExtractionSkipped \/ ExtractionFails \/ StepExtract
  PROVE  IInv'
<1>1. /\ step = "extract" /\ step' = "approve" /\ raw' = raw /\ masked' = masked /\ mappings' = mappings
      /\ flags' = flags /\ check' = check /\ verdict' = verdict /\ status' = status
  BY DEF ExtractionSkipped, ExtractionFails, StepExtract
<1>2. /\ raw \in Texts /\ MaskedOrRaw /\ data = NoData /\ status # "approved"
      /\ (check = "failed" => flags # <<>>) /\ (\A i \in DOMAIN flags : SpanHolds(flags[i]))
      /\ (InjurySignals(masked) # {} => verdict.urgency = "critical")
  BY <1>1 DEF IInv
<1>3. MaskedOrRaw' /\ \A i \in DOMAIN flags' : SpanHolds(flags[i])'
  BY <1>1, <1>2 DEF MaskedOrRaw, SpanHolds
<1>4. data' # NoData' => IsExtracted(data)'
  <2>1. CASE data' = data
    BY <1>2, <2>1 DEF NoData
  <2>2. CASE StepExtract
    <3>1. PICK plate \in PlateValues, injury \in {"null", "true", "false"},
               shown \in {{}} \cup {{quote} : quote \in Quotes}, hurt \in {{}, {masked}} :
            data' = Extracted(plate, injury, Evidence(plate, shown, hurt))
      BY <2>2 DEF StepExtract
    <3>2. /\ PlateValues' = PlateValues /\ Quotes' = Quotes
          /\ Extracted(plate, injury, Evidence(plate, shown, hurt))'
                = Extracted(plate, injury, Evidence(plate, shown, hurt))
      BY <1>1, AnswersStay
    <3>3. /\ plate \in PlateValues' /\ shown \in {{}} \cup {{quote} : quote \in Quotes'} /\ hurt \in {{}, {masked'}}
          /\ data' = Extracted(plate, injury, Evidence(plate, shown, hurt))'
      BY <1>1, <3>1, <3>2
    <3>4. IsExtracted(data)'
      BY <3>3 DEF IsExtracted
    <3>. QED BY <3>4
  <2>. QED BY <2>1, <2>2 DEF ExtractionSkipped, ExtractionFails
<1>. QED BY <1>1, <1>2, <1>3, <1>4 DEF IInv

\* Where the text, the verdict and the data stay, what they say stays.
LEMMA DataStay ==
  ASSUME IInv, step # "mask", masked' = masked, mappings' = mappings, verdict' = verdict, data' = data,
         raw' = raw, flags' = flags
  PROVE  /\ MaskedOrRaw' /\ (\A i \in DOMAIN flags' : SpanHolds(flags[i])')
         /\ (data' # NoData' => IsExtracted(data)' /\ step \in {"approve", "done"})
<1>1. MaskedOrRaw /\ \A i \in DOMAIN flags : SpanHolds(flags[i])
  BY DEF IInv
<1>2. MaskedOrRaw' /\ \A i \in DOMAIN flags' : SpanHolds(flags[i])'
  BY <1>1 DEF MaskedOrRaw, SpanHolds
<1>3. data' # NoData' => IsExtracted(data)' /\ step \in {"approve", "done"}
  <2>1. HAVE data' # NoData'
  <2>2. IsExtracted(data) /\ step \in {"approve", "done"}
    BY <2>1 DEF IInv, NoData
  <2>3. PICK plate \in PlateValues, injury \in {"null", "true", "false"},
             shown \in {{}} \cup {{quote} : quote \in Quotes}, hurt \in {{}, {masked}} :
          data = Extracted(plate, injury, Evidence(plate, shown, hurt))
    BY <2>2 DEF IsExtracted
  <2>4. /\ PlateValues' = PlateValues /\ Quotes' = Quotes
        /\ Extracted(plate, injury, Evidence(plate, shown, hurt))'
              = Extracted(plate, injury, Evidence(plate, shown, hurt))
    BY AnswersStay
  <2>5. /\ plate \in PlateValues' /\ shown \in {{}} \cup {{quote} : quote \in Quotes'} /\ hurt \in {{}, {masked'}}
        /\ data' = Extracted(plate, injury, Evidence(plate, shown, hurt))'
    BY <2>3, <2>4
  <2>6. IsExtracted(data)'
    BY <2>5 DEF IsExtracted
  <2>. QED BY <2>2, <2>6
<1>. QED BY <1>2, <1>3

LEMMA ApproveInvariant ==
  ASSUME IInv, StepAutoApprove
  PROVE  IInv'
<1>1. /\ step = "approve" /\ step' = "done" /\ raw' = raw /\ masked' = masked /\ mappings' = mappings
      /\ flags' = flags /\ check' = check /\ verdict' = verdict /\ data' = data
      /\ status' = IF Approvable THEN "approved" ELSE status
  BY DEF StepAutoApprove
<1>2. /\ raw \in Texts /\ status # "approved"
      /\ (check = "failed" => flags # <<>>)
      /\ (InjurySignals(masked) # {} => verdict.urgency = "critical")
  BY <1>1 DEF IInv
<1>3. /\ MaskedOrRaw' /\ (\A i \in DOMAIN flags' : SpanHolds(flags[i])')
      /\ (data' # NoData' => IsExtracted(data)')
  BY <1>1, DataStay
<1>4. status' = "approved" => Approvable'
  BY <1>1, <1>2 DEF Approvable
<1>. QED BY <1>1, <1>2, <1>3, <1>4 DEF IInv

LEMMA StutterInvariant ==
  ASSUME IInv, UNCHANGED vars
  PROVE  IInv'
<1>1. /\ step' = step /\ raw' = raw /\ masked' = masked /\ mappings' = mappings
      /\ flags' = flags /\ check' = check /\ verdict' = verdict /\ data' = data /\ status' = status
  BY DEF vars
<1>2. CASE step = "mask"
  <2>1. /\ raw \in Texts /\ flags = <<>> /\ check = "none" /\ mappings = <<>>
        /\ data = NoData /\ status # "approved"
    BY <1>2 DEF IInv
  <2>2. data' = NoData'
    BY <1>1, <2>1 DEF NoData
  <2>. QED BY <1>1, <1>2, <2>1, <2>2 DEF IInv
<1>3. CASE step # "mask"
  <2>1. /\ MaskedOrRaw' /\ (\A i \in DOMAIN flags' : SpanHolds(flags[i])')
        /\ (data' # NoData' => IsExtracted(data)' /\ step \in {"approve", "done"})
    BY <1>1, <1>3, DataStay
  <2>2. status' = "approved" => step = "done" /\ Approvable'
    BY <1>1 DEF IInv, Approvable
  <2>3. /\ raw \in Texts /\ (check = "failed" => flags # <<>>)
        /\ (step \in {"extract", "approve", "done"} /\ InjurySignals(masked) # {} => verdict.urgency = "critical")
    BY DEF IInv
  <2>. QED BY <1>1, <1>3, <2>1, <2>2, <2>3 DEF IInv
<1>. QED BY <1>2, <1>3

-----------------------------------------------------------------------------
(* Theorems.                                                                *)

\* Text, mappings, flags, evidence and verdict fit each other in every reachable
\* state, whatever the models answer and whichever step fails.
THEOREM Invariance == Spec => []IInv
<1>1. Init => IInv
  BY InitInvariant
<1>2. IInv /\ [Next]_vars => IInv'
  <2> SUFFICES ASSUME IInv, [Next]_vars PROVE IInv'
    OBVIOUS
  <2>1. CASE StepMask \/ StepMaskFails
    BY <2>1, MaskInvariant
  <2>2. CASE StepMaskSanity
    BY <2>2, SanityStepInvariant
  <2>3. CASE StepClassify \/ StepClassifyFails
    BY <2>3, ClassifyInvariant
  <2>4. CASE ExtractionSkipped \/ ExtractionFails \/ StepExtract
    BY <2>4, ExtractInvariant
  <2>5. CASE StepAutoApprove
    BY <2>5, ApproveInvariant
  <2>6. CASE UNCHANGED vars
    BY <2>6, StutterInvariant
  <2>. QED BY <2>1, <2>2, <2>3, <2>4, <2>5, <2>6 DEF Next
<1>. QED BY <1>1, <1>2, PTL DEF Spec

\* Unmasking undoes masking, white space aside, for every text that does not look
\* masked already and for all patterns and dictionaries (regex_rules.py,
\* name_dict.py, unmask.py).
THEOREM TheWordsComeBack == Spec => []RoundTrip
BY Invariance, RoundTripHolds, PTL

\* What was masked keeps no value of a pattern and no unambiguous name, whatever
\* the patterns, the dictionaries and the text (regex_rules.py, name_dict.py).
THEOREM NothingKnownIsLeft == Spec => NothingKnownLeft
<1>1. IInv /\ [Next]_vars => [StepMask => NothingKnown']_vars
  BY MaskLeavesNothing
<1>. QED BY <1>1, Invariance, PTL DEF Spec, NothingKnownLeft

\* A field extract has not marked unverified has its place in the masked text, and
\* what stands there, with the values put back, is the quote the operator is shown
\* (extractor.py, unmask.py).
THEOREM EvidenceIsThere == Spec => []EvidenceHolds
BY Invariance, EvidenceInvariant, PTL

\* The gate approves only what quotes the sender, reports no injury in the text it
\* was given and has a plate that is one (auto_approve.py, extractor.py).
THEOREM ApprovalRestsOnTheText == Spec => []ApprovedRestsOnTheText
BY Invariance, ApprovedInvariant, PTL

\* A sanity check that failed is not taken for one that found nothing, and no span
\* a model made up reaches beyond the text (sanity.py).
THEOREM FailsClosed == Spec => []SanityFailsClosed
BY Invariance, SanityInvariant, PTL

\* For every dictionary, every pattern and every text without placeholders, masking
\* changes what the injury terms say only for the reasons it names (injury_terms.py,
\* regex_rules.py, name_dict.py).
THEOREM SignalsMoveForAReason == Spec => []SignalsMoveOnlyByMasking
BY Invariance, SignalsInvariant, PTL

===============================================================================

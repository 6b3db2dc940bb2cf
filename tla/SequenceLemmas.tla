---------------------------- MODULE SequenceLemmas ----------------------------
(***************************************************************************)
(* Induction over the naturals, stated for a set, and what follows from it: *)
(* that a function defined by recursion over 0..n exists, and what the      *)
(* recursive functions of the other modules return.                         *)
(***************************************************************************)
EXTENDS Selections, SequencesExt, WellFoundedInduction, TLAPS

-----------------------------------------------------------------------------
(* Induction and recursion.                                                 *)

Less == {p \in Nat \X Nat : p[1] < p[2]}

LEMMA LessWellFounded == IsWellFoundedOn(Less, Nat)
BY NatLessThanWellFounded DEF OpToRel, Less

\* A set with 0 in it and with every successor holds every natural number.
LEMMA SetInduction ==
  ASSUME NEW S \in SUBSET Nat, 0 \in S, \A n \in S : n + 1 \in S
  PROVE  S = Nat
<1> DEFINE T == Nat \ S
<1> SUFFICES ASSUME T # {} PROVE FALSE
  OBVIOUS
<1>1. PICK x \in T : \A y \in T : <<y, x>> \notin Less
  <2> HIDE DEF T
  <2>1. T \subseteq Nat
    BY DEF T
  <2>. QED BY LessWellFounded, <2>1, WFMin
<1>2. x \in Nat /\ x # 0 /\ x - 1 \in Nat /\ <<x - 1, x>> \in Less
  BY DEF Less
<1>3. x - 1 \in S
  BY <1>1, <1>2
<1>. QED BY <1>1, <1>2, <1>3

\* The same up to a bound.
LEMMA IntervalInduction ==
  ASSUME NEW N \in Nat, NEW S, 0 \in S, \A n \in 1..N : n - 1 \in S => n \in S
  PROVE  0..N \subseteq S
<1> DEFINE T == {n \in Nat : n <= N => n \in S}
<1>1. 0 \in T
  OBVIOUS
<1>2. ASSUME NEW n \in T PROVE n + 1 \in T
  OBVIOUS
<1>3. T = Nat
  <2> HIDE DEF T
  <2>1. T \in SUBSET Nat
    BY DEF T
  <2>. QED BY <1>1, <1>2, <2>1, SetInduction
<1>. QED BY <1>3

\* A function of 0..N that starts with base and goes on by the steps.
Runs(f, N, base, step) ==
    f = [n \in 0..N |-> IF n = 0 THEN base ELSE step[n][f[n - 1]]]

LEMMA Recursion ==
  ASSUME NEW N \in Nat, NEW A, NEW base \in A, NEW step \in [1..N -> [A -> A]]
  PROVE  \E f \in [0..N -> A] : Runs(f, N, base, step)
<1> DEFINE S == {m \in Nat : m <= N => \E f \in [0..m -> A] : Runs(f, m, base, step)}
<1>1. 0 \in S
  <2>1. [n \in 0..0 |-> base] \in [0..0 -> A] /\ Runs([n \in 0..0 |-> base], 0, base, step)
    BY DEF Runs
  <2>. QED BY <2>1
<1>2. ASSUME NEW m \in S PROVE m + 1 \in S
  <2> SUFFICES ASSUME m + 1 <= N
               PROVE  \E f \in [0..(m + 1) -> A] : Runs(f, m + 1, base, step)
    OBVIOUS
  <2>1. PICK f \in [0..m -> A] : Runs(f, m, base, step)
    OBVIOUS
  <2> DEFINE g == [n \in 0..(m + 1) |-> IF n = m + 1 THEN step[n][f[m]] ELSE f[n]]
  <2>2. m \in Nat /\ m + 1 \in 1..N /\ f[m] \in A /\ step[m + 1][f[m]] \in A
    BY <2>1
  <2>3. g \in [0..(m + 1) -> A]
    BY <2>1, <2>2
  <2>4. ASSUME NEW n \in 0..(m + 1)
        PROVE  g[n] = IF n = 0 THEN base ELSE step[n][g[n - 1]]
    <3>1. CASE n = 0
      BY <2>1, <2>2, <3>1 DEF Runs
    <3>2. CASE n \in 1..m
      <4>1. n \in 0..m /\ n - 1 \in 0..m /\ n # 0 /\ n # m + 1 /\ n - 1 # m + 1
        BY <2>2, <3>2
      <4>2. f[n] = step[n][f[n - 1]]
        BY <2>1, <4>1 DEF Runs
      <4>3. g[n] = f[n] /\ g[n - 1] = f[n - 1]
        BY <2>2, <4>1
      <4>. QED BY <4>1, <4>2, <4>3
    <3>3. CASE n = m + 1
      <4>1. g[m] = f[m] /\ n - 1 = m /\ n # 0
        BY <2>2, <3>3
      <4>. QED BY <3>3, <4>1
    <3>. QED BY <2>2, <3>1, <3>2, <3>3
  <2>5. Runs(g, m + 1, base, step)
    <3> DEFINE h == [n \in 0..(m + 1) |-> IF n = 0 THEN base ELSE step[n][g[n - 1]]]
    <3>1. DOMAIN g = DOMAIN h /\ \A n \in DOMAIN g : g[n] = h[n]
      BY <2>4
    <3> HIDE DEF g
    <3>2. g = h
      BY <2>3, <3>1
    <3>. QED BY <3>2 DEF Runs
  <2>. QED BY <2>3, <2>5
<1>3. S = Nat
  <2> HIDE DEF S
  <2>1. S \in SUBSET Nat
    BY DEF S
  <2>. QED BY <1>1, <1>2, <2>1, SetInduction
<1>. QED BY <1>3

-----------------------------------------------------------------------------
(* The elements of a sequence.                                              *)

LEMMA ElementsEmpty == ToSet(<<>>) = {}
BY DEF ToSet

LEMMA ElementsAppend ==
  ASSUME NEW X, NEW s \in Seq(X), NEW e \in X
  PROVE  ToSet(Append(s, e)) = ToSet(s) \cup {e}
<1>1. Len(Append(s, e)) = Len(s) + 1 /\ Len(s) \in Nat
  OBVIOUS
<1>2. Append(s, e)[Len(s) + 1] = e /\ \A i \in 1..Len(s) : Append(s, e)[i] = s[i]
  OBVIOUS
<1>3. DOMAIN Append(s, e) = 1..Len(s) \cup {Len(s) + 1} /\ DOMAIN s = 1..Len(s)
  BY <1>1
<1>. QED BY <1>2, <1>3 DEF ToSet

LEMMA ElementsConcat ==
  ASSUME NEW X, NEW s \in Seq(X), NEW t \in Seq(X)
  PROVE  ToSet(s \o t) = ToSet(s) \cup ToSet(t)
<1>1. /\ Len(s) \in Nat /\ Len(t) \in Nat /\ DOMAIN (s \o t) = 1..(Len(s) + Len(t))
      /\ DOMAIN s = 1..Len(s) /\ DOMAIN t = 1..Len(t)
      /\ \A i \in 1..(Len(s) + Len(t)) : (s \o t)[i] = IF i <= Len(s) THEN s[i] ELSE t[i - Len(s)]
  OBVIOUS
<1>2. ToSet(s \o t) \subseteq ToSet(s) \cup ToSet(t)
  BY <1>1 DEF ToSet
<1>3. ToSet(s) \subseteq ToSet(s \o t)
  BY <1>1 DEF ToSet
<1>4. ASSUME NEW j \in DOMAIN t PROVE t[j] \in ToSet(s \o t)
  <2>1. j + Len(s) \in 1..(Len(s) + Len(t)) /\ (s \o t)[j + Len(s)] = t[j]
    BY <1>1
  <2>. QED BY <1>1, <2>1 DEF ToSet
<1>. QED BY <1>2, <1>3, <1>4 DEF ToSet

LEMMA ConcatAt ==
  ASSUME NEW X, NEW s \in Seq(X), NEW t \in Seq(X)
  PROVE  /\ s \o t \in Seq(X) /\ Len(s \o t) = Len(s) + Len(t)
         /\ \A i \in 1..Len(s) : (s \o t)[i] = s[i]
         /\ \A k \in 1..Len(t) : (s \o t)[Len(s) + k] = t[k]
OBVIOUS

LEMMA ElementsSubSeq ==
  ASSUME NEW X, NEW s \in Seq(X), NEW m \in Nat \ {0}, NEW n \in 0..Len(s)
  PROVE  SubSeq(s, m, n) \in Seq(X) /\ ToSet(SubSeq(s, m, n)) \subseteq ToSet(s)
<1>1. /\ DOMAIN SubSeq(s, m, n) = 1..Len(SubSeq(s, m, n))
      /\ \A i \in DOMAIN SubSeq(s, m, n) : SubSeq(s, m, n)[i] = s[m + i - 1] /\ m + i - 1 \in DOMAIN s
  OBVIOUS
<1>. QED BY <1>1 DEF ToSet

-----------------------------------------------------------------------------
(* Selections.                                                              *)

Keeping(kept, s, S) ==
    kept = [n \in 0..Len(s) |->
              IF n = 0 THEN <<>>
              ELSE IF s[n] \in S THEN Append(kept[n - 1], s[n]) ELSE kept[n - 1]]

LEMMA KeptExists ==
  ASSUME NEW X, NEW s \in Seq(X), NEW S
  PROVE  \E kept : /\ Kept(s, S) = kept[Len(s)]
                   /\ kept[0] = <<>>
                   /\ \A n \in 1..Len(s) :
                        kept[n] = IF s[n] \in S THEN Append(kept[n - 1], s[n]) ELSE kept[n - 1]
<1> DEFINE N == Len(s)
           step == [n \in 1..N |-> [k \in Seq(X) |-> IF s[n] \in S THEN Append(k, s[n]) ELSE k]]
<1>1. N \in Nat /\ <<>> \in Seq(X)
  OBVIOUS
<1>2. step \in [1..N -> [Seq(X) -> Seq(X)]]
  OBVIOUS
<1>3. PICK f \in [0..N -> Seq(X)] : Runs(f, N, <<>>, step)
  <2> HIDE DEF N, step
  <2>. QED BY <1>1, <1>2, Recursion
<1>4. \A n \in 0..N : f[n] = IF n = 0 THEN <<>>
                 ELSE IF s[n] \in S THEN Append(f[n - 1], s[n]) ELSE f[n - 1]
  <2> TAKE n \in 0..N
  <2>1. CASE n = 0
    BY <1>1, <1>3, <2>1 DEF Runs
  <2>2. CASE n # 0
    <3>1. n \in 1..N /\ n - 1 \in 0..N
      BY <1>1, <2>2
    <3>2. f[n - 1] \in Seq(X)
      BY <1>3, <3>1
    <3>3. f[n] = step[n][f[n - 1]]
      BY <1>3, <2>2 DEF Runs
    <3>. QED BY <2>2, <3>1, <3>2, <3>3
  <2>. QED BY <2>1, <2>2
<1>5. Keeping(f, s, S)
  BY <1>3, <1>4 DEF Keeping
<1>6. PICK kept : kept = CHOOSE k : Keeping(k, s, S)
  OBVIOUS
<1>7. Keeping(kept, s, S)
  BY <1>5, <1>6, Zenon
<1>8. Kept(s, S) = kept[Len(s)]
  BY <1>6 DEF Kept, Keeping
<1>9. kept[0] = <<>>
  BY <1>1, <1>7 DEF Keeping
<1>10. ASSUME NEW n \in 1..Len(s)
       PROVE  kept[n] = IF s[n] \in S THEN Append(kept[n - 1], s[n]) ELSE kept[n - 1]
  <2>1. n \in 0..Len(s) /\ n # 0
    BY <1>1
  <2>. QED BY <1>7, <2>1 DEF Keeping
<1>. QED BY <1>8, <1>9, <1>10, Zenon

\* What is kept is what is in both.
LEMMA KeptElements ==
  ASSUME NEW X, NEW s \in Seq(X), NEW S
  PROVE  Kept(s, S) \in Seq(X) /\ ToSet(Kept(s, S)) = ToSet(s) \cap S
<1>1. PICK kept : /\ Kept(s, S) = kept[Len(s)]
                  /\ kept[0] = <<>>
                  /\ \A n \in 1..Len(s) :
                       kept[n] = IF s[n] \in S THEN Append(kept[n - 1], s[n]) ELSE kept[n - 1]
  BY KeptExists
<1> DEFINE Holds(n) == /\ kept[n] \in Seq(X)
                       /\ ToSet(kept[n]) = {s[i] : i \in 1..n} \cap S
           I == {n \in 0..Len(s) : Holds(n)}
<1>2. Len(s) \in Nat
  OBVIOUS
<1>3. 0 \in I
  <2>1. {s[i] : i \in 1..0} = {}
    OBVIOUS
  <2>2. <<>> \in Seq(X) /\ 0 \in 0..Len(s)
    BY <1>2
  <2>. QED BY <1>1, <2>1, <2>2, ElementsEmpty
<1>4. ASSUME NEW n \in 1..Len(s), n - 1 \in I PROVE n \in I
  <2> DEFINE k == kept[n - 1]
             old == {s[i] : i \in 1..(n - 1)}
  <2>1. /\ n \in 0..Len(s) /\ n # 0 /\ s[n] \in X
        /\ kept[n] = IF s[n] \in S THEN Append(k, s[n]) ELSE k
    BY <1>1, <1>2
  <2>2. k \in Seq(X) /\ ToSet(k) = old \cap S
    BY <1>4
  <2>3. {s[i] : i \in 1..n} = old \cup {s[n]}
    BY <1>2
  <2> HIDE DEF k, old
  <2>4. kept[n] \in Seq(X)
    BY <2>1, <2>2
  <2>5. ToSet(Append(k, s[n])) = ToSet(k) \cup {s[n]}
    BY <2>1, <2>2, ElementsAppend
  <2>6. ToSet(kept[n]) = {s[i] : i \in 1..n} \cap S
    BY <2>1, <2>2, <2>3, <2>5
  <2>. QED BY <2>1, <2>4, <2>6
<1>5. Len(s) \in I
  <2> HIDE DEF I
  <2>1. 0..Len(s) \subseteq I
    BY <1>2, <1>3, <1>4, IntervalInduction
  <2>. QED BY <1>2, <2>1
<1>6. {s[i] : i \in 1..Len(s)} = ToSet(s)
  BY DEF ToSet
<1>. QED BY <1>1, <1>5, <1>6

Collecting(seen, s) ==
    seen = [n \in 0..Len(s) |->
              IF n = 0 THEN <<>>
              ELSE IF \E i \in DOMAIN seen[n - 1] : seen[n - 1][i] = s[n] THEN seen[n - 1]
              ELSE Append(seen[n - 1], s[n])]

LEMMA OnceExists ==
  ASSUME NEW X, NEW s \in Seq(X)
  PROVE  \E seen : /\ Once(s) = seen[Len(s)]
                   /\ seen[0] = <<>>
                   /\ \A n \in 1..Len(s) :
                        seen[n] = IF \E i \in DOMAIN seen[n - 1] : seen[n - 1][i] = s[n]
                                  THEN seen[n - 1] ELSE Append(seen[n - 1], s[n])
<1> DEFINE N == Len(s)
           step == [n \in 1..N |-> [k \in Seq(X) |->
                      IF \E i \in DOMAIN k : k[i] = s[n] THEN k ELSE Append(k, s[n])]]
<1>1. N \in Nat /\ <<>> \in Seq(X)
  OBVIOUS
<1>2. step \in [1..N -> [Seq(X) -> Seq(X)]]
  OBVIOUS
<1>3. PICK f \in [0..N -> Seq(X)] : Runs(f, N, <<>>, step)
  <2> HIDE DEF N, step
  <2>. QED BY <1>1, <1>2, Recursion
<1>4. \A n \in 0..N : f[n] = IF n = 0 THEN <<>>
                             ELSE IF \E i \in DOMAIN f[n - 1] : f[n - 1][i] = s[n] THEN f[n - 1]
                             ELSE Append(f[n - 1], s[n])
  <2> TAKE n \in 0..N
  <2>1. CASE n = 0
    BY <1>1, <1>3, <2>1 DEF Runs
  <2>2. CASE n # 0
    <3>1. n \in 1..N /\ n - 1 \in 0..N
      BY <1>1, <2>2
    <3>2. f[n - 1] \in Seq(X)
      BY <1>3, <3>1
    <3>3. f[n] = step[n][f[n - 1]]
      BY <1>3, <2>2 DEF Runs
    <3>. QED BY <2>2, <3>1, <3>2, <3>3
  <2>. QED BY <2>1, <2>2
<1>5. Collecting(f, s)
  BY <1>3, <1>4 DEF Collecting
<1>6. PICK seen : seen = CHOOSE g : Collecting(g, s)
  OBVIOUS
<1>7. Collecting(seen, s)
  BY <1>5, <1>6, Zenon
<1>8. Once(s) = seen[Len(s)]
  BY <1>6 DEF Once, Collecting
<1>9. seen[0] = <<>>
  BY <1>1, <1>7 DEF Collecting
<1>10. ASSUME NEW n \in 1..Len(s)
       PROVE  seen[n] = IF \E i \in DOMAIN seen[n - 1] : seen[n - 1][i] = s[n]
                        THEN seen[n - 1] ELSE Append(seen[n - 1], s[n])
  <2>1. n \in 0..Len(s) /\ n # 0
    BY <1>1
  <2>. QED BY <1>7, <2>1 DEF Collecting
<1>. QED BY <1>8, <1>9, <1>10, Zenon

\* The same elements, none of them twice.
LEMMA OnceElements ==
  ASSUME NEW X, NEW s \in Seq(X)
  PROVE  /\ Once(s) \in Seq(X) /\ ToSet(Once(s)) = ToSet(s)
         /\ \A i, j \in DOMAIN Once(s) : Once(s)[i] = Once(s)[j] => i = j
<1>1. PICK seen : /\ Once(s) = seen[Len(s)]
                  /\ seen[0] = <<>>
                  /\ \A n \in 1..Len(s) :
                       seen[n] = IF \E i \in DOMAIN seen[n - 1] : seen[n - 1][i] = s[n]
                                 THEN seen[n - 1] ELSE Append(seen[n - 1], s[n])
  BY OnceExists
<1> DEFINE Apart(k) == \A i, j \in DOMAIN k : k[i] = k[j] => i = j
           Holds(n) == /\ seen[n] \in Seq(X)
                       /\ ToSet(seen[n]) = {s[i] : i \in 1..n}
                       /\ Apart(seen[n])
           I == {n \in 0..Len(s) : Holds(n)}
<1>2. Len(s) \in Nat
  OBVIOUS
<1>3. 0 \in I
  <2>1. {s[i] : i \in 1..0} = {} /\ DOMAIN <<>> = {}
    OBVIOUS
  <2>2. <<>> \in Seq(X) /\ 0 \in 0..Len(s)
    BY <1>2
  <2>3. Apart(<<>>)
    BY <2>1
  <2> HIDE DEF Apart
  <2>. QED BY <1>1, <2>1, <2>2, <2>3, ElementsEmpty
<1>4. ASSUME NEW n \in 1..Len(s), n - 1 \in I PROVE n \in I
  <2> DEFINE k == seen[n - 1]
             old == {s[i] : i \in 1..(n - 1)}
  <2>1. /\ n \in 0..Len(s) /\ n # 0 /\ s[n] \in X
        /\ seen[n] = IF \E i \in DOMAIN k : k[i] = s[n] THEN k ELSE Append(k, s[n])
    BY <1>1, <1>2
  <2>2. k \in Seq(X) /\ ToSet(k) = old /\ Apart(k)
    BY <1>4
  <2>3. {s[i] : i \in 1..n} = old \cup {s[n]}
    BY <1>2
  <2> HIDE DEF k, old
  <2>4. CASE s[n] \in ToSet(k)
    <3>1. seen[n] = k
      BY <2>1, <2>4 DEF ToSet
    <3>. QED BY <2>1, <2>2, <2>3, <2>4, <3>1
  <2>5. CASE s[n] \notin ToSet(k)
    <3>1. seen[n] = Append(k, s[n])
      BY <2>1, <2>5 DEF ToSet
    <3>2. Append(k, s[n]) \in Seq(X)
      BY <2>1, <2>2
    <3>3. ToSet(Append(k, s[n])) = ToSet(k) \cup {s[n]}
      BY <2>1, <2>2, ElementsAppend
    <3>4. Apart(Append(k, s[n]))
      <4>1. \A i \in DOMAIN k : k[i] # s[n]
        BY <2>5 DEF ToSet
      <4>. QED BY <2>1, <2>2, <4>1
    <3>. QED BY <2>1, <2>2, <2>3, <3>1, <3>2, <3>3, <3>4
  <2>. QED BY <2>4, <2>5
<1>5. Len(s) \in I
  <2> HIDE DEF I
  <2>1. 0..Len(s) \subseteq I
    BY <1>2, <1>3, <1>4, IntervalInduction
  <2>. QED BY <1>2, <2>1
<1>6. {s[i] : i \in 1..Len(s)} = ToSet(s)
  BY DEF ToSet
<1>. QED BY <1>1, <1>5, <1>6

-----------------------------------------------------------------------------
(* Sequences put together, and the largest of a sequence.                   *)

\* start[n]: where the elements of the first n sequences end.
EndsAt(start, ss) ==
    /\ start \in [0..Len(ss) -> Nat] /\ start[0] = 0
    /\ \A n \in 1..Len(ss) : start[n] = start[n - 1] + Len(ss[n])

LEMMA EndsExist ==
  ASSUME NEW X, NEW ss \in Seq(Seq(X))
  PROVE  \E start : EndsAt(start, ss)
<1> DEFINE N == Len(ss)
           step == [n \in 1..N |-> [k \in Nat |-> k + Len(ss[n])]]
<1>1. N \in Nat /\ 0 \in Nat
  OBVIOUS
<1>2. step \in [1..N -> [Nat -> Nat]]
  <2>1. \A n \in 1..N : Len(ss[n]) \in Nat
    OBVIOUS
  <2>. QED BY <2>1
<1>3. PICK f \in [0..N -> Nat] : Runs(f, N, 0, step)
  <2> HIDE DEF N, step
  <2>. QED BY <1>1, <1>2, Recursion
<1>4. f[0] = 0
  BY <1>1, <1>3 DEF Runs
<1>5. ASSUME NEW n \in 1..N PROVE f[n] = f[n - 1] + Len(ss[n])
  <2>1. n \in 0..N /\ n # 0 /\ n - 1 \in 0..N
    BY <1>1
  <2>2. f[n - 1] \in Nat
    BY <1>3, <2>1
  <2>3. f[n] = step[n][f[n - 1]]
    BY <1>3, <2>1 DEF Runs
  <2>. QED BY <2>2, <2>3
<1>. QED BY <1>3, <1>4, <1>5 DEF EndsAt

LEMMA FlattenExists ==
  ASSUME NEW X, NEW ss \in Seq(Seq(X)), ss # <<>>
  PROVE  \E flat : /\ FlattenSeq(ss) = flat[Len(ss)]
                   /\ flat[1] = ss[1]
                   /\ \A n \in 2..Len(ss) : flat[n] = flat[n - 1] \o ss[n]
<1> DEFINE N == Len(ss) - 1
           step == [n \in 1..N |-> [k \in Seq(X) |-> k \o ss[n + 1]]]
           Flat(flat) == flat = [i \in 1..Len(ss) |-> IF i = 1 THEN ss[i] ELSE flat[i - 1] \o ss[i]]
<1>1. N \in Nat /\ Len(ss) = N + 1 /\ ss[1] \in Seq(X)
  OBVIOUS
<1>2. step \in [1..N -> [Seq(X) -> Seq(X)]]
  <2>1. \A n \in 1..N : ss[n + 1] \in Seq(X)
    OBVIOUS
  <2>. QED BY <2>1
<1>3. PICK f \in [0..N -> Seq(X)] : Runs(f, N, ss[1], step)
  <2> HIDE DEF N, step
  <2>. QED BY <1>1, <1>2, Recursion
<1> DEFINE g == [i \in 1..Len(ss) |-> f[i - 1]]
<1>4. \A i \in 1..Len(ss) : g[i] = IF i = 1 THEN ss[i] ELSE g[i - 1] \o ss[i]
  <2> TAKE i \in 1..Len(ss)
  <2>1. CASE i = 1
    <3>1. f[0] = ss[1]
      BY <1>1, <1>3 DEF Runs
    <3>. QED BY <2>1, <3>1
  <2>2. CASE i # 1
    <3>1. i - 1 \in 1..N /\ i - 2 \in 0..N /\ i - 1 \in 1..Len(ss) /\ i - 1 \in 0..N /\ i - 1 # 0
      BY <1>1, <2>2
    <3>2. f[i - 2] \in Seq(X)
      BY <1>3, <3>1
    <3>3. f[i - 1] = step[i - 1][f[(i - 1) - 1]]
      BY <1>3, <3>1 DEF Runs
    <3>4. (i - 1) - 1 = i - 2 /\ (i - 1) + 1 = i
      OBVIOUS
    <3>5. f[i - 1] = f[i - 2] \o ss[i]
      BY <3>1, <3>2, <3>3, <3>4
    <3>. QED BY <2>2, <3>1, <3>4, <3>5
  <2>. QED BY <2>1, <2>2
<1>5. Flat(g)
  <2>1. \A i \in 1..Len(ss) : g[i] = [j \in 1..Len(ss) |-> IF j = 1 THEN ss[j] ELSE g[j - 1] \o ss[j]][i]
    BY <1>4
  <2>2. DOMAIN g = 1..Len(ss) /\ g = [i \in 1..Len(ss) |-> g[i]]
    OBVIOUS
  <2> HIDE DEF g
  <2>. QED BY <2>1, <2>2
<1>6. PICK flat : flat = CHOOSE h : Flat(h)
  OBVIOUS
<1>7. Flat(flat)
  <2> HIDE DEF Flat, g
  <2>. QED BY <1>5, <1>6, Zenon
<1>8. FlattenSeq(ss) = flat[Len(ss)]
  BY <1>1, <1>6 DEF FlattenSeq
<1>9. flat[1] = ss[1]
  BY <1>1, <1>7
<1>10. ASSUME NEW n \in 2..Len(ss) PROVE flat[n] = flat[n - 1] \o ss[n]
  <2>1. n \in 1..Len(ss) /\ n # 1
    BY <1>1
  <2>. QED BY <1>7, <2>1
<1>. QED BY <1>8, <1>9, <1>10, Zenon

\* The sequences lie in the flattened one one behind the other, and nothing else does.
LEMMA FlattenAt ==
  ASSUME NEW X, NEW ss \in Seq(Seq(X)), NEW start, EndsAt(start, ss)
  PROVE  /\ FlattenSeq(ss) \in Seq(X) /\ Len(FlattenSeq(ss)) = start[Len(ss)]
         /\ \A n \in 1..Len(ss) :
              /\ start[n] <= start[Len(ss)]
              /\ \A k \in 1..Len(ss[n]) : FlattenSeq(ss)[start[n - 1] + k] = ss[n][k]
         /\ \A e \in ToSet(FlattenSeq(ss)) : \E n \in 1..Len(ss) : e \in ToSet(ss[n])
<1>1. CASE ss = <<>>
  <2>1. FlattenSeq(ss) = <<>>
    BY <1>1 DEF FlattenSeq
  <2>. QED BY <1>1, <2>1, ElementsEmpty DEF EndsAt
<1>2. CASE ss # <<>>
  <2> DEFINE N == Len(ss)
  <2>1. PICK flat : /\ FlattenSeq(ss) = flat[N]
                    /\ flat[1] = ss[1]
                    /\ \A n \in 2..N : flat[n] = flat[n - 1] \o ss[n]
    BY <1>2, FlattenExists
  <2> DEFINE Holds(m) ==
        /\ flat[m] \in Seq(X) /\ Len(flat[m]) = start[m]
        /\ \A n \in 1..m : /\ start[n] <= start[m]
                           /\ \A k \in 1..Len(ss[n]) : flat[m][start[n - 1] + k] = ss[n][k]
        /\ \A e \in ToSet(flat[m]) : \E n \in 1..m : e \in ToSet(ss[n])
      I == {m \in 0..N : m = 0 \/ Holds(m)}
  <2>2. N \in Nat \ {0}
    BY <1>2
  <2>3. /\ \A n \in 0..N : start[n] \in Nat
        /\ start[0] = 0
        /\ \A n \in 1..N : start[n] = start[n - 1] + Len(ss[n])
        /\ \A n \in 1..N : ss[n] \in Seq(X) /\ Len(ss[n]) \in Nat
    <3>1. \A n \in 1..N : ss[n] \in Seq(X) /\ Len(ss[n]) \in Nat
      OBVIOUS
    <3>. QED BY <3>1 DEF EndsAt
  <2>4. 0 \in I
    BY <2>2
  <2>5. ASSUME NEW m \in 1..N, m - 1 \in I PROVE m \in I
    <3>1. CASE m = 1
      <4>1. /\ flat[1] = ss[1] /\ start[1] = Len(ss[1]) /\ 1 - 1 = 0
            /\ ss[1] \in Seq(X) /\ Len(ss[1]) \in Nat
        BY <2>1, <2>2, <2>3
      <4>2. \A n \in 1..1 : n = 1
        OBVIOUS
      <4>3. \A k \in 1..Len(ss[1]) : ss[1][start[1 - 1] + k] = ss[1][k]
        BY <2>3, <4>1
      <4>4. Holds(1)
        BY <4>1, <4>2, <4>3
      <4>. QED BY <2>2, <3>1, <4>4
    <3>2. CASE m # 1
      <4> DEFINE p == m - 1
      <4>1. p \in 1..N /\ p # 0 /\ m = p + 1 /\ m \in 2..N /\ p \in 0..N
        BY <2>2, <3>2
      <4>2. Holds(p)
        <5> HIDE DEF Holds
        <5>1. p \in I
          BY <2>5
        <5>. QED BY <4>1, <5>1
      <4>9. flat[p] \in Seq(X) /\ Len(flat[p]) = start[p]
        BY <4>2
      <4>3. flat[m] = flat[p] \o ss[m]
        BY <2>1, <4>1
      <4>4. start[m] = start[p] + Len(ss[m]) /\ start[p] \in Nat /\ ss[m] \in Seq(X) /\ Len(ss[m]) \in Nat
        BY <2>3, <4>1
      <4> HIDE DEF p
      <4> DEFINE old == flat[p]
                 new == ss[m]
      <4>10. /\ old \o new \in Seq(X) /\ Len(old \o new) = Len(old) + Len(new)
             /\ \A i \in 1..Len(old) : (old \o new)[i] = old[i]
             /\ \A k \in 1..Len(new) : (old \o new)[Len(old) + k] = new[k]
        <5>1. old \in Seq(X) /\ new \in Seq(X)
          BY <4>4, <4>9
        <5> HIDE DEF old, new
        <5>. QED BY <5>1, ConcatAt
      <4>5. flat[m] \in Seq(X) /\ Len(flat[m]) = start[m]
        BY <4>3, <4>4, <4>9, <4>10
      <4>6. /\ \A i \in 1..start[p] : flat[m][i] = flat[p][i]
            /\ \A k \in 1..Len(ss[m]) : flat[m][start[p] + k] = ss[m][k]
        BY <4>3, <4>4, <4>9, <4>10
      <4>7. ASSUME NEW n \in 1..m
            PROVE  /\ start[n] <= start[m]
                   /\ \A k \in 1..Len(ss[n]) : flat[m][start[n - 1] + k] = ss[n][k]
        <5>1. CASE n = m
          <6>1. n - 1 = p
            BY <4>1, <5>1
          <6>2. start[m] \in Nat
            BY <4>4
          <6>3. start[n] <= start[m]
            BY <5>1, <6>2
          <6>4. \A k \in 1..Len(ss[n]) : flat[m][start[n - 1] + k] = ss[n][k]
            BY <4>6, <5>1, <6>1, Zenon
          <6>. QED BY <6>3, <6>4
        <5>2. CASE n # m
          <6>1. n \in 1..p /\ n \in 1..N /\ n - 1 \in 0..N
            BY <4>1, <5>2
          <6>2. start[n] <= start[p] /\ start[n] \in Nat /\ start[n - 1] \in Nat
                /\ start[n] = start[n - 1] + Len(ss[n]) /\ Len(ss[n]) \in Nat
            BY <2>3, <4>2, <6>1
          <6>3. ASSUME NEW k \in 1..Len(ss[n]) PROVE flat[m][start[n - 1] + k] = ss[n][k]
            <7> DEFINE a == start[n - 1]
                       b == start[n]
                       c == start[p]
                       l == Len(ss[n])
            <7>1. a \in Nat /\ b \in Nat /\ c \in Nat /\ l \in Nat /\ b = a + l /\ b <= c /\ k \in 1..l
              BY <4>4, <6>2
            <7> HIDE DEF a, b, c, l
            <7>2. a + k \in 1..c
              BY <7>1
            <7>3. flat[m][a + k] = flat[p][a + k]
              BY <4>6, <7>2 DEF c
            <7>4. flat[p][a + k] = ss[n][k]
              BY <4>2, <6>1 DEF a
            <7>. QED BY <7>3, <7>4 DEF a
          <6>. QED BY <4>4, <6>2, <6>3
        <5>. QED BY <5>1, <5>2
      <4>8. ASSUME NEW e \in ToSet(flat[m]) PROVE \E n \in 1..m : e \in ToSet(ss[n])
        <5>1. e \in ToSet(flat[p]) \/ e \in ToSet(ss[m])
          BY <4>3, <4>4, <4>9, ElementsConcat
        <5>2. 1..p \subseteq 1..m /\ m \in 1..m
          BY <4>1
        <5>. QED BY <4>2, <5>1, <5>2
      <4>. QED BY <4>1, <4>5, <4>7, <4>8
    <3>. QED BY <3>1, <3>2
  <2>6. N \in I
    <3> HIDE DEF I, N
    <3>1. 0..N \subseteq I
      BY <2>2, <2>4, <2>5, IntervalInduction
    <3>. QED BY <2>2, <3>1
  <2>7. Holds(N)
    BY <2>2, <2>6
  <2> HIDE DEF Holds
  <2>. QED BY <2>1, <2>7 DEF Holds
<1>. QED BY <1>1, <1>2

\* A sequence that is not empty has a largest element.
LEMMA LargestExists ==
  ASSUME NEW s \in Seq(Int), s # <<>>
  PROVE  \E n \in DOMAIN s : \A k \in DOMAIN s : s[k] <= s[n]
<1> DEFINE N == Len(s)
           Top(m, n) == \A k \in 1..m : s[k] <= s[n]
           I == {m \in 0..N : m = 0 \/ \E n \in 1..m : Top(m, n)}
<1>1. N \in Nat \ {0} /\ DOMAIN s = 1..N /\ \A n \in 1..N : s[n] \in Int
  OBVIOUS
<1>2. 0 \in I
  BY <1>1
<1>3. ASSUME NEW m \in 1..N, m - 1 \in I PROVE m \in I
  <2>1. CASE m = 1
    BY <1>1, <2>1
  <2>2. CASE m # 1
    <3>1. PICK n \in 1..(m - 1) : Top(m - 1, n)
      BY <1>1, <1>3, <2>2
    <3>2. n \in 1..N /\ s[n] \in Int /\ s[m] \in Int /\ n \in 1..m /\ m \in 1..m
      BY <1>1
    <3>3. \A k \in 1..m : k = m \/ k \in 1..(m - 1)
      BY <1>1
    <3>4. CASE s[m] <= s[n]
      <4>1. Top(m, n)
        BY <3>1, <3>2, <3>3, <3>4
      <4> HIDE DEF Top
      <4>. QED BY <1>1, <3>2, <4>1
    <3>5. CASE s[n] < s[m]
      <4>1. Top(m, m)
        <5> TAKE k \in 1..m
        <5>1. s[k] \in Int
          BY <1>1
        <5>. QED BY <3>1, <3>2, <3>3, <3>5, <5>1
      <4> HIDE DEF Top
      <4>. QED BY <1>1, <3>2, <4>1
    <3> HIDE DEF I
    <3>. QED BY <3>2, <3>4, <3>5
  <2>. QED BY <2>1, <2>2
<1>4. N \in I
  <2> HIDE DEF I, N
  <2>1. 0..N \subseteq I
    BY <1>1, <1>2, <1>3, IntervalInduction
  <2>. QED BY <1>1, <2>1
<1>. QED BY <1>1, <1>4

-----------------------------------------------------------------------------
(* Induction over sequences, concatenation, pieces.                         *)

\* A set with the empty sequence in it and, with a sequence, every longer one by
\* one, holds every sequence.
LEMMA SequenceInduction ==
  ASSUME NEW X, NEW S, <<>> \in S,
         \A s \in Seq(X), e \in X : s \in S => Append(s, e) \in S
  PROVE  Seq(X) \subseteq S
<1> SUFFICES ASSUME NEW s \in Seq(X) PROVE s \in S
  OBVIOUS
<1> DEFINE N == Len(s)
           I == {n \in 0..N : SubSeq(s, 1, n) \in S}
<1>1. N \in Nat /\ SubSeq(s, 1, 0) = <<>> /\ SubSeq(s, 1, N) = s
  OBVIOUS
<1>2. 0 \in I
  <2> HIDE DEF N
  <2>1. 0 \in 0..N
    BY <1>1
  <2>. QED BY <1>1, <2>1, Zenon
<1>3. ASSUME NEW n \in 1..N, n - 1 \in I PROVE n \in I
  <2>1. /\ SubSeq(s, 1, n) = Append(SubSeq(s, 1, n - 1), s[n])
        /\ SubSeq(s, 1, n - 1) \in Seq(X) /\ s[n] \in X
    OBVIOUS
  <2>2. SubSeq(s, 1, n) \in S
    BY <1>3, <2>1
  <2>. QED BY <1>1, <2>2
<1>4. N \in I
  <2> HIDE DEF I, N
  <2>1. 0..N \subseteq I
    BY <1>1, <1>2, <1>3, IntervalInduction
  <2>. QED BY <1>1, <2>1
<1>. QED BY <1>1, <1>4

LEMMA FlattenAppend ==
  ASSUME NEW X, NEW ss \in Seq(Seq(X)), NEW t \in Seq(X)
  PROVE  /\ FlattenSeq(ss) \in Seq(X)
         /\ FlattenSeq(Append(ss, t)) = FlattenSeq(ss) \o t
<1> DEFINE tt == Append(ss, t)
<1>1. /\ tt \in Seq(Seq(X)) /\ Len(tt) = Len(ss) + 1 /\ Len(ss) \in Nat /\ tt # <<>>
      /\ tt[Len(ss) + 1] = t /\ \A n \in 1..Len(ss) : tt[n] = ss[n] /\ ss[n] \in Seq(X)
  <2>1. Len(tt) = Len(ss) + 1 /\ Len(ss) \in Nat /\ tt[Len(ss) + 1] = t
    OBVIOUS
  <2>2. \A n \in 1..Len(ss) : tt[n] = ss[n] /\ ss[n] \in Seq(X)
    OBVIOUS
  <2>3. tt \in Seq(Seq(X))
    OBVIOUS
  <2>4. tt # <<>>
    <3>1. Len(<<>>) = 0
      OBVIOUS
    <3> HIDE DEF tt
    <3>. QED BY <2>1, <3>1
  <2>. QED BY <2>1, <2>2, <2>3, <2>4
<1>2. PICK start : EndsAt(start, ss)
  BY EndsExist
<1>3. FlattenSeq(ss) \in Seq(X)
  BY <1>2, FlattenAt
<1>4. PICK g : /\ FlattenSeq(tt) = g[Len(tt)]
               /\ g[1] = tt[1]
               /\ \A n \in 2..Len(tt) : g[n] = g[n - 1] \o tt[n]
  BY <1>1, FlattenExists
<1>5. CASE ss = <<>>
  <2>1. Len(ss) = 0 /\ FlattenSeq(ss) = <<>>
    BY <1>5 DEF FlattenSeq
  <2>. QED BY <1>1, <1>3, <1>4, <2>1
<1>6. CASE ss # <<>>
  <2>1. PICK f : /\ FlattenSeq(ss) = f[Len(ss)]
                 /\ f[1] = ss[1]
                 /\ \A n \in 2..Len(ss) : f[n] = f[n - 1] \o ss[n]
    BY <1>6, FlattenExists
  <2>2. Len(ss) # 0
    BY <1>6
  <2> DEFINE I == {n \in 0..Len(ss) : n = 0 \/ g[n] = f[n]}
  <2>3. 0 \in I
    BY <1>1
  <2>4. ASSUME NEW n \in 1..Len(ss), n - 1 \in I PROVE n \in I
    <3>1. CASE n = 1
      BY <1>1, <1>4, <2>1, <2>2, <3>1
    <3>2. CASE n # 1
      <4>1. n \in 2..Len(ss) /\ n \in 2..Len(tt) /\ tt[n] = ss[n]
        BY <1>1, <3>2
      <4>2. g[n - 1] = f[n - 1]
        BY <2>4, <3>2
      <4>3. g[n] = f[n]
        BY <1>4, <2>1, <4>1, <4>2
      <4>. QED BY <4>1, <4>3
    <3>. QED BY <3>1, <3>2
  <2>5. g[Len(ss)] = f[Len(ss)]
    <3> HIDE DEF I
    <3>1. 0..Len(ss) \subseteq I
      BY <1>1, <2>3, <2>4, IntervalInduction
    <3>2. Len(ss) \in 0..Len(ss)
      BY <1>1
    <3>3. Len(ss) \in I
      BY <3>1, <3>2
    <3>. QED BY <2>2, <3>3 DEF I
  <2>6. Len(ss) + 1 \in 2..Len(tt) /\ (Len(ss) + 1) - 1 = Len(ss)
    BY <1>1, <2>2
  <2>. QED BY <1>1, <1>3, <1>4, <2>1, <2>5, <2>6
<1>. QED BY <1>3, <1>5, <1>6

\* Concatenation.
LEMMA ConcatAssociates ==
  ASSUME NEW X, NEW r \in Seq(X), NEW s \in Seq(X), NEW t \in Seq(X)
  PROVE  (r \o s) \o t = r \o (s \o t)
OBVIOUS

LEMMA ConcatEmpty ==
  ASSUME NEW X, NEW s \in Seq(X)
  PROVE  s \o <<>> = s /\ <<>> \o s = s
OBVIOUS

LEMMA ConcatAppend ==
  ASSUME NEW X, NEW r \in Seq(X), NEW s \in Seq(X), NEW e \in X
  PROVE  r \o Append(s, e) = Append(r \o s, e) /\ Append(s, e) = s \o <<e>>
OBVIOUS

LEMMA SequenceOf ==
  ASSUME NEW X, NEW n \in Nat, NEW f \in [1..n -> X]
  PROVE  f \in Seq(X) /\ Len(f) = n
OBVIOUS

LEMMA AppendNotEmpty ==
  ASSUME NEW X, NEW s \in Seq(X), NEW e \in X
  PROVE  Append(s, e) # <<>>
<1>1. Len(Append(s, e)) = Len(s) + 1 /\ Len(s) \in Nat /\ Len(<<>>) = 0
  OBVIOUS
<1>. QED BY <1>1

LEMMA SubSeqSplits ==
  ASSUME NEW X, NEW s \in Seq(X), NEW m \in 0..Len(s), NEW n \in m..Len(s)
  PROVE  /\ SubSeq(s, 1, n) = SubSeq(s, 1, m) \o SubSeq(s, m + 1, n)
         /\ SubSeq(s, 1, m) \in Seq(X) /\ SubSeq(s, m + 1, n) \in Seq(X)
<1>0. Len(s) \in Nat /\ m \in Nat /\ n \in Nat /\ m <= n /\ n <= Len(s)
  OBVIOUS
<1>1. SubSeq(s, 1, m) \in Seq(X) /\ Len(SubSeq(s, 1, m)) = m /\ \A i \in 1..m : SubSeq(s, 1, m)[i] = s[i]
  BY <1>0
<1>2. SubSeq(s, 1, n) \in Seq(X) /\ Len(SubSeq(s, 1, n)) = n /\ \A i \in 1..n : SubSeq(s, 1, n)[i] = s[i]
  BY <1>0
<1>3. /\ SubSeq(s, m + 1, n) \in Seq(X) /\ Len(SubSeq(s, m + 1, n)) = n - m
      /\ \A i \in 1..(n - m) : SubSeq(s, m + 1, n)[i] = s[m + i]
  BY <1>0
<1> DEFINE a == SubSeq(s, 1, m)
           b == SubSeq(s, m + 1, n)
           c == SubSeq(s, 1, n)
<1>4. a \o b \in Seq(X) /\ Len(a \o b) = n /\ \A i \in 1..n : (a \o b)[i] = s[i]
  <2>1. /\ a \in Seq(X) /\ b \in Seq(X) /\ Len(a) = m /\ Len(b) = n - m
        /\ \A i \in 1..m : a[i] = s[i]
        /\ \A i \in 1..(n - m) : b[i] = s[m + i]
    BY <1>1, <1>3
  <2> HIDE DEF a, b
  <2>2. /\ a \o b \in Seq(X) /\ Len(a \o b) = n
        /\ \A i \in 1..n : (a \o b)[i] = IF i <= m THEN a[i] ELSE b[i - m]
    BY <1>0, <2>1
  <2>3. ASSUME NEW i \in 1..n PROVE (a \o b)[i] = s[i]
    <3>1. CASE i <= m
      <4>1. i \in 1..m
        BY <1>0, <3>1
      <4>. QED BY <2>1, <2>2, <3>1, <4>1
    <3>2. CASE ~(i <= m)
      <4>1. i - m \in 1..(n - m) /\ m + (i - m) = i
        BY <1>0, <3>2
      <4>. QED BY <2>1, <2>2, <3>2, <4>1
    <3>. QED BY <3>1, <3>2
  <2>. QED BY <2>2, <2>3
<1>5. c = a \o b
  <2>1. c \in Seq(X) /\ Len(c) = n /\ \A i \in 1..n : c[i] = s[i]
    BY <1>2
  <2> DEFINE d == a \o b
  <2>2. d \in Seq(X) /\ Len(d) = n /\ \A i \in 1..n : d[i] = s[i]
    BY <1>4
  <2>3. c = d
    <3> HIDE DEF a, b, c, d
    <3>. QED BY <1>0, <2>1, <2>2
  <2>. QED BY <2>3
<1>. QED BY <1>1, <1>3, <1>5

LEMMA SubSeqOne ==
  ASSUME NEW X, NEW s \in Seq(X), NEW n \in 1..Len(s)
  PROVE  SubSeq(s, n, n) = <<s[n]>>
<1>1. SubSeq(s, n, n) \in Seq(X) /\ Len(SubSeq(s, n, n)) = 1 /\ SubSeq(s, n, n)[1] = s[n]
  OBVIOUS
<1> DEFINE t == SubSeq(s, n, n)
<1>2. t \in Seq(X) /\ Len(t) = 1 /\ t[1] = s[n]
  BY <1>1
<1> HIDE DEF t
<1>3. t = <<s[n]>>
  BY <1>2
<1>. QED BY <1>3 DEF t

LEMMA LeastExists ==
  ASSUME NEW S \in SUBSET Nat, S # {}
  PROVE  \E i \in S : \A k \in S : i <= k
<1>1. PICK i \in S : \A k \in S : <<k, i>> \notin Less
  BY LessWellFounded, WFMin
<1>2. ASSUME NEW k \in S PROVE i <= k
  <2>1. k \in Nat /\ i \in Nat /\ <<k, i>> \notin Less
    BY <1>1
  <2>2. ~(k < i)
    BY <2>1 DEF Less
  <2>. QED BY <2>1, <2>2
<1>. QED BY <1>2

LEMMA GreatestExists ==
  ASSUME NEW n \in Nat, NEW S \in SUBSET (1..n), S # {}
  PROVE  \E i \in S : \A k \in S : k <= i
<1> DEFINE T == {n - k : k \in S}
<1>1. T \in SUBSET Nat /\ T # {}
  <2>1. \A k \in S : n - k \in Nat
    OBVIOUS
  <2>. QED BY <2>1
<1>2. PICK j \in T : \A k \in T : j <= k
  <2> HIDE DEF T
  <2>. QED BY <1>1, LeastExists
<1>3. PICK i \in S : j = n - i
  OBVIOUS
<1>4. \A k \in S : n - k \in T
  OBVIOUS
<1>5. \A k \in S : n - i <= n - k
  BY <1>2, <1>3, <1>4
<1>. QED BY <1>5

LEMMA SequenceWithin ==
  ASSUME NEW X, NEW Y, NEW s \in Seq(X), ToSet(s) \subseteq Y
  PROVE  s \in Seq(Y)
<1>1. Len(s) \in Nat /\ DOMAIN s = 1..Len(s) /\ s = [i \in 1..Len(s) |-> s[i]]
  OBVIOUS
<1>2. \A i \in 1..Len(s) : s[i] \in Y
  BY <1>1 DEF ToSet
<1>3. s \in [1..Len(s) -> Y]
  BY <1>1, <1>2
<1>. QED BY <1>1, <1>3

-----------------------------------------------------------------------------
(* Every element replaced by a sequence.                                    *)

Swaps(h, X) == h \in [X -> Seq(X)]

Put(h, x) == FlattenSeq([i \in DOMAIN x |-> h[x[i]]])

Putting(h, x) == [i \in DOMAIN x |-> h[x[i]]]

LEMMA PutType ==
  ASSUME NEW X, NEW h, Swaps(h, X), NEW x \in Seq(X)
  PROVE  /\ Putting(h, x) \in Seq(Seq(X)) /\ Len(Putting(h, x)) = Len(x)
         /\ Put(h, x) = FlattenSeq(Putting(h, x))
         /\ Put(h, x) \in Seq(X)
         /\ Put(h, <<>>) = <<>>
<1>1. DOMAIN x = 1..Len(x) /\ Len(x) \in Nat /\ \A i \in 1..Len(x) : h[x[i]] \in Seq(X)
  BY DEF Swaps
<1>2. Putting(h, x) \in [1..Len(x) -> Seq(X)]
  BY <1>1 DEF Putting
<1>3. Putting(h, x) \in Seq(Seq(X)) /\ Len(Putting(h, x)) = Len(x)
  BY <1>1, <1>2
<1>4. <<>> \in Seq(X)
  OBVIOUS
<1>5. FlattenSeq(Putting(h, x)) \in Seq(X)
  BY <1>3, <1>4, FlattenAppend
<1>6. Put(h, <<>>) = <<>>
  BY DEF Put, FlattenSeq
<1>. QED BY <1>3, <1>5, <1>6 DEF Put, Putting

LEMMA PutAppend ==
  ASSUME NEW X, NEW h, Swaps(h, X), NEW x \in Seq(X), NEW a \in X
  PROVE  /\ Put(h, Append(x, a)) = Put(h, x) \o h[a]
         /\ Put(h, <<a>>) = h[a]
<1>1. h[a] \in Seq(X) /\ Append(x, a) \in Seq(X) /\ <<>> \in Seq(X) /\ Append(<<>>, a) = <<a>>
  BY DEF Swaps
<1>2. ASSUME NEW z \in Seq(X) PROVE Putting(h, Append(z, a)) = Append(Putting(h, z), h[a])
  <2>1. /\ Len(Append(z, a)) = Len(z) + 1 /\ Len(z) \in Nat
        /\ \A i \in 1..Len(z) : Append(z, a)[i] = z[i]
        /\ Append(z, a)[Len(z) + 1] = a
    OBVIOUS
  <2>2. DOMAIN Append(z, a) = 1..(Len(z) + 1) /\ DOMAIN z = 1..Len(z) /\ Append(z, a) \in Seq(X)
    OBVIOUS
  <2>3. Putting(h, z) \in Seq(Seq(X)) /\ Len(Putting(h, z)) = Len(z)
    BY PutType
  <2>4. /\ Putting(h, Append(z, a)) \in Seq(Seq(X))
        /\ Len(Putting(h, Append(z, a))) = Len(z) + 1
    <3>1. /\ Putting(h, Append(z, a)) \in Seq(Seq(X))
          /\ Len(Putting(h, Append(z, a))) = Len(Append(z, a))
      <4>1. \A w \in Seq(X) : Putting(h, w) \in Seq(Seq(X)) /\ Len(Putting(h, w)) = Len(w)
        BY PutType
      <4>. QED BY <2>2, <4>1, Zenon
    <3>. QED BY <2>1, <3>1, Zenon
  <2>5. /\ Append(Putting(h, z), h[a]) \in Seq(Seq(X))
        /\ Len(Append(Putting(h, z), h[a])) = Len(z) + 1
        /\ Append(Putting(h, z), h[a])[Len(z) + 1] = h[a]
        /\ \A i \in 1..Len(z) : Append(Putting(h, z), h[a])[i] = Putting(h, z)[i]
    BY <1>1, <2>1, <2>3
  <2>6. \A i \in 1..(Len(z) + 1) : Putting(h, Append(z, a))[i] = h[Append(z, a)[i]]
    BY <2>2 DEF Putting
  <2>7. \A i \in 1..Len(z) : Putting(h, z)[i] = h[z[i]]
    BY <2>2 DEF Putting
  <2>8. \A i \in 1..(Len(z) + 1) : Putting(h, Append(z, a))[i] = Append(Putting(h, z), h[a])[i]
    BY <2>1, <2>5, <2>6, <2>7
  <2>. QED BY <2>1, <2>4, <2>5, <2>8
<1>3. Put(h, Append(x, a)) = Put(h, x) \o h[a]
  <2>1. FlattenSeq(Append(Putting(h, x), h[a])) = FlattenSeq(Putting(h, x)) \o h[a]
    BY <1>1, PutType, FlattenAppend
  <2>2. Put(h, Append(x, a)) = FlattenSeq(Putting(h, Append(x, a)))
    BY <1>1, PutType
  <2>3. Put(h, x) = FlattenSeq(Putting(h, x)) /\ Putting(h, Append(x, a)) = Append(Putting(h, x), h[a])
    BY <1>2, PutType
  <2>. QED BY <2>1, <2>2, <2>3, Zenon
<1>4. Put(h, <<a>>) = h[a]
  <2>1. Putting(h, <<a>>) = Append(<<>>, h[a])
    BY <1>1, <1>2 DEF Putting
  <2>2. <<>> \in Seq(Seq(X)) /\ FlattenSeq(<<>>) = <<>>
    BY DEF FlattenSeq
  <2>3. FlattenSeq(Append(<<>>, h[a])) = <<>> \o h[a]
    BY <1>1, <2>2, FlattenAppend
  <2>4. Put(h, <<a>>) = FlattenSeq(Putting(h, <<a>>))
    BY DEF Put, Putting
  <2>. QED BY <1>1, <2>1, <2>3, <2>4
<1>. QED BY <1>3, <1>4

LEMMA PutConcat ==
  ASSUME NEW X, NEW h, Swaps(h, X), NEW x \in Seq(X), NEW y \in Seq(X)
  PROVE  Put(h, x \o y) = Put(h, x) \o Put(h, y)
<1> DEFINE S == {z \in Seq(X) : Put(h, x \o z) = Put(h, x) \o Put(h, z)}
<1>0. Put(h, x) \in Seq(X)
  BY PutType
<1>1. <<>> \in S
  <2>1. x \o <<>> = x /\ <<>> \in Seq(X)
    OBVIOUS
  <2>2. Put(h, <<>>) = <<>>
    BY PutType
  <2>. QED BY <1>0, <2>1, <2>2
<1>2. ASSUME NEW z \in Seq(X), NEW a \in X, z \in S PROVE Append(z, a) \in S
  <2>1. x \o Append(z, a) = Append(x \o z, a) /\ x \o z \in Seq(X) /\ Append(z, a) \in Seq(X)
    OBVIOUS
  <2>2. Put(h, x \o z) = Put(h, x) \o Put(h, z)
    BY <1>2
  <2>3. Put(h, x \o Append(z, a)) = (Put(h, x) \o Put(h, z)) \o h[a]
    <3> HIDE DEF S
    <3>1. Put(h, Append(x \o z, a)) = Put(h, x \o z) \o h[a]
      BY <2>1, PutAppend
    <3>. QED BY <2>1, <2>2, <3>1
  <2>4. Put(h, Append(z, a)) = Put(h, z) \o h[a]
    <3> HIDE DEF S
    <3>. QED BY PutAppend
  <2>5. Put(h, z) \in Seq(X) /\ h[a] \in Seq(X)
    <3>1. h[a] \in Seq(X)
      BY DEF Swaps
    <3> HIDE DEF S
    <3>. QED BY <3>1, PutType
  <2>6. (Put(h, x) \o Put(h, z)) \o h[a] = Put(h, x) \o (Put(h, z) \o h[a])
    <3> HIDE DEF S
    <3> DEFINE u == Put(h, x)
               v == Put(h, z)
               w == h[a]
    <3>1. u \in Seq(X) /\ v \in Seq(X) /\ w \in Seq(X)
      BY <1>0, <2>5
    <3> HIDE DEF u, v, w
    <3>2. (u \o v) \o w = u \o (v \o w)
      BY <3>1
    <3>. QED BY <3>2, SMTT(30) DEF u, v, w
  <2>7. Put(h, x \o Append(z, a)) = Put(h, x) \o Put(h, Append(z, a))
    BY <2>3, <2>4, <2>6, Zenon
  <2>. QED BY <2>1, <2>7
<1>. QED
  <2> HIDE DEF S
  <2>1. Seq(X) \subseteq S
    BY <1>1, <1>2, SequenceInduction
  <2>. QED BY <2>1 DEF S

\* One replacement after the other is one replacement.
Composes(k, g, h, X) ==
    Swaps(h, X) /\ Swaps(g, X) /\ Swaps(k, X) /\ \A a \in X : k[a] = Put(g, h[a])

LEMMA PutPut ==
  ASSUME NEW X, NEW h, NEW g, NEW k, Composes(k, g, h, X), NEW x \in Seq(X)
  PROVE  Put(g, Put(h, x)) = Put(k, x)
<1>a. Swaps(g, X)
  BY DEF Composes
<1>b. ASSUME NEW u \in Seq(X), NEW w \in Seq(X)
      PROVE  Put(g, u \o w) = Put(g, u) \o Put(g, w)
  BY <1>a, PutConcat
<1> DEFINE S == {z \in Seq(X) : Put(g, Put(h, z)) = Put(k, z)}
<1>1. <<>> \in S
  <2>1. <<>> \in Seq(X)
    OBVIOUS
  <2>2. Put(h, <<>>) = <<>> /\ Put(g, <<>>) = <<>> /\ Put(k, <<>>) = <<>>
    BY DEF Put, FlattenSeq
  <2>. QED BY <2>1, <2>2
<1>2. ASSUME NEW z \in Seq(X), NEW a \in X, z \in S PROVE Append(z, a) \in S
  <2>1. Put(g, Put(h, z)) = Put(k, z) /\ Append(z, a) \in Seq(X)
    BY <1>2
  <2> HIDE DEF S
  <2>0. Swaps(h, X) /\ Swaps(k, X)
    BY DEF Composes
  <2>2. Put(h, Append(z, a)) = Put(h, z) \o h[a]
    BY <2>0, PutAppend
  <2>3. Put(h, z) \in Seq(X)
    BY PutType DEF Composes
  <2>4. h[a] \in Seq(X)
    BY DEF Swaps, Composes
  <2>5. Put(g, Put(h, z) \o h[a]) = Put(g, Put(h, z)) \o Put(g, h[a])
    BY <1>b, <2>3, <2>4, Zenon
  <2>6. Put(k, Append(z, a)) = Put(k, z) \o k[a]
    BY <2>0, PutAppend
  <2>7. k[a] = Put(g, h[a])
    BY DEF Composes
  <2>8. Put(g, Put(h, Append(z, a))) = Put(k, Append(z, a))
    BY <2>1, <2>2, <2>5, <2>6, <2>7, Zenon
  <2>. QED BY <2>1, <2>8 DEF S
<1>. QED
  <2> HIDE DEF S
  <2>1. Seq(X) \subseteq S
    BY <1>1, <1>2, SequenceInduction
  <2>. QED BY <2>1 DEF S

\* What depends on the elements that are there.
LEMMA PutElements ==
  ASSUME NEW h, NEW g, NEW x, \A a \in ToSet(x) : g[a] = h[a]
  PROVE  Put(g, x) = Put(h, x)
<1>1. \A i \in DOMAIN x : g[x[i]] = h[x[i]]
  BY DEF ToSet
<1>2. [i \in DOMAIN x |-> g[x[i]]] = [i \in DOMAIN x |-> h[x[i]]]
  BY <1>1
<1>. QED BY <1>2 DEF Put

LEMMA PutItself ==
  ASSUME NEW X, NEW h, NEW x \in Seq(X), \A a \in ToSet(x) : h[a] = <<a>>
  PROVE  Put(h, x) = x
<1> DEFINE id == [a \in X |-> <<a>>]
           S == {z \in Seq(X) : Put(id, z) = z}
<1>0. Swaps(id, X)
  BY DEF Swaps
<1>1. <<>> \in S
  <2>1. Put(id, <<>>) = <<>>
    BY DEF Put, FlattenSeq
  <2>. QED BY <2>1
<1>2. ASSUME NEW z \in Seq(X), NEW a \in X, z \in S PROVE Append(z, a) \in S
  <2>1. Put(id, z) = z /\ Append(z, a) \in Seq(X) /\ Append(z, a) = z \o <<a>> /\ id[a] = <<a>>
    BY <1>2
  <2> HIDE DEF S, id
  <2>2. Put(id, Append(z, a)) = Put(id, z) \o id[a]
    BY <1>0, PutAppend
  <2>. QED BY <2>1, <2>2 DEF S
<1>3. Put(id, x) = x
  <2> HIDE DEF S
  <2>1. Seq(X) \subseteq S
    BY <1>1, <1>2, SequenceInduction
  <2>. QED BY <2>1 DEF S
<1>4. \A a \in ToSet(x) : id[a] = h[a]
  BY DEF ToSet
<1> HIDE DEF id
<1>. QED BY <1>3, <1>4, PutElements

===============================================================================

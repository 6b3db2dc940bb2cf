------------------------------ MODULE Selections ------------------------------
(***************************************************************************)
(* Sequences cut down to some of their elements, as recursive functions and *)
(* not as folds with an operator: a proof can unfold these.                 *)
(***************************************************************************)
EXTENDS Integers, Sequences

\* The elements of s that are in S.
Kept(s, S) ==
    LET kept[n \in 0..Len(s)] ==
          IF n = 0 THEN <<>>
          ELSE IF s[n] \in S THEN Append(kept[n - 1], s[n]) ELSE kept[n - 1]
    IN  kept[Len(s)]

\* Each element once, in the order of the first occurrence.
Once(s) ==
    LET seen[n \in 0..Len(s)] ==
          IF n = 0 THEN <<>>
          ELSE LET before == seen[n - 1]
               IN  IF \E i \in DOMAIN before : before[i] = s[n] THEN before ELSE Append(before, s[n])
    IN  seen[Len(s)]

===============================================================================

------------------------------- MODULE DataFolds -------------------------------
(***************************************************************************)
(* A sum and a selection as recursive functions, which the prover can       *)
(* unfold: SelectSeq and the folds of the community modules it cannot.      *)
(***************************************************************************)
EXTENDS Integers, Sequences

\* f[a] + ... + f[b].
SumOver(f, a, b) ==
  LET sum[i \in (a - 1)..b] == IF i < a THEN 0 ELSE sum[i - 1] + f[i]
  IN sum[b]

\* What s has of S, in the order of s.
Only(s, S) ==
  LET kept[i \in 0..Len(s)] ==
        IF i = 0 THEN <<>>
        ELSE LET before == kept[i - 1]
             IN IF s[i] \in S THEN Append(before, s[i]) ELSE before
  IN kept[Len(s)]
=============================================================================

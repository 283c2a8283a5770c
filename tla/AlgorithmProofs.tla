---------------------------- MODULE AlgorithmProofs ---------------------------
(***************************************************************************)
(* Proofs about the parameter search and the backtest, for any candles,     *)
(* grid, windows and parameters of the strategy: the search ends at its     *)
(* best score, its files agree, the engine's losses are bounded, its        *)
(* metrics are what their definition says, and no later candle changes what *)
(* was computed.                                                            *)
(*                                                                         *)
(* What they rest on comes first: numbers, and what is computed by          *)
(* recursion.  A recursive function is a choice that fixes itself: it       *)
(* exists, by induction on how far it goes, and so what is chosen unfolds.  *)
(***************************************************************************)
EXTENDS Backtest, WalkForward, SequenceTheorems, FiniteSetTheorems, TLAPS

-----------------------------------------------------------------------------
(* Least and greatest elements.                                             *)

Less == {ss \in Nat \X Nat : ss[1] < ss[2]}

LEMMA LessIsWellFounded == IsWellFoundedOn(Less, Nat)
<1>1. OpToRel(<, Nat) = Less BY Zenon DEF OpToRel, Less
<1> QED BY <1>1, NatLessThanWellFounded, Zenon

LEMMA HasLeast ==
  ASSUME NEW S \in SUBSET Nat, S # {}
  PROVE  \E x \in S : \A y \in S : x <= y
<1>1. PICK x \in S : \A y \in S : ~(<<y, x>> \in Less) BY WFMin, LessIsWellFounded, Zenon
<1>2. ASSUME NEW y \in S PROVE x <= y
  <2>1. ~(y < x) BY <1>1 DEF Less
  <2> QED BY <2>1
<1> QED BY <1>2

LEMMA MinIs ==
  ASSUME NEW S \in SUBSET Nat, S # {}
  PROVE  Min(S) \in S /\ \A y \in S : Min(S) <= y
BY HasLeast DEF Min

LEMMA MaxIs ==
  ASSUME NEW S \in SUBSET Int, S # {}, NEW b \in Int, \A x \in S : x <= b
  PROVE  Max(S) \in S /\ \A y \in S : y <= Max(S)
<1> DEFINE T == {b - x : x \in S}
<1>1. T \in SUBSET Nat OBVIOUS
<1>2. T # {}
  <2>1. PICK x \in S : TRUE OBVIOUS
  <2> QED BY <2>1
<1>3. PICK m \in T : \A y \in T : m <= y BY <1>1, <1>2, HasLeast
<1>4. PICK x \in S : m = b - x OBVIOUS
<1>5. \A y \in S : x >= y
  <2>1. ASSUME NEW y \in S PROVE x >= y
    <3>1. b - y \in T OBVIOUS
    <3>2. m <= b - y BY <1>3, <3>1
    <3> QED BY <3>2, <1>4
  <2> QED BY <2>1
<1>6. Max(S) \in S /\ \A y \in S : Max(S) >= y BY <1>5 DEF Max
<1> QED BY <1>6

LEMMA MinOfTwo ==
  ASSUME NEW a \in Int, NEW b \in Int
  PROVE  Min({a, b}) = IF a <= b THEN a ELSE b
BY DEF Min

LEMMA MaxOfTwo ==
  ASSUME NEW a \in Int, NEW b \in Int
  PROVE  Max({a, b}) = IF a >= b THEN a ELSE b
BY DEF Max


-----------------------------------------------------------------------------
(* Induction and recursion.                                                 *)

LEMMA UpTo ==
  ASSUME NEW a \in Int, NEW n \in Int, NEW S, a \in S,
         \A i \in a..n : i # a /\ i - 1 \in S => i \in S
  PROVE  \A i \in a..n : i \in S
<1> SUFFICES ASSUME NEW k \in a..n, k \notin S PROVE FALSE OBVIOUS
<1> DEFINE T == {m \in Nat : a + m \in a..n /\ a + m \notin S}
<1>1. T \in SUBSET Nat /\ k - a \in T OBVIOUS
<1>2. PICK m \in T : \A y \in T : m <= y
  <2> HIDE DEF T
  <2> QED BY <1>1, HasLeast
<1>3. m # 0 BY <1>2
<1>4. m - 1 \notin T BY <1>2
<1>5. a + m - 1 \in S BY <1>2, <1>3, <1>4
<1>6. a + m \in a..n /\ (a + m) - 1 \in S BY <1>2, <1>3, <1>5
<1> QED BY <1>2, <1>6

\* f begins with base, and each value comes of the index and the value before.
Recurs(f, a, n, V, base, step) ==
  /\ f \in [a..n -> V]
  /\ \A i \in a..n : f[i] = IF i = a THEN base ELSE step[<<i, f[i - 1]>>]

LEMMA Recursion ==
  ASSUME NEW a \in Int, NEW n \in Int, a <= n, NEW V, NEW base \in V,
         NEW step \in [Int \X V -> V]
  PROVE  \E f : Recurs(f, a, n, V, base, step)
<1> DEFINE S == {k \in a..n : \E f : Recurs(f, a, k, V, base, step)}
<1>1. a \in S
  <2> DEFINE f == [i \in a..a |-> base]
  <2>1. Recurs(f, a, a, V, base, step) BY DEF Recurs
  <2> HIDE DEF f
  <2> QED BY <2>1
<1>2. ASSUME NEW k \in a..n, k # a, k - 1 \in S PROVE k \in S
  <2> DEFINE j == k - 1
  <2>1. PICK f : Recurs(f, a, j, V, base, step) BY <1>2
  <2> DEFINE g == [i \in a..k |-> IF i = k THEN step[<<k, f[j]>>] ELSE f[i]]
  <2>2. f[j] \in V /\ step[<<k, f[j]>>] \in V BY <1>2, <2>1 DEF Recurs
  <2>3. g \in [a..k -> V] BY <2>1, <2>2 DEF Recurs
  <2>4. ASSUME NEW i \in a..k PROVE g[i] = IF i = a THEN base ELSE step[<<i, g[i - 1]>>]
    <3>1. CASE i = k
      <4>1. g[k - 1] = f[j] BY <1>2
      <4> QED BY <1>2, <3>1, <4>1
    <3>2. CASE i # k /\ i # a
      <4>1. i \in a..j /\ i - 1 \in a..j BY <3>2
      <4>2. g[i] = f[i] /\ g[i - 1] = f[i - 1] BY <4>1
      <4>3. f[i] = step[<<i, f[i - 1]>>] BY <2>1, <3>2, <4>1 DEF Recurs
      <4> QED BY <3>2, <4>2, <4>3
    <3>3. CASE i = a
      <4>1. a \in a..j BY <1>2
      <4>2. f[a] = base BY <2>1, <4>1 DEF Recurs
      <4> QED BY <1>2, <3>3, <4>1, <4>2
    <3> QED BY <3>1, <3>2, <3>3
  <2>5. Recurs(g, a, k, V, base, step) BY <2>3, <2>4 DEF Recurs
  <2> HIDE DEF g
  <2> QED BY <2>5
<1>3. \A i \in a..n : i \in S
  <2> HIDE DEF S
  <2> QED BY <1>1, <1>2, UpTo
<1> QED BY <1>3

-----------------------------------------------------------------------------
(* Sums.                                                                    *)

SumsUp(sum, f, a, b) ==
  /\ sum \in [(a - 1)..b -> Int] /\ sum[a - 1] = 0
  /\ \A i \in a..b : sum[i] = sum[i - 1] + f[i]

LEMMA SumUnfolds ==
  ASSUME NEW a \in Int, NEW b \in Int, a - 1 <= b, NEW f, \A i \in a..b : f[i] \in Int
  PROVE  \E sum : SumsUp(sum, f, a, b) /\ SumOver(f, a, b) = sum[b]
<1> DEFINE V == Int
<1> DEFINE step == [p \in Int \X V |-> IF p[1] \in a..b THEN p[2] + f[p[1]] ELSE 0]
<1> DEFINE Sum(g) == g = [i \in (a - 1)..b |-> IF i < a THEN 0 ELSE g[i - 1] + f[i]]
<1> DEFINE o == a - 1
<1>1. step \in [Int \X V -> V] OBVIOUS
<1>2. o \in Int /\ o <= b /\ 0 \in V OBVIOUS
<1>3. PICK g : Recurs(g, o, b, V, 0, step)
  <2> HIDE DEF step, V, o
  <2> QED BY <1>1, <1>2, Recursion
<1>4. ASSUME NEW i \in o..b PROVE g[i] = IF i < a THEN 0 ELSE g[i - 1] + f[i]
  <2>1. g[i] = IF i = o THEN 0 ELSE step[<<i, g[i - 1]>>]
    <3> HIDE DEF step, o
    <3> QED BY <1>3 DEF Recurs
  <2>2. CASE i < a
    <3>1. i = o BY <2>2
    <3> QED BY <2>1, <2>2, <3>1
  <2>3. CASE i >= a
    <3>1. i \in a..b /\ i # o /\ g[i - 1] \in Int BY <1>3, <2>3 DEF Recurs
    <3>2. step[<<i, g[i - 1]>>] = g[i - 1] + f[i] BY <3>1
    <3> QED BY <2>1, <2>3, <3>1, <3>2
  <2> QED BY <2>2, <2>3
<1>5. Sum(g) BY <1>3, <1>4 DEF Recurs
<1> DEFINE sum == CHOOSE h : Sum(h)
<1>6. Sum(sum)
  <2> HIDE DEF Sum
  <2> QED BY <1>5
<1>7. SumOver(f, a, b) = sum[b] BY DEF SumOver
<1> HIDE DEF sum
<1>8. \A i \in (a - 1)..b : sum[i] = IF i < a THEN 0 ELSE sum[i - 1] + f[i] BY <1>6
<1>9. \A i \in o..b : sum[i] \in Int
  <2> DEFINE S == {i \in o..b : sum[i] \in Int}
  <2>1. o \in S BY <1>2, <1>8
  <2>2. ASSUME NEW i \in o..b, i # o, i - 1 \in S PROVE i \in S
    <3>1. sum[i] = IF i < a THEN 0 ELSE sum[i - 1] + f[i] BY <1>8
    <3>2. i >= a /\ f[i] \in Int BY <2>2
    <3> QED BY <2>2, <3>1, <3>2
  <2> HIDE DEF S, o
  <2>3. \A i \in o..b : i \in S BY <1>2, <2>1, <2>2, UpTo
  <2> QED BY <2>3 DEF S
<1>10. sum \in [(a - 1)..b -> Int] BY <1>6, <1>9
<1>11. SumsUp(sum, f, a, b) BY <1>8, <1>10 DEF SumsUp
<1> QED BY <1>7, <1>11

LEMMA SumPrefix ==
  ASSUME NEW a \in Int, NEW b \in Int, a <= b, NEW f, \A i \in a..b : f[i] \in Int
  PROVE  /\ SumOver(f, a, b) \in Int /\ SumOver(f, a, b - 1) \in Int
         /\ SumOver(f, a, b) = SumOver(f, a, b - 1) + f[b]
<1> DEFINE o == a - 1
<1> DEFINE p == b - 1
<1>1. PICK s : SumsUp(s, f, a, b) /\ SumOver(f, a, b) = s[b] BY SumUnfolds
<1>2. PICK t : SumsUp(t, f, a, p) /\ SumOver(f, a, p) = t[p]
  <2>1. a - 1 <= p /\ p \in Int /\ \A i \in a..p : f[i] \in Int OBVIOUS
  <2> HIDE DEF p
  <2> QED BY <2>1, SumUnfolds
<1> DEFINE S == {i \in o..p : s[i] = t[i]}
<1>3. o \in Int /\ p \in Int OBVIOUS
<1>4. o \in S BY <1>1, <1>2 DEF SumsUp
<1>5. \A i \in o..p : i \in S
  <2>1. ASSUME NEW i \in o..p, i # o, i - 1 \in S PROVE i \in S
    <3>0. i \in a..b /\ i \in a..p BY <2>1
    <3>1. s[i] = s[i - 1] + f[i] BY <1>1, <3>0 DEF SumsUp
    <3>2. t[i] = t[i - 1] + f[i] BY <1>2, <3>0 DEF SumsUp
    <3> QED BY <2>1, <3>1, <3>2
  <2> HIDE DEF S, o, p
  <2> QED BY <1>3, <1>4, <2>1, UpTo
<1>6. p \in S BY <1>5
<1>7. s[b] = s[b - 1] + f[b] BY <1>1 DEF SumsUp
<1>8. s[b] \in Int /\ t[b - 1] \in Int BY <1>1, <1>2 DEF SumsUp
<1> QED BY <1>1, <1>2, <1>6, <1>7, <1>8

LEMMA SumOfNone == ASSUME NEW f, NEW a \in Int PROVE SumOver(f, a, a - 1) = 0
<1> DEFINE o == a - 1
<1>1. o \in Int /\ a - 1 <= o /\ \A i \in a..o : f[i] \in Int OBVIOUS
<1>2. PICK s : SumsUp(s, f, a, o) /\ SumOver(f, a, o) = s[o]
  <2> HIDE DEF o
  <2> QED BY <1>1, SumUnfolds
<1> QED BY <1>2 DEF SumsUp

-----------------------------------------------------------------------------
(* Selections.                                                              *)

Keeps(kept, s, S, T) ==
  /\ kept \in [0..Len(s) -> Seq(T)] /\ kept[0] = <<>>
  /\ \A i \in 1..Len(s) :
       kept[i] = IF s[i] \in S THEN Append(kept[i - 1], s[i]) ELSE kept[i - 1]

LEMMA OnlyUnfolds ==
  ASSUME NEW T, NEW s \in Seq(T), NEW S
  PROVE  \E kept : Keeps(kept, s, S, T) /\ Only(s, S) = kept[Len(s)]
<1> DEFINE V == Seq(T)
<1> DEFINE n == Len(s)
<1> DEFINE step == [p \in Int \X V |-> IF p[1] \in 1..n /\ s[p[1]] \in S THEN Append(p[2], s[p[1]])
                                       ELSE p[2]]
<1> DEFINE Kept(g) == g = [i \in 0..n |->
              IF i = 0 THEN <<>>
              ELSE IF s[i] \in S THEN Append(g[i - 1], s[i]) ELSE g[i - 1]]
<1>0. n \in Nat /\ \A i \in 1..n : s[i] \in T OBVIOUS
<1>1. step \in [Int \X V -> V] BY <1>0
<1>2. 0 \in Int /\ n \in Int /\ 0 <= n /\ <<>> \in V BY <1>0
<1>3. PICK g : Recurs(g, 0, n, V, <<>>, step)
  <2> HIDE DEF step, V, n
  <2> QED BY <1>0, <1>1, <1>2, Recursion
<1>4. ASSUME NEW i \in 0..n
      PROVE g[i] = IF i = 0 THEN <<>>
                   ELSE IF s[i] \in S THEN Append(g[i - 1], s[i]) ELSE g[i - 1]
  <2>0. g[i] = IF i = 0 THEN <<>> ELSE step[<<i, g[i - 1]>>]
    <3> HIDE DEF step, n
    <3> QED BY <1>3 DEF Recurs
  <2>1. CASE i = 0 BY <2>0, <2>1
  <2>2. CASE i # 0
    <3>1. i \in 1..n /\ i - 1 \in 0..n BY <2>2
    <3>2. g[i - 1] \in V BY <1>3, <3>1 DEF Recurs
    <3>3. step[<<i, g[i - 1]>>] = IF s[i] \in S THEN Append(g[i - 1], s[i]) ELSE g[i - 1]
      BY <3>1, <3>2
    <3> QED BY <2>0, <2>2, <3>3
  <2> QED BY <2>1, <2>2
<1>5. Kept(g) BY <1>3, <1>4 DEF Recurs
<1> DEFINE kept == CHOOSE h : Kept(h)
<1>6. Kept(kept)
  <2> HIDE DEF Kept
  <2> QED BY <1>5
<1>7. Only(s, S) = kept[n] BY DEF Only
<1> HIDE DEF kept
<1>a. 0 \in 0..n BY <1>0
<1>b. kept[0] = <<>> BY <1>6, <1>a
<1>c. ASSUME NEW i \in 1..n
      PROVE  kept[i] = IF s[i] \in S THEN Append(kept[i - 1], s[i]) ELSE kept[i - 1]
  <2>1. i \in 0..n /\ i # 0 OBVIOUS
  <2> QED BY <1>6, <2>1
<1>8. kept[0] = <<>>
      /\ \A i \in 1..n : kept[i] = IF s[i] \in S THEN Append(kept[i - 1], s[i]) ELSE kept[i - 1]
  BY <1>b, <1>c
<1>9. \A i \in 0..n : kept[i] \in V
  <2> DEFINE R == {i \in 0..n : kept[i] \in V}
  <2>1. ASSUME NEW i \in 0..n, i # 0, i - 1 \in R PROVE i \in R
    <3>1. i \in 1..n /\ s[i] \in T BY <1>0, <2>1
    <3>2. kept[i] = IF s[i] \in S THEN Append(kept[i - 1], s[i]) ELSE kept[i - 1] BY <1>8, <3>1
    <3>3. i - 1 \in 0..n /\ kept[i - 1] \in V BY <2>1
    <3>4. Append(kept[i - 1], s[i]) \in V BY <3>1, <3>3
    <3> QED BY <3>2, <3>3, <3>4
  <2>2. 0 \in R BY <1>2, <1>a, <1>b
  <2> HIDE DEF R, n
  <2>3. \A i \in 0..n : i \in R BY <1>2, <2>1, <2>2, UpTo
  <2> QED BY <2>3 DEF R
<1>10. kept \in [0..n -> V] BY <1>6, <1>9
<1>11. Keeps(kept, s, S, T) BY <1>8, <1>10 DEF Keeps
<1> QED BY <1>7, <1>11

\* What is selected is of S, and nothing of S is left out.
LEMMA OnlyHas ==
  ASSUME NEW T, NEW s \in Seq(T), NEW S
  PROVE  /\ Only(s, S) \in Seq(T)
         /\ \A i \in 1..Len(Only(s, S)) : Only(s, S)[i] \in S /\ \E k \in 1..Len(s) : Only(s, S)[i] = s[k]
         /\ \A k \in 1..Len(s) : s[k] \in S => \E i \in 1..Len(Only(s, S)) : Only(s, S)[i] = s[k]
<1>0. PICK kept : Keeps(kept, s, S, T) /\ Only(s, S) = kept[Len(s)] BY OnlyUnfolds
<1>1. /\ kept \in [0..Len(s) -> Seq(T)] /\ kept[0] = <<>> /\ Only(s, S) = kept[Len(s)]
      /\ \A i \in 1..Len(s) :
           kept[i] = IF s[i] \in S THEN Append(kept[i - 1], s[i]) ELSE kept[i - 1]
  BY <1>0 DEF Keeps
<1> DEFINE n == Len(s)
<1>2. n \in Nat OBVIOUS
<1> DEFINE Good(m) == /\ \A i \in 1..Len(kept[m]) : kept[m][i] \in S /\ \E k \in 1..m : kept[m][i] = s[k]
                      /\ \A k \in 1..m : s[k] \in S => \E i \in 1..Len(kept[m]) : kept[m][i] = s[k]
<1> DEFINE R == {m \in 0..n : Good(m)}
<1>3. 0 \in R BY <1>1, <1>2
<1>4. ASSUME NEW m \in 0..n, m # 0, m - 1 \in R PROVE m \in R
  <2> DEFINE before == kept[m - 1]
  <2>1. before \in Seq(T) /\ m \in 1..n /\ m \in 0..n /\ s[m] \in T BY <1>1, <1>2, <1>4
  <2>2. Good(m - 1) BY <1>4
  <2>3. CASE s[m] \in S
    <3>1. kept[m] = Append(before, s[m]) BY <1>1, <2>1, <2>3
    <3>2. Len(kept[m]) = Len(before) + 1 /\ kept[m][Len(before) + 1] = s[m]
          /\ \A i \in 1..Len(before) : kept[m][i] = before[i]
      BY <2>1, <3>1
    <3>3. Len(before) \in Nat BY <2>1
    <3> HIDE DEF before
    <3>4. ASSUME NEW i \in 1..Len(kept[m])
              PROVE kept[m][i] \in S /\ \E k \in 1..m : kept[m][i] = s[k]
      <4>1. CASE i = Len(before) + 1 BY <2>1, <2>3, <3>2, <4>1
      <4>2. CASE i # Len(before) + 1
        <5>1. i \in 1..Len(before) BY <3>2, <3>3, <4>2
        <5>2. before[i] \in S /\ \E k \in 1..(m - 1) : before[i] = s[k] BY <2>2, <5>1 DEF before
        <5>3. \A k \in 1..(m - 1) : k \in 1..m BY <2>1
        <5> QED BY <3>2, <5>1, <5>2, <5>3
      <4> QED BY <4>1, <4>2
    <3>5. ASSUME NEW k \in 1..m, s[k] \in S PROVE \E i \in 1..Len(kept[m]) : kept[m][i] = s[k]
      <4>1. CASE k = m
        <5>1. Len(before) + 1 \in 1..Len(kept[m]) BY <3>2, <3>3
        <5> QED BY <3>2, <4>1, <5>1
      <4>2. CASE k # m
        <5>1. k \in 1..(m - 1) BY <2>1, <4>2
        <5>2. PICK i \in 1..Len(before) : before[i] = s[k] BY <2>2, <3>5, <5>1 DEF before
        <5>3. i \in 1..Len(kept[m]) BY <3>2, <3>3
        <5> QED BY <3>2, <5>2, <5>3
      <4> QED BY <4>1, <4>2
    <3> QED BY <2>1, <3>4, <3>5
  <2>4. CASE s[m] \notin S
    <3>1. kept[m] = before BY <1>1, <2>1, <2>4
    <3>2. \A k \in 1..m : s[k] \in S => k \in 1..(m - 1) BY <2>1, <2>4
    <3>3. \A k \in 1..(m - 1) : k \in 1..m BY <2>1
    <3>4. Good(m) BY <2>2, <3>1, <3>2, <3>3
    <3> HIDE DEF Good
    <3> QED BY <2>1, <3>4
  <2> QED BY <2>3, <2>4
<1>5. \A i \in 0..n : i \in R
  <2> HIDE DEF R, n
  <2> QED BY <1>2, <1>3, <1>4, UpTo
<1>6. n \in R BY <1>2, <1>5
<1> QED BY <1>1, <1>6

-----------------------------------------------------------------------------
(* The parameter search: its folds.                                         *)

LEMMA AppendAny ==
  ASSUME NEW s, s \in Seq(Range(s)), NEW x
  PROVE  /\ Append(s, x) \in Seq(Range(Append(s, x)))
         /\ DOMAIN s = 1..Len(s) /\ Len(s) \in Nat /\ DOMAIN Append(s, x) = 1..(Len(s) + 1)
         /\ \A i \in DOMAIN s : Append(s, x)[i] = s[i]
         /\ Append(s, x)[Len(s) + 1] = x
<1> DEFINE S == Range(s) \cup {x}
<1>1. s \in Seq(S) /\ x \in S
  <2>1. s \in [1..Len(s) -> Range(s)] /\ Len(s) \in Nat BY LenProperties DEF Range
  <2>2. s \in [1..Len(s) -> S] BY <2>1
  <2> QED BY <2>1, <2>2, IsASeq
<1> HIDE DEF S
<1>2. DOMAIN s = 1..Len(s) /\ Len(s) \in Nat BY <1>1, LenProperties
<1>3. Append(s, x) \in Seq(S) /\ Len(Append(s, x)) = Len(s) + 1 BY <1>1, AppendProperties
<1>4. \A i \in 1..Len(s) : Append(s, x)[i] = s[i] BY <1>1, AppendProperties
<1>5. Append(s, x)[Len(s) + 1] = x BY <1>1, AppendProperties
<1>6. DOMAIN Append(s, x) = 1..(Len(s) + 1) BY <1>2, <1>3, LenProperties
<1> DEFINE t == Append(s, x)
<1>7. t \in [1..(Len(s) + 1) -> Range(t)]
  <2>1. t \in [1..(Len(s) + 1) -> S] BY <1>2, <1>3, LenProperties
  <2> HIDE DEF t
  <2> QED BY <2>1 DEF Range
<1>8. t \in Seq(Range(t))
  <2> HIDE DEF t
  <2>1. Len(s) + 1 \in Nat BY <1>2
  <2> QED BY <1>7, <2>1, IsASeq
<1> QED BY <1>2, <1>4, <1>5, <1>6, <1>8

(* Folds that are reported end before the next begins.                      *)
WalkInv ==
  /\ cur \in Nat
  /\ reported \in Seq(Range(reported))
  /\ \A i \in DOMAIN reported : reported[i].end \in Nat /\ reported[i].end <= cur
  /\ TestedOnUnseen

(* No fold is tested on what it or a fold before it was trained or tested   *)
(* on (walkforward.js).                                                    *)
THEOREM FoldsAreApart == WalkSpec => []TestedOnUnseen
<1>0. TrainMs \in Nat \ {0} /\ TestMs \in Nat \ {0} /\ EndMs \in Nat BY WalkForwardAssumption
<1>a. <<>> \in Seq(Range(<<>>)) /\ DOMAIN <<>> = {}
  <2>1. <<>> \in Seq({}) /\ Range(<<>>) = {} BY DEF Range
  <2> QED BY <2>1
<1>1. InitWalk => WalkInv BY <1>a DEF InitWalk, WalkInv, TestedOnUnseen
<1>2. WalkInv /\ [NextWalk]_walkVars => WalkInv'
  <2> SUFFICES ASSUME WalkInv, [NextWalk]_walkVars PROVE WalkInv' OBVIOUS
  <2>1. CASE UNCHANGED <<cur, reported>> BY <2>1 DEF WalkInv, TestedOnUnseen, Range
  <2>2. CASE Rerun BY <1>a, <2>2 DEF Rerun, WalkInv, TestedOnUnseen
  <2>3. CASE Fold
    <3>1. cur' = cur + TrainMs + TestMs /\ TestEnd = cur + TrainMs + TestMs /\ TestEnd <= EndMs
          /\ TestStart = cur + TrainMs
      BY <2>3 DEF Fold, NextCur, TestEnd, TestStart
    <3>2. cur \in Nat /\ cur' \in Nat /\ TestEnd \in Nat /\ TestEnd = cur' /\ cur <= cur'
      BY <1>0, <3>1 DEF WalkInv
    <3>3. CASE UNCHANGED reported
      <4>1. \A i \in DOMAIN reported : reported[i].end \in Nat /\ reported[i].end <= cur'
        BY <3>2 DEF WalkInv
      <4> QED BY <3>2, <3>3, <4>1 DEF WalkInv, TestedOnUnseen, Range
    <3>4. ASSUME NEW b, NEW top, NEW pnl, ReportFold(b, pnl, top) PROVE WalkInv'
      <4> DEFINE row == [train |-> cur, test |-> TestStart, end |-> TestEnd,
                         best |-> b, top |-> top, pnl |-> Cents(pnl)]
      <4> DEFINE n == Len(reported)
      <4>1. reported' = Append(reported, row) BY <3>4 DEF ReportFold
      <4>2. row.train = cur /\ row.test = cur + TrainMs /\ row.end = TestEnd BY <3>1
      <4> HIDE DEF row
      <4>3. /\ reported' \in Seq(Range(reported'))
            /\ DOMAIN reported = 1..n /\ n \in Nat /\ DOMAIN reported' = 1..(n + 1)
            /\ \A i \in 1..n : reported'[i] = reported[i]
            /\ reported'[n + 1] = row
        BY <4>1, AppendAny DEF WalkInv
      <4> HIDE DEF n
      <4>4. \A i \in DOMAIN reported' : i \in 1..n \/ i = n + 1 BY <4>3
      <4>5. \A i \in DOMAIN reported' : reported'[i].end \in Nat /\ reported'[i].end <= cur'
        BY <3>2, <4>2, <4>3, <4>4 DEF WalkInv
      <4>6. ASSUME NEW i \in DOMAIN reported'
            PROVE  /\ reported'[i].test = reported'[i].train + TrainMs /\ reported'[i].end <= EndMs
                   /\ \A j \in 1..(i - 1) : reported'[j].end <= reported'[i].train
        <5>1. CASE i \in 1..n
          <6>1. \A j \in 1..(i - 1) : j \in 1..n BY <4>3, <5>1
          <6> QED BY <4>3, <5>1, <6>1 DEF WalkInv, TestedOnUnseen
        <5>2. CASE i = n + 1
          <6>1. \A j \in 1..(i - 1) : j \in 1..n BY <4>3, <5>2
          <6> QED BY <3>1, <3>2, <4>2, <4>3, <5>2, <6>1 DEF WalkInv
        <5> QED BY <4>4, <5>1, <5>2
      <4>7. TestedOnUnseen' BY <4>6 DEF TestedOnUnseen
      <4> QED BY <3>2, <4>3, <4>5, <4>7 DEF WalkInv
    <3> QED BY <2>3, <3>3, <3>4 DEF Fold, SkipFold
  <2>4. [NextWalk]_walkVars => UNCHANGED <<cur, reported>> \/ Rerun \/ Fold
    BY DEF NextWalk, NoMoreFolds, FoldsEnd, WriteCsv, WriteAgg, WriteJson, Crash, WfSummary,
           SummaryRead, SummaryJson, SummaryAgg, SummaryDies, Optimize, walkVars, loopVars
  <2> QED BY <2>1, <2>2, <2>3, <2>4
<1>3. WalkInv => TestedOnUnseen BY DEF WalkInv
<1> QED BY <1>1, <1>2, <1>3, PTL DEF WalkSpec

-----------------------------------------------------------------------------
(* Its sums, its choice of the best and its files.                          *)

LEMMA SumSame ==
  ASSUME NEW a \in Int, NEW b \in Int, a - 1 <= b, NEW f, NEW g,
         \A i \in a..b : f[i] \in Int /\ f[i] = g[i]
  PROVE  SumOver(f, a, b) = SumOver(g, a, b)
<1> DEFINE o == a - 1
<1> DEFINE S == {i \in o..b : SumOver(f, a, i) = SumOver(g, a, i)}
<1>1. o \in Int /\ o <= b OBVIOUS
<1>2. o \in S BY <1>1, SumOfNone
<1>3. ASSUME NEW i \in o..b, i # o, i - 1 \in S PROVE i \in S
  <2>1. a <= i /\ i \in Int /\ (\A k \in a..i : f[k] \in Int) /\ (\A k \in a..i : g[k] \in Int)
    BY <1>3
  <2>2. SumOver(f, a, i) = SumOver(f, a, i - 1) + f[i] BY <2>1, SumPrefix
  <2>3. SumOver(g, a, i) = SumOver(g, a, i - 1) + g[i] BY <2>1, SumPrefix
  <2>4. SumOver(f, a, i - 1) = SumOver(g, a, i - 1) BY <1>3
  <2>5. f[i] = g[i] BY <2>1, <1>3
  <2> QED BY <2>2, <2>3, <2>4, <2>5
<1>4. \A i \in o..b : i \in S
  <2> HIDE DEF S, o
  <2> QED BY <1>1, <1>2, <1>3, UpTo
<1>5. b \in o..b BY <1>1
<1> QED BY <1>4, <1>5

LEMMA SumBumped ==
  ASSUME NEW n \in Nat, NEW f \in [1..n -> Int], NEW b \in 1..n
  PROVE  SumOver([f EXCEPT ![b] = @ + 1], 1, n) = SumOver(f, 1, n) + 1
<1> DEFINE g == [f EXCEPT ![b] = @ + 1]
<1> DEFINE S == {i \in 0..n : SumOver(g, 1, i) = SumOver(f, 1, i) + (IF b <= i THEN 1 ELSE 0)}
<1>1. g \in [1..n -> Int] /\ g[b] = f[b] + 1 /\ \A i \in 1..n : i # b => g[i] = f[i]
  <2>1. g = [i \in 1..n |-> IF i = b THEN f[b] + 1 ELSE f[i]] OBVIOUS
  <2> HIDE DEF g
  <2>2. f[b] + 1 \in Int /\ \A i \in 1..n : f[i] \in Int OBVIOUS
  <2> QED BY <2>1, <2>2
<1> HIDE DEF g
<1>0. 0 \in Int /\ n \in Int /\ 0 <= n OBVIOUS
<1>2. 0 \in S
  <2> DEFINE o == 1 - 1
  <2>0. 1 \in Int OBVIOUS
  <2>1. SumOver(f, 1, o) = 0 /\ SumOver(g, 1, o) = 0 BY <2>0, SumOfNone
  <2>2. o = 0 /\ ~(b <= 0) /\ 0 \in 0..n OBVIOUS
  <2> QED BY <2>1, <2>2
<1>3. ASSUME NEW i \in 0..n, i # 0, i - 1 \in S PROVE i \in S
  <2>1. /\ 1 \in Int /\ 1 <= i /\ i \in Int
        /\ (\A k \in 1..i : f[k] \in Int) /\ (\A k \in 1..i : g[k] \in Int)
    BY <1>1, <1>3
  <2>2. SumOver(f, 1, i) = SumOver(f, 1, i - 1) + f[i] /\ SumOver(f, 1, i - 1) \in Int
    BY <2>1, SumPrefix
  <2>3. SumOver(g, 1, i) = SumOver(g, 1, i - 1) + g[i] BY <2>1, SumPrefix
  <2>4. SumOver(g, 1, i - 1) = SumOver(f, 1, i - 1) + (IF b <= i - 1 THEN 1 ELSE 0) BY <1>3
  <2>5. i \in 1..n BY <1>3
  <2>6. f[i] \in Int /\ g[i] = f[i] + (IF i = b THEN 1 ELSE 0) BY <1>1, <2>5
  <2> QED BY <2>2, <2>3, <2>4, <2>6
<1>4. \A i \in 0..n : i \in S
  <2> HIDE DEF S
  <2> QED BY <1>0, <1>2, <1>3, UpTo
<1>5. n \in S BY <1>4
<1> QED BY <1>5 DEF g

-----------------------------------------------------------------------------
(* The search.                                                              *)

(* best[k] is the best of the first k combinations.                          *)
Searches(best, score) ==
  /\ best \in [0..GridSize -> 0..GridSize] /\ best[0] = 0
  /\ \A k \in 1..GridSize :
       best[k] = IF score[k] # NoScore /\ (best[k - 1] = 0 \/ score[k] > score[best[k - 1]])
                 THEN k ELSE best[k - 1]

LEMMA BestUnfolds ==
  ASSUME NEW score PROVE \E best : Searches(best, score) /\ Best(score) = best[GridSize]
<1> DEFINE V == 0..GridSize
<1> DEFINE n == GridSize
<1> DEFINE Takes(k, b) == IF score[k] # NoScore /\ (b = 0 \/ score[k] > score[b]) THEN k ELSE b
<1> DEFINE step == [p \in Int \X V |-> IF p[1] \in V THEN Takes(p[1], p[2]) ELSE p[2]]
<1> DEFINE Goes(h) == h = [k \in 0..n |-> IF k = 0 THEN 0 ELSE Takes(k, h[k - 1])]
<1>0. n \in Nat \ {0} /\ 0 \in Int /\ n \in Int /\ 0 <= n /\ 0 \in V BY WalkForwardAssumption
<1>a. \A k, b \in V : Takes(k, b) \in V OBVIOUS
<1>1. step \in [Int \X V -> V]
  <2> HIDE DEF Takes, V
  <2> QED BY <1>a
<1>2. PICK g : Recurs(g, 0, n, V, 0, step)
  <2> HIDE DEF step, V, n
  <2> QED BY <1>0, <1>1, Recursion
<1>3. ASSUME NEW k \in 0..n PROVE g[k] = IF k = 0 THEN 0 ELSE Takes(k, g[k - 1])
  <2>1. g[k] = IF k = 0 THEN 0 ELSE step[<<k, g[k - 1]>>]
    <3> HIDE DEF step, n, V
    <3> QED BY <1>2 DEF Recurs
  <2>2. CASE k # 0
    <3>1. k - 1 \in 0..n /\ k \in V BY <1>0, <2>2
    <3>2. g[k - 1] \in V BY <1>2, <3>1 DEF Recurs
    <3>3. <<k, g[k - 1]>> \in Int \X V BY <3>2
    <3>4. step[<<k, g[k - 1]>>] = Takes(k, g[k - 1])
      <4> HIDE DEF Takes
      <4> QED BY <3>1, <3>3
    <3> QED BY <2>1, <2>2, <3>4
  <2> QED BY <2>1, <2>2
<1>4. Goes(g) BY <1>2, <1>3 DEF Recurs
<1> DEFINE best == CHOOSE h : Goes(h)
<1>5. Goes(best)
  <2> HIDE DEF Goes
  <2> QED BY <1>4
<1>6. Best(score) = best[n] BY DEF Best
<1> HIDE DEF best
<1>7. best[0] = 0 /\ \A k \in 1..n : best[k] = Takes(k, best[k - 1])
  <2>1. 0 \in 0..n /\ \A k \in 1..n : k \in 0..n /\ k # 0 BY <1>0
  <2> HIDE DEF Takes
  <2> QED BY <1>5, <2>1
<1>8. \A k \in 0..n : best[k] \in V
  <2> DEFINE S == {k \in 0..n : best[k] \in V}
  <2>1. 0 \in S BY <1>0, <1>7
  <2>2. ASSUME NEW k \in 0..n, k # 0, k - 1 \in S PROVE k \in S
    <3>1. k \in 1..n /\ k \in V BY <2>2
    <3> QED BY <1>7, <2>2, <3>1
  <2> HIDE DEF S, n
  <2>3. \A k \in 0..n : k \in S BY <1>0, <2>1, <2>2, UpTo
  <2> QED BY <2>3 DEF S
<1>9. best \in [0..n -> V] BY <1>5, <1>8
<1>10. Searches(best, score) BY <1>7, <1>9 DEF Searches
<1> QED BY <1>6, <1>10

(* The loops end at the first of the combinations with the highest score.    *)
LEMMA BestIsFirstHighest ==
  ASSUME NEW score, \A k \in Combos : score[k] \in Int
  PROVE  /\ Best(score) = FirstHighest(score) /\ Best(score) \in 0..GridSize
         /\ (\E k \in Combos : score[k] # NoScore) =>
              /\ Best(score) \in Combos
              /\ \A l \in Combos : score[l] # NoScore => score[l] <= score[Best(score)]
<1> DEFINE n == GridSize
<1>0. n \in Nat \ {0} /\ 0 \in Int /\ n \in Int BY WalkForwardAssumption
<1>1. PICK best : Searches(best, score) /\ Best(score) = best[n] BY BestUnfolds
<1> DEFINE Good(k) ==
      LET b == best[k] IN
      /\ b \in 0..k
      /\ b = 0 => \A l \in 1..k : score[l] = NoScore
      /\ b # 0 => /\ score[b] # NoScore
                  /\ \A l \in 1..k : score[l] # NoScore => score[l] <= score[b]
                  /\ \A l \in 1..(b - 1) : score[l] # NoScore => score[l] < score[b]
<1> DEFINE S == {k \in 0..n : Good(k)}
<1>2. 0 \in S BY <1>0, <1>1 DEF Searches
<1>3. ASSUME NEW k \in 0..n, k # 0, k - 1 \in S PROVE k \in S
  <2> DEFINE b == best[k - 1]
  <2>1. k \in 1..n /\ k \in 0..n /\ k \in Nat /\ score[k] \in Int BY <1>0, <1>3 DEF Combos
  <2>2. best[k] = IF score[k] # NoScore /\ (b = 0 \/ score[k] > score[b]) THEN k ELSE b
    BY <1>1, <2>1 DEF Searches
  <2>3. /\ b \in 0..(k - 1)
        /\ b = 0 => \A l \in 1..(k - 1) : score[l] = NoScore
        /\ b # 0 => /\ score[b] # NoScore
                    /\ \A l \in 1..(k - 1) : score[l] # NoScore => score[l] <= score[b]
                    /\ \A l \in 1..(b - 1) : score[l] # NoScore => score[l] < score[b]
    BY <1>3
  <2>4. \A l \in 1..k : l = k \/ l \in 1..(k - 1) BY <2>1
  <2>5. \A l \in 1..n : score[l] \in Int BY DEF Combos
  <2> HIDE DEF b
  <2>6. CASE best[k] = k /\ score[k] # NoScore /\ (b = 0 \/ score[k] > score[b])
    <3>1. \A l \in 1..(k - 1) : score[l] # NoScore => score[l] < score[k]
      <4> SUFFICES ASSUME NEW l \in 1..(k - 1), score[l] # NoScore PROVE score[l] < score[k] OBVIOUS
      <4>a. b # 0 BY <2>3
      <4>b. score[l] <= score[b] BY <2>3, <4>a
      <4>c. score[k] > score[b] BY <2>6, <4>a
      <4>d. b \in 1..n /\ l \in 1..n BY <1>0, <2>1, <2>3, <4>a
      <4>1. score[l] <= score[b] /\ score[k] > score[b] /\ b \in 1..n /\ l \in 1..n
        BY <4>b, <4>c, <4>d
      <4> QED BY <2>1, <2>5, <4>1
    <3>2. \A l \in 1..k : score[l] # NoScore => score[l] <= score[k]
      <4> SUFFICES ASSUME NEW l \in 1..k, score[l] # NoScore PROVE score[l] <= score[k] OBVIOUS
      <4>1. CASE l = k BY <2>1, <4>1
      <4>2. CASE l # k
        <5>1. l \in 1..(k - 1) /\ l \in 1..n BY <1>0, <2>1, <4>2
        <5>2. score[l] < score[k] BY <3>1, <5>1
        <5> QED BY <2>1, <2>5, <5>1, <5>2
      <4> QED BY <4>1, <4>2
    <3>3. k \in 0..k /\ k # 0 BY <2>1
    <3>4. Good(k) BY <2>6, <3>1, <3>2, <3>3
    <3> HIDE DEF Good
    <3> QED BY <2>1, <3>4
  <2>7. CASE best[k] = b /\ ~(score[k] # NoScore /\ (b = 0 \/ score[k] > score[b]))
    <3>1. b \in 0..k BY <2>1, <2>3
    <3>2. b = 0 => \A l \in 1..k : score[l] = NoScore BY <2>3, <2>4, <2>7
    <3>3. ASSUME b # 0 PROVE \A l \in 1..k : score[l] # NoScore => score[l] <= score[b]
      <4>1. b \in 1..n BY <1>0, <2>1, <2>3, <3>3
      <4>3. score[b] \in Int BY <2>5, <4>1
      <4>2. score[k] # NoScore => score[k] <= score[b] BY <2>1, <2>7, <3>3, <4>3
      <4> QED BY <2>3, <2>4, <3>3, <4>2
    <3>4. b # 0 => score[b] # NoScore /\ \A l \in 1..(b - 1) : score[l] # NoScore => score[l] < score[b]
      BY <2>3
    <3>5. Good(k) BY <2>7, <3>1, <3>2, <3>3, <3>4
    <3> HIDE DEF Good
    <3> QED BY <2>1, <3>5
  <2> QED BY <2>2, <2>6, <2>7
<1>4. \A k \in 0..n : k \in S
  <2> HIDE DEF S, n
  <2> QED BY <1>0, <1>2, <1>3, UpTo
<1>5. Good(n) BY <1>0, <1>4
<1> DEFINE b == best[n]
<1> DEFINE finite == {k \in Combos : score[k] # NoScore}
<1> DEFINE top == {k \in finite : \A l \in finite : score[l] <= score[k]}
<1>6. FirstHighest(score) = IF finite = {} THEN 0 ELSE Min(top) BY DEF FirstHighest
<1>7. CASE b = 0
  <2>1. finite = {} BY <1>5, <1>7 DEF Combos
  <2> QED BY <1>0, <1>1, <1>6, <1>7, <2>1
<1>8. CASE b # 0
  <2>1. b \in Combos /\ b \in finite BY <1>0, <1>5, <1>8 DEF Combos
  <2>2. b \in top BY <1>5, <1>8, <2>1 DEF Combos
  <2>3. top \in SUBSET Nat BY <1>0 DEF Combos
  <2>4. Min(top) \in top /\ Min(top) <= b
    <3> HIDE DEF top, b
    <3> QED BY <2>2, <2>3, MinIs
  <2>5. ~(Min(top) < b)
    <3> SUFFICES ASSUME Min(top) < b PROVE FALSE OBVIOUS
    <3> DEFINE m == Min(top)
    <3>1. m \in Combos /\ score[m] # NoScore /\ score[b] <= score[m] BY <2>1, <2>4
    <3> HIDE DEF m
    <3>2. m \in 1..(b - 1) BY <1>0, <2>1, <3>1 DEF Combos, m
    <3>3. score[m] < score[b] BY <1>5, <1>8, <3>1, <3>2
    <3>4. score[m] \in Int /\ score[b] \in Int BY <2>1, <3>1
    <3> QED BY <3>1, <3>3, <3>4
  <2>6. Min(top) = b BY <1>0, <2>1, <2>3, <2>4, <2>5 DEF Combos
  <2> QED BY <1>0, <1>1, <1>5, <1>6, <1>8, <2>1, <2>6 DEF Combos
<1> QED BY <1>7, <1>8

-----------------------------------------------------------------------------
(* The reports of the search.                                               *)

FoldRows == [train : Int, test : Int, end : Int, best : Nat, top : Nat, pnl : Int]

WalkTypes ==
  /\ cur \in Int /\ total \in Int /\ reported \in Seq(FoldRows) /\ equity \in Seq(Int)
  /\ picks \in [Combos -> Nat] /\ run \in 1..MaxRuns
  /\ published \in [1..MaxRuns -> Seq(FoldRows)]
  /\ csv \in [of : 0..run, says : Seq(FoldRows)]
  /\ agg \in [of : 0..run, says : Seq(Int)] /\ json.of \in 0..run
  /\ summary \in [pc : {"none", "json", "agg", "ended", "dead"}, of : 0..run,
                  rows : Seq(FoldRows), alone : BOOLEAN]

\* The equity is the sum of the rows but for half a cent of rounding each.
Booked ==
  /\ Bookkept
  /\ \A i \in 1..Len(reported) :
       10 * CumulatedPnl(reported)[i] - equity[i] \in (-(5 * i))..(5 * i)

\* Which rows a file or wf-summary.js holds: those of the run it names, and of no run before
\* its csv is written.
FilesKept ==
  /\ csv.says = IF csv.of = 0 THEN <<>> ELSE published[csv.of]
  /\ stage \in {"agg", "json", "done"} => csv.of = run /\ published[run] = reported
  /\ stage \in {"folds", "csv"} => run \notin {csv.of, agg.of, json.of, summary.of}
  /\ summary.pc \in {"json", "agg", "ended"} => summary.of # 0
  /\ summary.pc \in Rewriting => summary.rows = published[summary.of]

\* Where the two processes can meet.
Meeting ==
  /\ stage \in {"agg", "json", "done"} /\ ~crossed /\ summary.pc \in Rewriting => summary.of = run
  /\ stage \in {"json", "done"} /\ ~crossed => agg.of \in {run} \cup Unfinished
  /\ stage = "done" /\ ~crossed => json.of \in {run} \cup Unfinished
  /\ stage = "done" /\ ~crossed /\ summary.pc = "agg" => json.of = run
  /\ summary.alone /\ summary.of = csv.of =>
       /\ summary.pc \in {"json", "agg", "ended"} => stage \notin {"agg", "json"}
       /\ summary.pc \in {"agg", "ended"} => json.of = csv.of
       /\ summary.pc = "ended" => agg.of = csv.of

Telling == AggTells /\ JsonTells

ReportInv == WalkTypes /\ Booked /\ FilesKept /\ Meeting /\ Telling /\ SearchFindsBest

LEMMA CumulatedIs ==
  ASSUME NEW rs \in Seq(FoldRows)
  PROVE  CumulatedPnl(rs) \in Seq(Int) /\ Len(CumulatedPnl(rs)) = Len(rs)
<1> DEFINE P == [k \in DOMAIN rs |-> rs[k].pnl]
<1>1. DOMAIN rs = 1..Len(rs) /\ Len(rs) \in Nat /\ \A k \in 1..Len(rs) : rs[k] \in FoldRows OBVIOUS
<1>2. \A k \in 1..Len(rs) : P[k] \in Int BY <1>1 DEF FoldRows
<1>3. CumulatedPnl(rs) = [i \in 1..Len(rs) |-> SumOver(P, 1, i)] BY <1>1 DEF CumulatedPnl
<1> HIDE DEF P
<1>4. ASSUME NEW i \in 1..Len(rs) PROVE SumOver(P, 1, i) \in Int
  <2>1. 1 \in Int /\ i \in Int /\ 1 <= i /\ \A k \in 1..i : P[k] \in Int BY <1>1, <1>2
  <2> QED BY <2>1, SumPrefix
<1> QED BY <1>1, <1>3, <1>4

LEMMA CumulatedAppend ==
  ASSUME NEW rs \in Seq(FoldRows), NEW r \in FoldRows
  PROVE  LET n == Len(rs)
             before == CumulatedPnl(rs)
             after == CumulatedPnl(Append(rs, r))
         IN /\ \A i \in 1..n : after[i] = before[i]
            /\ after[n + 1] = (IF n = 0 THEN 0 ELSE before[n]) + r.pnl
<1> DEFINE n == Len(rs)
<1> DEFINE m == n + 1
<1> DEFINE t == Append(rs, r)
<1> DEFINE P == [k \in DOMAIN rs |-> rs[k].pnl]
<1> DEFINE Q == [k \in DOMAIN t |-> t[k].pnl]
<1>1. /\ n \in Nat /\ m \in Int /\ 1 \in Int /\ DOMAIN rs = 1..n /\ DOMAIN t = 1..m
      /\ t[m] = r /\ \A k \in 1..n : t[k] = rs[k] /\ rs[k] \in FoldRows
  OBVIOUS
<1>2. /\ Q[m] = r.pnl /\ r.pnl \in Int /\ \A k \in 1..n : P[k] \in Int /\ P[k] = Q[k]
  <2> HIDE DEF t
  <2>1. m \in 1..m /\ \A k \in 1..n : k \in 1..m BY <1>1
  <2> QED BY <1>1, <2>1 DEF FoldRows
<1>3. CumulatedPnl(rs) = [i \in 1..n |-> SumOver(P, 1, i)] BY <1>1 DEF CumulatedPnl
<1>4. CumulatedPnl(t) = [i \in 1..m |-> SumOver(Q, 1, i)] BY <1>1 DEF CumulatedPnl
<1> HIDE DEF P, Q, t, n
<1>5. ASSUME NEW i \in 1..n PROVE SumOver(P, 1, i) = SumOver(Q, 1, i)
  <2>1. 1 \in Int /\ i \in Int /\ 1 - 1 <= i /\ \A k \in 1..i : P[k] \in Int /\ P[k] = Q[k]
    BY <1>1, <1>2
  <2> QED BY <2>1, SumSame
<1>6. SumOver(Q, 1, m) = SumOver(Q, 1, m - 1) + Q[m]
  <2>1. 1 \in Int /\ m \in Int /\ 1 <= m /\ \A k \in 1..m : Q[k] \in Int BY <1>1, <1>2
  <2> HIDE DEF m
  <2> QED BY <2>1, SumPrefix
<1>7. SumOver(Q, 1, m - 1) = IF n = 0 THEN 0 ELSE CumulatedPnl(rs)[n]
  <2>1. CASE n = 0
    <3> DEFINE o == 1 - 1
    <3>1. SumOver(Q, 1, o) = 0
      <4> HIDE DEF o
      <4> QED BY <1>1, SumOfNone DEF o
    <3>2. m - 1 = o BY <2>1
    <3> QED BY <2>1, <3>1, <3>2
  <2>2. CASE n # 0
    <3>1. n \in 1..n /\ m - 1 = n BY <1>1, <2>2
    <3> QED BY <1>3, <1>5, <2>2, <3>1
  <2> QED BY <2>1, <2>2
<1>8. m \in 1..m /\ \A i \in 1..n : i \in 1..m BY <1>1
<1>9. \A i \in 1..n : CumulatedPnl(t)[i] = CumulatedPnl(rs)[i] BY <1>3, <1>4, <1>5, <1>8
<1>10. CumulatedPnl(t)[m] = (IF n = 0 THEN 0 ELSE CumulatedPnl(rs)[n]) + r.pnl
  BY <1>2, <1>4, <1>6, <1>7, <1>8
<1> QED BY <1>9, <1>10 DEF t, n

LEMMA CentsRound == ASSUME NEW x \in Int PROVE Cents(x) \in Int /\ 10 * Cents(x) - x \in (-5)..5
  BY DEF Cents

LEMMA FirstMaximum ==
  ASSUME NEW n \in Nat \ {0}, NEW f, \A k \in 1..n : f[k] \in Int
  PROVE  \E k \in 1..n : \A l \in 1..n : f[l] <= f[k] /\ (f[l] = f[k] => k <= l)
<1> DEFINE First(j) == \E k \in 1..j : \A l \in 1..j : f[l] <= f[k] /\ (f[l] = f[k] => k <= l)
<1> DEFINE S == {j \in 1..n : First(j)}
<1>0. 1 \in Int /\ n \in Int /\ n \in 1..n OBVIOUS
<1>1. 1 \in S
  <2>1. f[1] \in Int /\ 1 \in 1..1 /\ \A l \in 1..1 : l = 1 OBVIOUS
  <2> QED BY <2>1
<1>2. ASSUME NEW j \in 1..n, j # 1, j - 1 \in S PROVE j \in S
  <2>1. PICK k \in 1..(j - 1) : \A l \in 1..(j - 1) : f[l] <= f[k] /\ (f[l] = f[k] => k <= l)
    BY <1>2
  <2>2. j \in 1..n /\ k \in 1..j /\ j \in 1..j /\ f[j] \in Int /\ f[k] \in Int /\ k <= j
        /\ \A l \in 1..j : l = j \/ l \in 1..(j - 1)
    BY <2>1
  <2>4. \A l \in 1..(j - 1) : f[l] \in Int OBVIOUS
  <2>3. First(j)
    <3>1. CASE f[j] <= f[k] BY <2>1, <2>2, <3>1
    <3>2. CASE ~(f[j] <= f[k])
      <4>1. \A l \in 1..(j - 1) : f[l] < f[j] BY <2>1, <2>2, <2>4, <3>2
      <4>2. \A l \in 1..j : f[l] <= f[j] /\ (f[l] = f[j] => j <= l) BY <2>2, <2>4, <4>1
      <4> QED BY <2>2, <4>2
    <3> QED BY <3>1, <3>2
  <2> HIDE DEF First
  <2> QED BY <2>3
<1>3. \A j \in 1..n : j \in S
  <2> HIDE DEF S
  <2> QED BY <1>0, <1>1, <1>2, UpTo
<1> QED BY <1>0, <1>3

\* optimize.js rounds first, and so may stop short of the best by less than a hundredth.
LEMMA RowIsClose ==
  ASSUME NEW score \in [Combos -> Scores]
  PROVE  score[FirstHighest(score)] - score[Row0(score)] < 100
<1> DEFINE f == [k \in Combos |-> Round2(score[k])]
<1> DEFINE best == Row0(score)
<1> DEFINE top == FirstHighest(score)
<1>0. GridSize \in Nat \ {0} /\ Combos = 1..GridSize BY WalkForwardAssumption DEF Combos
<1>1. \A k \in Combos : score[k] \in Int /\ score[k] # NoScore BY WalkForwardAssumption
<1>2. \A k \in Combos : f[k] = Round2(score[k]) /\ f[k] \in Int BY <1>1 DEF Round2
<1>3. \E k \in Combos : \A l \in Combos : f[l] <= f[k] /\ (f[l] = f[k] => k <= l)
  <2> HIDE DEF f
  <2>1. \A k \in 1..GridSize : f[k] \in Int BY <1>0, <1>2
  <2>2. \E k \in 1..GridSize : \A l \in 1..GridSize : f[l] <= f[k] /\ (f[l] = f[k] => k <= l)
    BY <1>0, <2>1, FirstMaximum
  <2> QED BY <1>0, <2>2
<1>4. \E k \in Combos : \A l \in Combos :
         /\ Round2(score[l]) <= Round2(score[k])
         /\ Round2(score[l]) = Round2(score[k]) => k <= l
  BY <1>2, <1>3
<1>5. best \in Combos /\ \A l \in Combos : Round2(score[l]) <= Round2(score[best])
  BY <1>4 DEF Row0
<1>6. top \in Combos
  <2>1. 1 \in Combos BY <1>0
  <2> QED BY <1>1, <2>1, BestIsFirstHighest
<1> HIDE DEF best, top
<1>7. score[top] \in Int /\ score[best] \in Int /\ Round2(score[top]) <= Round2(score[best])
  BY <1>1, <1>5, <1>6
<1>8. score[top] - score[best] < 100 BY <1>7 DEF Round2
<1> QED BY <1>8 DEF best, top

\* What a fold leaves alone.
restVars == <<run, stage, walkFiles, summary, params, published, crossed>>

LEMMA RestKept ==
  ASSUME FilesKept, Meeting, Telling, stage = "folds", UNCHANGED restVars
  PROVE  FilesKept' /\ Meeting' /\ Telling'
<1>1. UNCHANGED <<run, stage, csv, agg, json, summary, params, published, crossed>>
  BY DEF restVars, walkFiles
<1>2. FilesKept' BY <1>1 DEF FilesKept
<1>3. Meeting' BY <1>1 DEF Meeting, Unfinished
<1>4. Telling' BY <1>1 DEF Telling, AggTells, JsonTells
<1> QED BY <1>2, <1>3, <1>4

LEMMA SkipStep ==
  ASSUME ReportInv, NEW b \in 0..GridSize, SkipFold(b), cur' = NextCur,
         stage = "folds", UNCHANGED restVars
  PROVE  ReportInv'
<1>0. GridSize \in Nat \ {0} /\ TrainMs \in Nat /\ TestMs \in Nat BY WalkForwardAssumption
<1>1. cur' \in Int BY <1>0 DEF NextCur, TestEnd, TestStart, ReportInv, WalkTypes
<1>2. UNCHANGED <<reported, equity, total>>
      /\ picks' = IF b = 0 THEN picks ELSE [picks EXCEPT ![b] = @ + 1]
  BY DEF SkipFold
<1>3. picks \in [Combos -> Nat] /\ picks \in [1..GridSize -> Int]
      BY DEF ReportInv, WalkTypes, Combos
<1>4. SumOver(picks, 1, GridSize) \in Int
  <2>1. 1 \in Int /\ GridSize \in Int /\ 1 <= GridSize /\ \A i \in 1..GridSize : picks[i] \in Int
    BY <1>0, <1>3
  <2> QED BY <2>1, SumPrefix
<1>5. picks' \in [Combos -> Nat] BY <1>2, <1>3
<1>6. SumOver(picks', 1, GridSize) >= SumOver(picks, 1, GridSize)
  <2>1. CASE b = 0 BY <1>2, <1>4, <2>1
  <2>2. CASE b # 0
    <3>1. b \in 1..GridSize /\ picks' = [picks EXCEPT ![b] = @ + 1] BY <1>2, <2>2
    <3>2. SumOver([picks EXCEPT ![b] = @ + 1], 1, GridSize) = SumOver(picks, 1, GridSize) + 1
      BY <1>0, <1>3, <3>1, SumBumped
    <3> QED BY <1>4, <3>1, <3>2
  <2> QED BY <2>1, <2>2
<1>7. WalkTypes' BY <1>1, <1>2, <1>5 DEF ReportInv, WalkTypes, restVars, walkFiles
<1>8. Booked'
  <2>1. SumOver(picks, 1, GridSize) >= Len(reported) /\ Len(reported) \in Nat
    BY DEF ReportInv, Booked, Bookkept, WalkTypes
  <2>2. SumOver(picks', 1, GridSize) \in Int
    <3>1. 1 \in Int /\ GridSize \in Int /\ 1 <= GridSize /\ \A i \in 1..GridSize : picks'[i] \in Int
      BY <1>0, <1>5 DEF Combos
    <3> QED BY <3>1, SumPrefix
  <2>3. SumOver(picks', 1, GridSize) >= Len(reported') BY <1>2, <1>4, <1>6, <2>1, <2>2
  <2> QED BY <1>2, <2>3 DEF ReportInv, Booked, Bookkept, LastOf, CumulatedPnl
<1>9. FilesKept' /\ Meeting' /\ Telling' BY RestKept DEF ReportInv
<1>10. SearchFindsBest' BY <1>2 DEF ReportInv, SearchFindsBest, restVars
<1> QED BY <1>7, <1>8, <1>9, <1>10 DEF ReportInv

LEMMA ReportStep ==
  ASSUME ReportInv, NEW b \in 0..GridSize, NEW pnl \in Pnls, ReportFold(b, pnl, b), cur' = NextCur,
         stage = "folds", UNCHANGED restVars
  PROVE  ReportInv'
<1>0. GridSize \in Nat \ {0} /\ TrainMs \in Nat /\ TestMs \in Nat /\ pnl \in Int
  BY WalkForwardAssumption
<1>1. cur \in Int /\ cur' \in Int /\ TestStart \in Int /\ TestEnd \in Int
  BY <1>0 DEF NextCur, TestEnd, TestStart, ReportInv, WalkTypes
<1> DEFINE row == [train |-> cur, test |-> TestStart, end |-> TestEnd,
                   best |-> b, top |-> b, pnl |-> Cents(pnl)]
<1> DEFINE n == Len(reported)
<1> DEFINE m == n + 1
<1>2. /\ b # 0 /\ picks' = [picks EXCEPT ![b] = @ + 1] /\ total' = total + pnl
      /\ equity' = Append(equity, LastOf(equity) + pnl) /\ reported' = Append(reported, row)
  BY DEF ReportFold
<1>3. Cents(pnl) \in Int /\ 10 * Cents(pnl) - pnl \in (-5)..5 BY <1>0, CentsRound
<1>4. row \in FoldRows /\ row.pnl = Cents(pnl) /\ row.best = row.top
  BY <1>0, <1>1, <1>3 DEF FoldRows
<1> HIDE DEF row
<1>5. /\ reported \in Seq(FoldRows) /\ equity \in Seq(Int) /\ Len(equity) = n /\ n \in Nat
      /\ LastOf(equity) = total /\ total \in Int /\ picks \in [1..GridSize -> Int]
      /\ picks \in [Combos -> Nat] /\ b \in 1..GridSize
  BY <1>2 DEF ReportInv, WalkTypes, Booked, Bookkept, Combos
<1>6. /\ reported' \in Seq(FoldRows) /\ Len(reported') = m /\ reported'[m] = row
      /\ \A i \in 1..n : reported'[i] = reported[i]
  BY <1>2, <1>4, <1>5
<1>7. /\ equity' \in Seq(Int) /\ Len(equity') = m /\ equity'[m] = LastOf(equity) + pnl
      /\ \A i \in 1..n : equity'[i] = equity[i]
  BY <1>0, <1>2, <1>5
<1>8. /\ \A i \in 1..n : CumulatedPnl(reported')[i] = CumulatedPnl(reported)[i]
      /\ CumulatedPnl(reported')[m] = (IF n = 0 THEN 0 ELSE CumulatedPnl(reported)[n]) + Cents(pnl)
  BY <1>2, <1>4, <1>5, CumulatedAppend
<1>a. picks' \in [Combos -> Nat]
  <2>1. b \in Combos /\ picks[b] + 1 \in Nat BY <1>5 DEF Combos
  <2> QED BY <1>2, <1>5, <2>1
<1>b. total' \in Int BY <1>0, <1>2, <1>5
<1>9. WalkTypes' BY <1>1, <1>6, <1>7, <1>a, <1>b DEF ReportInv, WalkTypes, restVars, walkFiles
<1>10. Booked'
  <2>1. LastOf(equity') = total' BY <1>2, <1>5, <1>7 DEF LastOf
  <2>2. SumOver(picks', 1, GridSize) >= Len(reported')
    <3>1. SumOver([picks EXCEPT ![b] = @ + 1], 1, GridSize) = SumOver(picks, 1, GridSize) + 1
      BY <1>0, <1>5, SumBumped
    <3>2. 1 \in Int /\ GridSize \in Int /\ 1 <= GridSize /\ \A i \in 1..GridSize : picks[i] \in Int
      BY <1>0, <1>5
    <3>3. SumOver(picks, 1, GridSize) \in Int BY <3>2, SumPrefix
    <3>4. SumOver(picks, 1, GridSize) >= n BY DEF ReportInv, Booked, Bookkept
    <3> QED BY <1>2, <1>5, <1>6, <3>1, <3>3, <3>4
  <2>3. \A i \in 1..n : 10 * CumulatedPnl(reported)[i] - equity[i] \in (-(5 * i))..(5 * i)
    BY DEF ReportInv, Booked
  <2>4. 10 * CumulatedPnl(reported')[m] - equity'[m] \in (-(5 * m))..(5 * m)
    <3>1. CASE n = 0
      <4>1. LastOf(equity) = 0 BY <1>5, <3>1 DEF LastOf
      <4> QED BY <1>0, <1>3, <1>7, <1>8, <3>1, <4>1
    <3>2. CASE n # 0
      <4> DEFINE sum == CumulatedPnl(reported)[n]
      <4> DEFINE last == equity[n]
      <4>1. LastOf(equity) = last /\ n \in 1..n BY <1>5, <3>2 DEF LastOf
      <4>2. sum \in Int /\ last \in Int BY <1>5, <4>1, CumulatedIs
      <4>3. 10 * sum - last \in (-(5 * n))..(5 * n) BY <2>3, <4>1
      <4>4. CumulatedPnl(reported')[m] = sum + Cents(pnl) /\ equity'[m] = last + pnl
        BY <1>7, <1>8, <3>2, <4>1
      <4> DEFINE c == Cents(pnl)
      <4>6. c \in Int /\ 10 * c - pnl \in (-5)..5 BY <1>3
      <4> HIDE DEF sum, last, c, n
      <4>7. /\ -(5 * n) <= 10 * sum - last /\ 10 * sum - last <= 5 * n
            /\ -5 <= 10 * c - pnl /\ 10 * c - pnl <= 5
        BY <4>2, <4>3, <4>6
      <4>8. n \in Int BY <1>5
      <4>5. 10 * (sum + c) - (last + pnl) \in (-(5 * (n + 1)))..(5 * (n + 1))
        BY <1>0, <4>2, <4>6, <4>7, <4>8
      <4> QED BY <4>4, <4>5 DEF c
    <3> QED BY <3>1, <3>2
  <2>5. ASSUME NEW i \in 1..m
        PROVE  10 * CumulatedPnl(reported')[i] - equity'[i] \in (-(5 * i))..(5 * i)
    <3>1. CASE i = m BY <2>4, <3>1
    <3>2. CASE i # m
      <4>1. i \in 1..n BY <1>5, <3>2
      <4> QED BY <1>7, <1>8, <2>3, <4>1
    <3> QED BY <3>1, <3>2
  <2> HIDE DEF n, m
  <2> QED BY <1>6, <1>7, <2>1, <2>2, <2>5 DEF Booked, Bookkept
<1>11. FilesKept' /\ Meeting' /\ Telling' BY RestKept DEF ReportInv
<1>12. SearchFindsBest'
  <2>1. ASSUME NEW i \in 1..m PROVE reported'[i].best = reported'[i].top
    <3>1. CASE i = m BY <1>4, <1>6, <3>1
    <3>2. CASE i # m
      <4>1. i \in 1..n BY <1>5, <3>2
      <4> QED BY <1>5, <1>6, <4>1 DEF ReportInv, SearchFindsBest
    <3> QED BY <3>1, <3>2
  <2>2. DOMAIN reported' = 1..m BY <1>6
  <2> QED BY <2>1, <2>2 DEF ReportInv, SearchFindsBest, restVars
<1> QED BY <1>9, <1>10, <1>11, <1>12 DEF ReportInv

LEMMA FoldStep == ASSUME ReportInv, Fold PROVE ReportInv'
<1>0. stage = "folds" /\ cur' = NextCur /\ UNCHANGED restVars BY DEF Fold, restVars
<1>1. PICK score \in [Combos -> Scores \cup {NoScore}] :
        \/ SkipFold(Best(score))
        \/ \E pnl \in Pnls : ReportFold(Best(score), pnl, FirstHighest(score))
  BY DEF Fold
<1>2. \A k \in Combos : score[k] \in Int
  <2>1. NoScore \in Int BY DEF NoScore
  <2>2. Scores \subseteq Int BY WalkForwardAssumption
  <2>3. \A k \in Combos : score[k] \in Scores \cup {NoScore} OBVIOUS
  <2> QED BY <2>1, <2>2, <2>3
<1>3. Best(score) = FirstHighest(score) /\ Best(score) \in 0..GridSize BY <1>2, BestIsFirstHighest
<1>4. CASE SkipFold(Best(score)) BY <1>0, <1>3, <1>4, SkipStep
<1>5. ASSUME NEW pnl \in Pnls, ReportFold(Best(score), pnl, FirstHighest(score)) PROVE ReportInv'
  <2>1. ReportFold(Best(score), pnl, Best(score)) BY <1>3, <1>5
  <2> QED BY <1>0, <1>3, <2>1, ReportStep
<1> QED BY <1>1, <1>4, <1>5

\* A sum rounded once is within a cent a row of the sum of rounded rows.
LEMMA CentsTrack ==
  ASSUME WalkTypes, Booked, NEW i \in 1..Len(reported)
  PROVE  /\ Cents(equity[i]) \in Int
         /\ Cents(equity[i]) - CumulatedPnl(reported)[i] \in (-i)..i
<1> DEFINE sum == CumulatedPnl(reported)[i]
<1> DEFINE c == Cents(equity[i])
<1> DEFINE e == equity[i]
<1>0. reported \in Seq(FoldRows) /\ e \in Int BY DEF WalkTypes, Booked, Bookkept
<1>1. sum \in Int BY <1>0, CumulatedIs
<1>2. c \in Int /\ 10 * c - e \in (-5)..5 BY <1>0, CentsRound
<1>3. 10 * sum - e \in (-(5 * i))..(5 * i) BY DEF Booked
<1>6. i \in Int /\ 1 <= i BY <1>0
<1> HIDE DEF sum, c, e
<1>5. -5 <= 10 * c - e /\ 10 * c - e <= 5 /\ -(5 * i) <= 10 * sum - e /\ 10 * sum - e <= 5 * i
  BY <1>0, <1>1, <1>2, <1>3, <1>6
<1>7. c - sum \in (-i)..i BY <1>0, <1>1, <1>2, <1>5, <1>6
<1> QED BY <1>2, <1>7 DEF sum, c

\* The rest of a step that only moves walkforward.js along and writes files.
LEMMA SameRows ==
  ASSUME Booked, SearchFindsBest, UNCHANGED <<loopVars, params>>
  PROVE  Booked' /\ SearchFindsBest'
<1>1. UNCHANGED <<reported, equity, picks, total, params>> BY DEF loopVars
<1> QED BY <1>1 DEF Booked, Bookkept, SearchFindsBest

LEMMA WriteCsvStep == ASSUME ReportInv, WriteCsv PROVE ReportInv'
<1>1. /\ stage = "csv" /\ stage' = "agg" /\ csv' = [of |-> run, says |-> reported]
      /\ published' = [published EXCEPT ![run] = reported] /\ crossed' = (summary.pc \in Rewriting)
      /\ UNCHANGED <<run, cur, total, reported, equity, picks, agg, json, summary, params>>
  BY DEF WriteCsv, loopVars
<1>2. Booked' /\ SearchFindsBest' BY SameRows DEF ReportInv, WriteCsv
<1>3. WalkTypes' BY <1>1 DEF ReportInv, WalkTypes
<1>4. /\ run \in 1..MaxRuns /\ MaxRuns \in Nat /\ published' [run] = reported
      /\ \A r \in 1..MaxRuns : r # run => published'[r] = published[r]
      /\ run \notin {csv.of, agg.of, json.of, summary.of}
      /\ agg.of \in 0..run /\ json.of \in 0..run /\ summary.of \in 0..run
  BY <1>1, WalkForwardAssumption DEF ReportInv, WalkTypes, FilesKept
<1>5. FilesKept'
  <2>1. summary.pc \in Rewriting => summary.of \in 1..MaxRuns /\ summary.of # run
    BY <1>4 DEF ReportInv, FilesKept, Rewriting
  <2> QED BY <1>1, <1>4, <2>1 DEF ReportInv, FilesKept, Rewriting
<1>6. Meeting' BY <1>1, <1>4 DEF ReportInv, Meeting, Rewriting
<1>7. Telling'
  <2>1. agg.of # 0 => published'[agg.of] = published[agg.of] BY <1>4
  <2>2. json.of # 0 => published'[json.of] = published[json.of] BY <1>4
  <2> QED BY <1>1, <2>1, <2>2 DEF ReportInv, Telling, AggTells, JsonTells
<1> QED BY <1>2, <1>3, <1>5, <1>6, <1>7 DEF ReportInv

LEMMA WriteAggStep == ASSUME ReportInv, WriteAgg PROVE ReportInv'
<1> DEFINE says == [i \in DOMAIN equity |-> Cents(equity[i])]
<1>1. /\ stage = "agg" /\ stage' = "json" /\ agg' = [of |-> run, says |-> says]
      /\ UNCHANGED <<cur, reported, equity, picks, total, run, csv, json, summary, params,
                     published, crossed>>
  BY DEF WriteAgg, loopVars
<1> DEFINE n == Len(reported)
<1>2. /\ published[run] = reported /\ reported \in Seq(FoldRows) /\ equity \in Seq(Int)
      /\ n \in Nat /\ DOMAIN equity = 1..n /\ run # 0 /\ csv.of = run
  BY <1>1 DEF ReportInv, WalkTypes, Booked, Bookkept, FilesKept
<1>3. \A i \in 1..n : Cents(equity[i]) \in Int
                       /\ Cents(equity[i]) - CumulatedPnl(reported)[i] \in (-i)..i
  BY CentsTrack DEF ReportInv
<1>4. says \in Seq(Int) /\ Len(says) = n /\ \A i \in 1..n : says[i] = Cents(equity[i])
  BY <1>2, <1>3
<1> HIDE DEF says
<1>5. AggTells' BY <1>1, <1>2, <1>3, <1>4 DEF AggTells
<1>6. Telling' BY <1>1, <1>5 DEF ReportInv, Telling, JsonTells
<1>7. FilesKept' /\ Meeting' BY <1>1, <1>2 DEF ReportInv, FilesKept, Meeting, Unfinished
<1>8. WalkTypes' BY <1>1, <1>4 DEF ReportInv, WalkTypes
<1>9. Booked' /\ SearchFindsBest' BY SameRows DEF ReportInv, WriteAgg
<1> QED BY <1>6, <1>7, <1>8, <1>9 DEF ReportInv

LEMMA WriteJsonStep == ASSUME ReportInv, WriteJson PROVE ReportInv'
<1> DEFINE n == Len(reported)
<1> DEFINE fall == Cents(MaxFall(equity))
<1>1. /\ stage = "json" /\ stage' = "done"
      /\ json' = [of |-> run, says |-> <<n, Cents(total), fall>>]
      /\ UNCHANGED <<cur, reported, equity, picks, total, run, csv, agg, summary, params,
                     published, crossed>>
  BY DEF WriteJson, loopVars
<1>2. /\ published[run] = reported /\ reported \in Seq(FoldRows) /\ equity \in Seq(Int)
      /\ n \in Nat /\ Len(equity) = n /\ run # 0 /\ csv.of = run /\ LastOf(equity) = total
      /\ total \in Int
  BY <1>1 DEF ReportInv, WalkTypes, Booked, Bookkept, FilesKept
<1>3. Cents(total) \in Int BY <1>2, CentsRound
<1>4. Len(CumulatedPnl(reported)) = n BY <1>2, CumulatedIs
<1>5. Cents(total) - LastOf(CumulatedPnl(reported)) \in (-n)..n
  <2>1. CASE n = 0
    <3>1. total = 0 /\ LastOf(CumulatedPnl(reported)) = 0
      <4>1. CumulatedPnl(reported) = <<>> BY <1>2, <1>4, <2>1, CumulatedIs
      <4> QED BY <1>2, <2>1, <4>1 DEF LastOf
    <3> QED BY <2>1, <3>1 DEF Cents
  <2>2. CASE n # 0
    <3>1. n \in 1..n /\ total = equity[n] BY <1>2, <2>2 DEF LastOf
    <3>2. LastOf(CumulatedPnl(reported)) = CumulatedPnl(reported)[n]
      BY <1>2, <1>4, <2>2, CumulatedIs DEF LastOf
    <3> QED BY <3>1, <3>2, CentsTrack DEF ReportInv
  <2> QED BY <2>1, <2>2
<1> HIDE DEF fall
<1>6. JsonTells' BY <1>1, <1>2, <1>5 DEF JsonTells
<1>7. Telling' BY <1>1, <1>6 DEF ReportInv, Telling, AggTells
<1>8. FilesKept' /\ Meeting'
  <2>1. json'.of = run BY <1>1
  <2> QED BY <1>1, <1>2, <2>1 DEF ReportInv, FilesKept, Meeting, Unfinished
<1>9. WalkTypes'
  <2>1. json'.of = run /\ run \in 0..run BY <1>1 DEF ReportInv, WalkTypes
  <2> QED BY <1>1, <2>1 DEF ReportInv, WalkTypes
<1>10. Booked' /\ SearchFindsBest' BY SameRows DEF ReportInv, WriteJson
<1> QED BY <1>7, <1>8, <1>9, <1>10 DEF ReportInv

\* A file that is truncated says nothing.
LEMMA TornStep ==
  ASSUME ReportInv, NEW file \in {"folds", "csv", "agg", "json"}, UNCHANGED walkFiles \/ TornReport(file),
         UNCHANGED <<run, published>>
  PROVE  /\ csv' \in {csv, Empty} /\ agg' \in {agg, Empty} /\ json' \in {json, Empty}
         /\ Telling' /\ csv' \in [of : 0..run, says : Seq(FoldRows)]
         /\ agg' \in [of : 0..run, says : Seq(Int)] /\ json'.of \in 0..run
<1>1. csv' \in {csv, Empty} /\ agg' \in {agg, Empty} /\ json' \in {json, Empty}
  BY DEF walkFiles, TornReport
<1>2. Telling' BY <1>1 DEF ReportInv, Telling, AggTells, JsonTells, Empty
<1>3. 0 \in 0..run BY DEF ReportInv, WalkTypes
<1>4. csv' \in [of : 0..run, says : Seq(FoldRows)]
  <2>1. Empty \in [of : 0..run, says : Seq(FoldRows)] BY <1>3 DEF Empty
  <2> QED BY <1>1, <2>1 DEF ReportInv, WalkTypes
<1>5. agg' \in [of : 0..run, says : Seq(Int)]
  <2>1. Empty \in [of : 0..run, says : Seq(Int)] BY <1>3 DEF Empty
  <2> QED BY <1>1, <2>1 DEF ReportInv, WalkTypes
<1>6. json'.of \in 0..run BY <1>1, <1>3 DEF ReportInv, WalkTypes, Empty
<1> QED BY <1>1, <1>2, <1>4, <1>5, <1>6

LEMMA CrashStep == ASSUME ReportInv, Crash PROVE ReportInv'
<1>1. /\ stage \notin {"done", "crashed"} /\ stage' = "crashed"
      /\ UNCHANGED walkFiles \/ TornReport(stage)
      /\ UNCHANGED <<cur, reported, equity, picks, total, run, summary, params, published, crossed>>
  BY DEF Crash, loopVars
<1>2. Booked' /\ SearchFindsBest' BY SameRows DEF ReportInv, Crash
<1>a. /\ stage' = "crashed" /\ crossed' = crossed /\ run' = run /\ published' = published
      /\ summary' = summary /\ reported' = reported
  BY <1>1
<1>3. CASE UNCHANGED walkFiles
  <2>1. UNCHANGED <<csv, agg, json>> BY <1>3 DEF walkFiles
  <2>2. WalkTypes' BY <1>1, <2>1 DEF ReportInv, WalkTypes
  <2>3. FilesKept' /\ Meeting' BY <1>a, <2>1 DEF ReportInv, FilesKept, Meeting
  <2>4. Telling' BY <1>1, <2>1 DEF ReportInv, Telling, AggTells, JsonTells
  <2> QED BY <1>2, <2>2, <2>3, <2>4 DEF ReportInv
<1>4. CASE TornReport(stage) /\ stage \in {"csv", "agg", "json"}
  <2>1. /\ csv' \in {csv, Empty} /\ agg' \in {agg, Empty} /\ json' \in {json, Empty} /\ Telling'
        /\ csv' \in [of : 0..run, says : Seq(FoldRows)]
        /\ agg' \in [of : 0..run, says : Seq(Int)] /\ json'.of \in 0..run
    BY <1>1, <1>4, TornStep
  <2>2. WalkTypes' BY <1>1, <2>1 DEF ReportInv, WalkTypes
  <2>3. FilesKept' BY <1>a, <2>1 DEF ReportInv, FilesKept, Empty
  <2>4. Meeting'
    <3>1. CASE stage = "csv"
      <4>1. csv'.of = 0 /\ UNCHANGED <<agg, json>> BY <1>4, <3>1 DEF TornReport, Empty
      <4> QED BY <1>a, <4>1 DEF ReportInv, Meeting, FilesKept
    <3>2. CASE stage \in {"agg", "json"}
      <4>1. csv' = csv BY <1>4, <3>2 DEF TornReport
      <4> QED BY <1>a, <3>2, <4>1 DEF ReportInv, Meeting
    <3> QED BY <1>4, <3>1, <3>2
  <2> QED BY <1>2, <2>1, <2>2, <2>3, <2>4 DEF ReportInv
<1>5. CASE TornReport(stage) /\ stage \notin {"csv", "agg", "json"}
  <2>1. UNCHANGED walkFiles BY <1>5 DEF TornReport, walkFiles
  <2> QED BY <1>3, <2>1
<1> QED BY <1>1, <1>3, <1>4, <1>5

LEMMA SummaryReadStep == ASSUME ReportInv, SummaryRead PROVE ReportInv'
<1>1. /\ summary.pc \notin Rewriting /\ csv.says # <<>>
      /\ summary' = [pc |-> "json", of |-> csv.of, rows |-> csv.says,
                     alone |-> stage \notin Rewriting]
      /\ UNCHANGED <<cur, reported, equity, picks, total, run, stage, csv, agg, json, params,
                     published, crossed>>
  BY DEF SummaryRead, loopVars, walkFiles
<1>2. csv.of # 0 /\ csv.says = published[csv.of] BY <1>1 DEF ReportInv, FilesKept
<1>3. WalkTypes' BY <1>1 DEF ReportInv, WalkTypes
<1>4. FilesKept' BY <1>1, <1>2 DEF ReportInv, FilesKept
<1>5. Meeting' BY <1>1 DEF ReportInv, Meeting, FilesKept, Unfinished, Rewriting
<1>6. Telling' BY <1>1 DEF ReportInv, Telling, AggTells, JsonTells
<1>7. Booked' /\ SearchFindsBest' BY SameRows DEF ReportInv, SummaryRead
<1> QED BY <1>3, <1>4, <1>5, <1>6, <1>7 DEF ReportInv

LEMMA SummaryJsonStep == ASSUME ReportInv, SummaryJson PROVE ReportInv'
<1> DEFINE sums == CumulatedPnl(summary.rows)
<1> DEFINE n == Len(summary.rows)
<1>1. /\ summary.pc = "json" /\ summary' = [summary EXCEPT !.pc = "agg"]
      /\ json' = [of |-> summary.of, says |-> <<n, LastOf(sums)>>]
      /\ UNCHANGED <<cur, reported, equity, picks, total, run, stage, csv, agg, params,
                     published, crossed>>
  BY DEF SummaryJson, loopVars
<1>2. summary.of # 0 /\ summary.rows = published[summary.of] /\ summary.rows \in Seq(FoldRows)
  BY <1>1 DEF ReportInv, FilesKept, WalkTypes, Rewriting
<1>3. sums \in Seq(Int) /\ n \in Nat BY <1>2, CumulatedIs
<1>4. LastOf(sums) \in Int BY <1>3 DEF LastOf
<1>5. json'.of \in 0..run BY <1>1 DEF ReportInv, WalkTypes
<1>6. JsonTells'
  <2>1. LastOf(sums) - LastOf(sums) \in (-n)..n
    <3> HIDE DEF sums, n
    <3> QED BY <1>3, <1>4
  <2> QED BY <1>1, <1>2, <2>1 DEF JsonTells
<1>7. Telling' BY <1>1, <1>6 DEF ReportInv, Telling, AggTells
<1>a. /\ summary'.pc = "agg" /\ summary'.of = summary.of /\ summary'.rows = summary.rows
      /\ summary'.alone = summary.alone /\ json'.of = summary.of
  BY <1>1 DEF ReportInv, WalkTypes
<1>8. WalkTypes'
  <2>1. summary' \in [pc : {"none", "json", "agg", "ended", "dead"}, of : 0..run,
                      rows : Seq(FoldRows), alone : BOOLEAN]
    BY <1>1 DEF ReportInv, WalkTypes
  <2> QED BY <1>1, <1>5, <2>1 DEF ReportInv, WalkTypes
<1>9. FilesKept' BY <1>1, <1>2, <1>a DEF ReportInv, FilesKept
<1>10. Meeting' BY <1>1, <1>a DEF ReportInv, Meeting, Unfinished, Rewriting
<1>11. Booked' /\ SearchFindsBest' BY SameRows DEF ReportInv, SummaryJson
<1> QED BY <1>7, <1>8, <1>9, <1>10, <1>11 DEF ReportInv

\* wf-summary.js writes the sum itself.
LEMMA SummaryAggStep == ASSUME ReportInv, SummaryAgg PROVE ReportInv'
<1> DEFINE sums == CumulatedPnl(summary.rows)
<1>1. /\ summary.pc = "agg" /\ summary' = [summary EXCEPT !.pc = "ended"]
      /\ agg' = [of |-> summary.of, says |-> sums]
      /\ UNCHANGED <<cur, reported, equity, picks, total, run, stage, csv, json, params,
                     published, crossed>>
  BY DEF SummaryAgg, loopVars
<1>2. summary.of # 0 /\ summary.rows = published[summary.of] /\ summary.rows \in Seq(FoldRows)
  BY <1>1 DEF ReportInv, FilesKept, WalkTypes, Rewriting
<1>3. sums \in Seq(Int) /\ Len(sums) = Len(summary.rows) BY <1>2, CumulatedIs
<1>4. \A i \in 1..Len(summary.rows) : sums[i] - sums[i] \in (-i)..i
  <2> HIDE DEF sums
  <2> QED BY <1>3
<1>5. AggTells' BY <1>1, <1>2, <1>3, <1>4 DEF AggTells
<1>6. Telling' BY <1>1, <1>5 DEF ReportInv, Telling, JsonTells
<1>a. /\ summary'.pc = "ended" /\ summary'.of = summary.of /\ summary'.rows = summary.rows
      /\ summary'.alone = summary.alone /\ agg'.of = summary.of
  BY <1>1 DEF ReportInv, WalkTypes
<1>7. WalkTypes'
  <2>1. summary' \in [pc : {"none", "json", "agg", "ended", "dead"}, of : 0..run,
                      rows : Seq(FoldRows), alone : BOOLEAN]
    BY <1>1 DEF ReportInv, WalkTypes
  <2>2. agg' \in [of : 0..run, says : Seq(Int)]
    <3>1. summary.of \in 0..run BY DEF ReportInv, WalkTypes
    <3> HIDE DEF sums
    <3> QED BY <1>1, <1>3, <3>1
  <2> QED BY <1>1, <2>1, <2>2 DEF ReportInv, WalkTypes
<1>8. FilesKept' BY <1>1, <1>2, <1>a DEF ReportInv, FilesKept, Rewriting
<1>9. Meeting' BY <1>1, <1>a DEF ReportInv, Meeting, Unfinished, Rewriting
<1>10. Booked' /\ SearchFindsBest' BY SameRows DEF ReportInv, SummaryAgg
<1> QED BY <1>6, <1>7, <1>8, <1>9, <1>10 DEF ReportInv

LEMMA SummaryDiesStep == ASSUME ReportInv, SummaryDies PROVE ReportInv'
<1>1. /\ summary.pc \in {"json", "agg"} /\ summary' = [summary EXCEPT !.pc = "dead"]
      /\ UNCHANGED walkFiles \/ TornReport(summary.pc)
      /\ UNCHANGED <<cur, reported, equity, picks, total, run, stage, params, published, crossed>>
  BY DEF SummaryDies, loopVars, Rewriting
<1>2. /\ csv' \in {csv, Empty} /\ agg' \in {agg, Empty} /\ json' \in {json, Empty} /\ Telling'
      /\ csv' \in [of : 0..run, says : Seq(FoldRows)]
      /\ agg' \in [of : 0..run, says : Seq(Int)] /\ json'.of \in 0..run
  BY <1>1, TornStep
<1>3. csv' = csv BY <1>1 DEF walkFiles, TornReport
<1>4. summary'.pc = "dead" /\ summary'.of = summary.of BY <1>1 DEF ReportInv, WalkTypes
<1>5. agg'.of \in {agg.of, 0} /\ json'.of \in {json.of, 0} BY <1>2 DEF Empty
<1>6. WalkTypes'
  <2>1. summary' \in [pc : {"none", "json", "agg", "ended", "dead"}, of : 0..run,
                      rows : Seq(FoldRows), alone : BOOLEAN]
    BY <1>1 DEF ReportInv, WalkTypes
  <2> QED BY <1>1, <1>2, <2>1 DEF ReportInv, WalkTypes
<1>7. FilesKept'
  <2>1. run # 0 BY DEF ReportInv, WalkTypes
  <2> QED BY <1>1, <1>3, <1>4, <1>5, <2>1 DEF ReportInv, FilesKept, Rewriting
<1>8. Meeting' BY <1>1, <1>3, <1>4, <1>5 DEF ReportInv, Meeting, Unfinished, Rewriting
<1>9. Booked' /\ SearchFindsBest' BY SameRows DEF ReportInv, SummaryDies
<1> QED BY <1>2, <1>6, <1>7, <1>8, <1>9 DEF ReportInv

LEMMA NothingPicked ==
  ASSUME NEW p, p = [k \in Combos |-> 0]
  PROVE  p \in [Combos -> Nat] /\ SumOver(p, 1, GridSize) = 0
<1> DEFINE S == {i \in 0..GridSize : SumOver(p, 1, i) = 0}
<1>0. GridSize \in Nat /\ 0 \in Int /\ 1 \in Int /\ GridSize \in Int BY WalkForwardAssumption
<1>1. 0 \in S
  <2> DEFINE o == 1 - 1
  <2>1. SumOver(p, 1, o) = 0
    <3> HIDE DEF o
    <3> QED BY <1>0, SumOfNone DEF o
  <2> QED BY <1>0, <2>1
<1>2. ASSUME NEW i \in 0..GridSize, i # 0, i - 1 \in S PROVE i \in S
  <2>1. 1 \in Int /\ i \in Int /\ 1 <= i /\ \A k \in 1..i : p[k] \in Int /\ p[k] = 0
    BY <1>0, <1>2 DEF Combos
  <2>2. SumOver(p, 1, i) = SumOver(p, 1, i - 1) + p[i] BY <2>1, SumPrefix
  <2>3. i \in 1..i BY <2>1
  <2> QED BY <1>2, <2>1, <2>2, <2>3
<1>3. \A i \in 0..GridSize : i \in S
  <2> HIDE DEF S
  <2> QED BY <1>0, <1>1, <1>2, UpTo
<1>4. GridSize \in 0..GridSize BY <1>0
<1>5. p \in [Combos -> Nat] OBVIOUS
<1> QED BY <1>3, <1>4, <1>5

LEMMA InitReports == ASSUME InitWalk PROVE ReportInv
<1>1. /\ reported = <<>> /\ equity = <<>> /\ total = 0 /\ picks = [k \in Combos |-> 0] /\ cur = 0
      /\ run = 1 /\ stage = "folds" /\ csv = Empty /\ agg = Empty /\ json = Empty
      /\ params = <<>> /\ summary = [pc |-> "none", of |-> 0, rows |-> <<>>, alone |-> FALSE]
      /\ published = [r \in 1..MaxRuns |-> <<>>]
  BY DEF InitWalk
<1>2. picks \in [Combos -> Nat] /\ SumOver(picks, 1, GridSize) = 0 BY <1>1, NothingPicked
<1>3. run \in 1..MaxRuns /\ 0 \in 0..run BY <1>1, WalkForwardAssumption
<1>4. WalkTypes BY <1>1, <1>2, <1>3 DEF WalkTypes, Empty
<1>5. Booked BY <1>1, <1>2 DEF Booked, Bookkept, LastOf
<1>6. FilesKept /\ Meeting BY <1>1 DEF FilesKept, Meeting, Empty, Rewriting
<1>7. Telling /\ SearchFindsBest BY <1>1 DEF Telling, AggTells, JsonTells, SearchFindsBest, Empty
<1> QED BY <1>4, <1>5, <1>6, <1>7 DEF ReportInv

LEMMA RerunStep == ASSUME ReportInv, Rerun PROVE ReportInv'
<1>1. /\ run < MaxRuns /\ run' = run + 1 /\ stage' = "folds" /\ cur' = 0 /\ reported' = <<>>
      /\ equity' = <<>> /\ total' = 0 /\ picks' = [k \in Combos |-> 0]
      /\ UNCHANGED <<csv, agg, json, summary, params, published, crossed>>
  BY DEF Rerun, walkFiles
<1>2. picks' \in [Combos -> Nat] /\ SumOver(picks', 1, GridSize) = 0 BY <1>1, NothingPicked
<1>3. /\ MaxRuns \in Nat /\ run' \in 1..MaxRuns /\ run \in Nat /\ \A r \in 0..run : r \in 0..run'
      /\ run' \notin 0..run
  BY <1>1, WalkForwardAssumption DEF ReportInv, WalkTypes
<1>4. /\ csv' \in [of : 0..run', says : Seq(FoldRows)]
      /\ agg' \in [of : 0..run', says : Seq(Int)] /\ json'.of \in 0..run'
      /\ summary' \in [pc : {"none", "json", "agg", "ended", "dead"}, of : 0..run',
                       rows : Seq(FoldRows), alone : BOOLEAN]
  BY <1>1, <1>3 DEF ReportInv, WalkTypes
<1>5. WalkTypes' BY <1>1, <1>2, <1>3, <1>4 DEF ReportInv, WalkTypes
<1>6. Booked' BY <1>1, <1>2 DEF Booked, Bookkept, LastOf
<1>7. FilesKept'
  <2>1. run' \notin {csv.of, agg.of, json.of, summary.of} BY <1>3 DEF ReportInv, WalkTypes
  <2> QED BY <1>1, <2>1 DEF ReportInv, FilesKept
<1>8. Meeting' BY <1>1 DEF ReportInv, Meeting
<1>9. Telling' /\ SearchFindsBest'
  BY <1>1 DEF ReportInv, Telling, AggTells, JsonTells, SearchFindsBest
<1> QED BY <1>5, <1>6, <1>7, <1>8, <1>9 DEF ReportInv

\* A step that moves neither the files nor the stage.
LEMMA OptimizeStep == ASSUME ReportInv, Optimize PROVE ReportInv'
<1>1. PICK score \in [Combos -> Scores \cup {NoScore}] :
        LET finite == \A k \in Combos : score[k] # NoScore
        IN \E best \in IF finite THEN {Row0(score)} ELSE Combos :
             params' = <<[best |-> best, finite |-> finite,
                          short |-> IF finite THEN score[FirstHighest(score)] - score[best] ELSE 0]>>
  BY DEF Optimize
<1> DEFINE finite == \A k \in Combos : score[k] # NoScore
<1>2. PICK best \in IF finite THEN {Row0(score)} ELSE Combos :
        params' = <<[best |-> best, finite |-> finite,
                     short |-> IF finite THEN score[FirstHighest(score)] - score[best] ELSE 0]>>
  BY <1>1
<1>3. params'[1].finite => params'[1].short < 100
  <2> SUFFICES ASSUME finite PROVE params'[1].short < 100 BY <1>2
  <2>1. score \in [Combos -> Scores] OBVIOUS
  <2>2. score[FirstHighest(score)] - score[Row0(score)] < 100 BY <2>1, RowIsClose
  <2>3. params'[1].short = score[FirstHighest(score)] - score[Row0(score)] BY <1>2
  <2> QED BY <2>2, <2>3
<1>4. UNCHANGED <<cur, reported, equity, picks, total, run, stage, csv, agg, json, summary,
                 published, crossed>>
  BY DEF Optimize, loopVars, walkFiles
<1>5. WalkTypes' BY <1>4 DEF ReportInv, WalkTypes
<1>6. Booked' BY <1>4 DEF ReportInv, Booked, Bookkept
<1>7. FilesKept' /\ Meeting' BY <1>4 DEF ReportInv, FilesKept, Meeting, Unfinished
<1>8. Telling' BY <1>4 DEF ReportInv, Telling, AggTells, JsonTells
<1>9. SearchFindsBest' BY <1>3, <1>4 DEF ReportInv, SearchFindsBest
<1> QED BY <1>5, <1>6, <1>7, <1>8, <1>9 DEF ReportInv

LEMMA NoMoreFoldsStep == ASSUME ReportInv, NoMoreFolds PROVE ReportInv'
<1>1. /\ stage = "folds" /\ stage' = "csv"
      /\ UNCHANGED <<cur, reported, equity, picks, total, run, csv, agg, json, summary, params,
                     published, crossed>>
  BY DEF NoMoreFolds, FoldsEnd, loopVars, walkFiles
<1>2. Booked' /\ SearchFindsBest' BY SameRows DEF ReportInv, NoMoreFolds, FoldsEnd
<1>3. WalkTypes' BY <1>1 DEF ReportInv, WalkTypes
<1>4. FilesKept' /\ Meeting' BY <1>1 DEF ReportInv, FilesKept, Meeting
<1>5. Telling' BY <1>1 DEF ReportInv, Telling, AggTells, JsonTells
<1> QED BY <1>2, <1>3, <1>4, <1>5 DEF ReportInv

LEMMA ReportInvHolds == WalkSpec => []ReportInv
<1>1. InitWalk => ReportInv BY InitReports
<1>2. ASSUME ReportInv, [NextWalk]_walkVars PROVE ReportInv'
  <2>1. CASE UNCHANGED walkVars
    <3>1. UNCHANGED <<cur, reported, equity, picks, total, run, stage, csv, agg, json, summary,
                     params, published, crossed>>
      BY <2>1 DEF walkVars, loopVars, walkFiles
    <3>2. WalkTypes' /\ Booked' BY <1>2, <3>1 DEF ReportInv, WalkTypes, Booked, Bookkept
    <3>3. FilesKept' /\ Meeting' BY <1>2, <3>1 DEF ReportInv, FilesKept, Meeting, Unfinished
    <3>4. Telling' /\ SearchFindsBest'
      BY <1>2, <3>1 DEF ReportInv, Telling, AggTells, JsonTells, SearchFindsBest
    <3> QED BY <3>2, <3>3, <3>4 DEF ReportInv
  <2>2. CASE Fold BY <1>2, <2>2, FoldStep
  <2>3. CASE NoMoreFolds BY <1>2, <2>3, NoMoreFoldsStep
  <2>4. CASE WriteCsv BY <1>2, <2>4, WriteCsvStep
  <2>5. CASE WriteAgg BY <1>2, <2>5, WriteAggStep
  <2>6. CASE WriteJson BY <1>2, <2>6, WriteJsonStep
  <2>7. CASE Crash BY <1>2, <2>7, CrashStep
  <2>8. CASE WfSummary
    BY <1>2, <2>8, SummaryReadStep, SummaryJsonStep, SummaryAggStep, SummaryDiesStep DEF WfSummary
  <2>9. CASE Optimize BY <1>2, <2>9, OptimizeStep
  <2>10. CASE Rerun BY <1>2, <2>10, RerunStep
  <2> QED BY <1>2, <2>1, <2>2, <2>3, <2>4, <2>5, <2>6, <2>7, <2>8, <2>9, <2>10 DEF NextWalk
<1> QED BY <1>1, <1>2, PTL DEF WalkSpec

THEOREM SearchEndsAtBest == WalkSpec => []SearchFindsBest
<1>1. ReportInv => SearchFindsBest BY DEF ReportInv
<1> QED BY <1>1, ReportInvHolds, PTL

THEOREM FilesAgree == WalkSpec => []ReportsAgree
<1>1. ReportInv => ReportsAgree
  <2> SUFFICES ASSUME ReportInv PROVE ReportsAgree OBVIOUS
  <2>1. Bookkept /\ AggTells /\ JsonTells BY DEF ReportInv, Booked, Telling
  <2>2. ASSUME stage = "done", ~crossed
        PROVE  /\ csv = [of |-> run, says |-> reported]
               /\ {agg.of, json.of} \subseteq {run} \cup Unfinished
    <3>1. csv.of = run /\ csv.says = reported /\ run # 0
      BY <2>2 DEF ReportInv, FilesKept, WalkTypes
    <3> QED BY <2>2, <3>1 DEF ReportInv, WalkTypes, Meeting
  <2>3. summary.pc = "ended" /\ summary.alone /\ summary.of = csv.of =>
          agg.of = csv.of /\ json.of = csv.of
    BY DEF ReportInv, Meeting
  <2> QED BY <2>1, <2>2, <2>3 DEF ReportsAgree
<1> QED BY <1>1, ReportInvHolds, PTL

-----------------------------------------------------------------------------
(* Metrics of the closed trades.                                            *)

Trades == [ts : Nat, side : {"BUY", "SELL"}, price : Int, pnl : Int]
Tally == [pnl : Int, peak : Int, closed : Nat, maxDD : Int, wins : Nat]

LEMMA CountingIs ==
  ASSUME NEW m \in Tally, NEW eq \in Int, NEW won \in BOOLEAN
  PROVE  Counting(m, eq, won) \in Tally
<1>1. Peak(m, eq) \in Int BY DEF Peak, MaxOf, Tally
<1>2. MaxOf(m.maxDD, Peak(m, eq) - eq) \in Int BY <1>1 DEF MaxOf, Tally
<1> QED BY <1>1, <1>2 DEF Counting, Tally

Tallies(f, sells) ==
  /\ f \in [0..Len(sells) -> Tally]
  /\ f[0] = [pnl |-> 0, peak |-> 0, closed |-> 0, maxDD |-> 0, wins |-> 0]
  /\ \A i \in 1..Len(sells) :
       f[i] = Counting(f[i - 1], f[i - 1].pnl + sells[i].pnl, sells[i].pnl > 0)

LEMMA MetricsUnfolds ==
  ASSUME NEW sells \in Seq(Trades)
  PROVE  \E f : Tallies(f, sells) /\ MetricsOf(sells) = f[Len(sells)]
<1> DEFINE W == Tally
<1> DEFINE a == 0
<1> DEFINE n == Len(sells)
<1> DEFINE base == [pnl |-> 0, peak |-> 0, closed |-> 0, maxDD |-> 0, wins |-> 0]
<1> DEFINE Takes(i, x) == Counting(x, x.pnl + sells[i].pnl, sells[i].pnl > 0)
<1> DEFINE step == [p \in Int \X W |-> IF p[1] \in (a + 1)..n THEN Takes(p[1], p[2]) ELSE p[2]]
<1> DEFINE Goes(h) == h = [i \in a..n |-> IF i = a THEN base ELSE Takes(i, h[i - 1])]
<1>0. a \in Int /\ n \in Int /\ a <= n /\ base \in W BY DEF Tally
<1>1. ASSUME NEW i \in (a + 1)..n, NEW x \in W PROVE Takes(i, x) \in W
  <2>1. i \in 1..Len(sells) BY <1>0
  <2>2. sells[i] \in Trades BY <2>1
  <2> DEFINE eq == x.pnl + sells[i].pnl
  <2> DEFINE won == (sells[i].pnl > 0)
  <2>3. eq \in Int /\ won \in BOOLEAN /\ x \in Tally BY <2>2 DEF Trades, Tally
  <2> HIDE DEF eq, won
  <2>4. Counting(x, eq, won) \in Tally BY <2>3, CountingIs
  <2> QED BY <2>4 DEF eq, won
<1>2. step \in [Int \X W -> W]
  <2> HIDE DEF Takes, W, a, n
  <2> QED BY <1>1
<1>3. PICK g : Recurs(g, a, n, W, base, step)
  <2> HIDE DEF step, W, a, n, base
  <2> QED BY <1>0, <1>2, Recursion
<1>4. ASSUME NEW i \in a..n PROVE g[i] = IF i = a THEN base ELSE Takes(i, g[i - 1])
  <2>1. g[i] = IF i = a THEN base ELSE step[<<i, g[i - 1]>>]
    <3> HIDE DEF step, W, a, n, base
    <3> QED BY <1>3 DEF Recurs
  <2>2. CASE i # a
    <3> HIDE DEF Takes, W, a, n, base
    <3>1. i - 1 \in a..n /\ i \in (a + 1)..n /\ i \in Int BY <1>0, <2>2
    <3>2. g[i - 1] \in W BY <1>3, <3>1 DEF Recurs
    <3>3. step[<<i, g[i - 1]>>] = Takes(i, g[i - 1]) BY <3>1, <3>2
    <3> HIDE DEF step
    <3> QED BY <2>1, <2>2, <3>3
  <2> HIDE DEF Takes, step, W, a, n, base
  <2> QED BY <2>1, <2>2
<1>5. Goes(g)
  <2> HIDE DEF W, Takes, step, a, n, base
  <2> QED BY <1>3, <1>4 DEF Recurs
<1> DEFINE all == CHOOSE h : Goes(h)
<1>6. Goes(all)
  <2> HIDE DEF Goes
  <2> QED BY <1>5
<1>7. MetricsOf(sells) = all[n] BY DEF MetricsOf
<1> HIDE DEF all, a, n, W, base, Takes
<1>8. all[a] = base /\ \A i \in (a + 1)..n : all[i] = Takes(i, all[i - 1])
  <2>1. a \in a..n /\ \A i \in (a + 1)..n : i \in a..n /\ i # a BY <1>0
  <2> QED BY <1>6, <2>1
<1>9. \A i \in a..n : all[i] \in W
  <2> DEFINE S == {i \in a..n : all[i] \in W}
  <2>1. a \in S BY <1>0, <1>8
  <2>2. ASSUME NEW i \in a..n, i # a, i - 1 \in S PROVE i \in S
    <3>1. i \in (a + 1)..n /\ all[i - 1] \in W BY <1>0, <2>2
    <3> QED BY <1>1, <1>8, <3>1
  <2> HIDE DEF S
  <2>3. \A i \in a..n : i \in S BY <1>0, <2>1, <2>2, UpTo
  <2> QED BY <2>3 DEF S
<1>10. all \in [a..n -> W] BY <1>6, <1>9
<1>11. Tallies(all, sells)
  <2>1. /\ all \in [0..Len(sells) -> Tally]
        /\ all[0] = [pnl |-> 0, peak |-> 0, closed |-> 0, maxDD |-> 0, wins |-> 0]
    BY <1>8, <1>10 DEF a, n, W, base
  <2>2. \A i \in 1..Len(sells) :
          all[i] = Counting(all[i - 1], all[i - 1].pnl + sells[i].pnl, sells[i].pnl > 0)
    BY <1>8 DEF a, n, Takes
  <2> QED BY <2>1, <2>2 DEF Tallies
<1> QED BY <1>7, <1>11 DEF n

LEMMA EquitySteps ==
  ASSUME NEW sells \in Seq(Trades)
  PROVE  /\ EquityAt(sells, 0) = 0 /\ \A i \in 0..Len(sells) : EquityAt(sells, i) \in Int
         /\ \A i \in 1..Len(sells) : EquityAt(sells, i) = EquityAt(sells, i - 1) + sells[i].pnl
<1> DEFINE n == Len(sells)
<1> DEFINE P == [k \in DOMAIN sells |-> sells[k].pnl]
<1>1. n \in Nat /\ \A k \in 1..n : sells[k] \in Trades OBVIOUS
<1>2. \A k \in 1..n : P[k] = sells[k].pnl /\ P[k] \in Int BY <1>1 DEF Trades
<1>3. \A i : EquityAt(sells, i) = SumOver(P, 1, i) BY DEF EquityAt
<1> HIDE DEF P
<1>4. EquityAt(sells, 0) = 0
  <2> DEFINE o == 1 - 1
  <2>1. 1 \in Int /\ o = 0 OBVIOUS
  <2>2. SumOver(P, 1, o) = 0
    <3> HIDE DEF o
    <3> QED BY <2>1, SumOfNone DEF o
  <2> QED BY <1>3, <2>1, <2>2
<1>5. ASSUME NEW i \in 1..n
      PROVE  /\ EquityAt(sells, i) \in Int
             /\ EquityAt(sells, i) = EquityAt(sells, i - 1) + sells[i].pnl
  <2>1. 1 \in Int /\ i \in Int /\ 1 <= i /\ \A k \in 1..i : P[k] \in Int BY <1>1, <1>2
  <2>2. SumOver(P, 1, i) \in Int /\ SumOver(P, 1, i) = SumOver(P, 1, i - 1) + P[i]
    BY <2>1, SumPrefix
  <2> QED BY <1>2, <1>3, <2>2
<1>6. \A i \in 0..n : EquityAt(sells, i) \in Int
  <2>1. \A i \in 0..n : i = 0 \/ i \in 1..n BY <1>1
  <2> QED BY <1>4, <1>5, <2>1
<1> QED BY <1>4, <1>5, <1>6

\* The one pass of computeMetrics finds the largest fall of the equity.
LEMMA MetricsAre ==
  ASSUME NEW sells \in Seq(Trades)
  PROVE  /\ LargestFall(sells, MetricsOf(sells)) /\ FallFromStart(sells, MetricsOf(sells))
         /\ MetricsOf(sells).closed = Len(sells)
<1> DEFINE n == Len(sells)
<1> DEFINE E(i) == EquityAt(sells, i)
<1>1. PICK m : Tallies(m, sells) /\ MetricsOf(sells) = m[n] BY MetricsUnfolds
<1>2. /\ n \in Nat /\ 0 \in Int /\ n \in Int /\ E(0) = 0 /\ \A i \in 0..n : E(i) \in Int
      /\ \A i \in 1..n : E(i) = E(i - 1) + sells[i].pnl
  BY EquitySteps
<1>3. /\ m \in [0..n -> Tally]
      /\ m[0] = [pnl |-> 0, peak |-> 0, closed |-> 0, maxDD |-> 0, wins |-> 0]
      /\ \A i \in 1..n : m[i] = Counting(m[i - 1], m[i - 1].pnl + sells[i].pnl, sells[i].pnl > 0)
  <2>1. 0 + 1 = 1 OBVIOUS
  <2> QED BY <1>1, <2>1 DEF Tallies
<1> HIDE DEF E
<1> DEFINE PeakIs(i) == (\E k \in 1..i : m[i].peak = E(k)) /\ \A k \in 1..i : E(k) <= m[i].peak
<1> DEFINE FallIs(i) ==
      /\ m[i].maxDD >= 0 /\ \A a \in 1..i : \A b \in a..i : E(a) - E(b) <= m[i].maxDD
      /\ m[i].maxDD = 0 \/ \E a \in 1..i : \E b \in a..i : m[i].maxDD = E(a) - E(b)
<1> DEFINE Good(i) == m[i].pnl = E(i) /\ m[i].closed = i /\ (i # 0 => PeakIs(i)) /\ FallIs(i)
<1> DEFINE S == {i \in 0..n : Good(i)}
<1>4. 0 \in S
  <2>1. FallIs(0) BY <1>3
  <2>2. Good(0) BY <1>2, <1>3, <2>1
  <2> HIDE DEF Good
  <2> QED BY <1>2, <2>2
<1>5. ASSUME NEW i \in 0..n, i # 0, i - 1 \in S PROVE i \in S
  <2> DEFINE x == m[i - 1]
  <2> DEFINE y == m[i]
  <2> DEFINE e == E(i)
  <2> DEFINE p == Peak(x, e)
  <2>1. i \in 1..n /\ i - 1 \in 0..n /\ i \in Nat BY <1>2, <1>5
  <2>2. x \in Tally /\ y \in Tally BY <1>3, <2>1
  <2>3. Good(i - 1) BY <1>5
  <2>4. x.pnl + sells[i].pnl = e BY <1>2, <2>1, <2>3
  <2>5. y = Counting(x, e, sells[i].pnl > 0) BY <1>3, <2>1, <2>4
  <2>6. /\ y.pnl = e /\ y.peak = p /\ y.closed = x.closed + 1 /\ y.maxDD = MaxOf(x.maxDD, p - e)
    BY <2>5 DEF Counting
  <2>7. x.closed = i - 1 /\ x.maxDD \in Int /\ e \in Int /\ x.peak \in Int
    BY <1>2, <2>1, <2>2, <2>3 DEF Tally
  <2>8. p = IF i = 1 THEN e ELSE MaxOf(x.peak, e) BY <2>1, <2>7 DEF Peak
  <2>9. i # 1 => PeakIs(i - 1) BY <2>1, <2>3
  <2>10. /\ (\A k \in 1..(i - 1) : k \in 1..i) /\ i \in 1..i
         /\ (\A k \in 1..i : k = i \/ k \in 1..(i - 1)) /\ (\A k \in 1..i : E(k) \in Int)
    BY <1>2, <2>1
  <2> HIDE DEF x, y, e, p
  <2>11. p \in Int /\ e <= p BY <2>7, <2>8 DEF MaxOf
  <2>12. (\E k \in 1..i : p = E(k)) /\ \A k \in 1..i : E(k) <= p
    <3>1. CASE i = 1
      <4>1. p = E(i) BY <2>8, <3>1 DEF e
      <4>2. \A k \in 1..i : k = i BY <2>10, <3>1
      <4> QED BY <2>10, <2>11, <4>1, <4>2
    <3>2. CASE i # 1
      <4>1. PICK k \in 1..(i - 1) : x.peak = E(k) BY <2>9, <3>2 DEF x
      <4>2. \A l \in 1..(i - 1) : E(l) <= x.peak BY <2>9, <3>2 DEF x
      <4>3. p = MaxOf(x.peak, e) BY <2>8, <3>2
      <4>4. x.peak <= p /\ (p = x.peak \/ p = e) BY <2>7, <4>3 DEF MaxOf
      <4>5. ASSUME NEW l \in 1..i PROVE E(l) <= p
        <5>1. CASE l = i BY <2>11, <5>1 DEF e
        <5>2. CASE l # i
          <6>1. l \in 1..(i - 1) BY <2>10, <5>2
          <6>2. E(l) <= x.peak /\ E(l) \in Int BY <2>10, <4>2, <6>1
          <6> QED BY <2>7, <2>11, <4>4, <6>2
        <5> QED BY <5>1, <5>2
      <4>6. \E l \in 1..i : p = E(l) BY <2>10, <4>1, <4>4 DEF e
      <4> QED BY <4>5, <4>6
    <3> QED BY <3>1, <3>2
  <2>13. /\ x.maxDD >= 0 /\ \A a \in 1..(i - 1) : \A b \in a..(i - 1) : E(a) - E(b) <= x.maxDD
         /\ x.maxDD = 0 \/ \E a \in 1..(i - 1) : \E b \in a..(i - 1) : x.maxDD = E(a) - E(b)
    BY <2>3 DEF x
  <2>14. /\ y.maxDD \in Int /\ x.maxDD <= y.maxDD /\ p - e <= y.maxDD
         /\ y.maxDD = x.maxDD \/ y.maxDD = p - e
    BY <2>6, <2>7, <2>11 DEF MaxOf
  <2>15. ASSUME NEW a \in 1..i, NEW b \in a..i PROVE E(a) - E(b) <= y.maxDD
    <3>1. E(a) \in Int /\ b \in 1..i /\ E(b) \in Int BY <2>10
    <3>2. CASE b = i
      <4>1. E(a) <= p /\ E(b) = e BY <2>12, <3>2 DEF e
      <4> QED BY <2>7, <2>11, <2>14, <3>1, <4>1
    <3>3. CASE b # i
      <4>1. a \in 1..(i - 1) /\ b \in a..(i - 1) BY <2>1, <3>3
      <4>2. E(a) - E(b) <= x.maxDD BY <2>13, <4>1
      <4> QED BY <2>7, <2>14, <3>1, <4>2
    <3> QED BY <3>2, <3>3
  <2>16. y.maxDD = 0 \/ \E a \in 1..i : \E b \in a..i : y.maxDD = E(a) - E(b)
    <3>1. CASE y.maxDD = p - e
      <4>1. PICK k \in 1..i : p = E(k) BY <2>12
      <4>2. i \in k..i BY <2>1
      <4> QED BY <3>1, <4>1, <4>2 DEF e
    <3>2. CASE y.maxDD = x.maxDD /\ x.maxDD # 0
      <4>0. PICK a \in 1..(i - 1) : \E b \in a..(i - 1) : x.maxDD = E(a) - E(b) BY <2>13, <3>2
      <4>1. PICK b \in a..(i - 1) : x.maxDD = E(a) - E(b) BY <4>0
      <4>2. a \in 1..i /\ b \in a..i BY <2>1
      <4> QED BY <3>2, <4>1, <4>2
    <3> QED BY <2>14, <3>1, <3>2
  <2>17. PeakIs(i) BY <2>6, <2>12 DEF y
  <2>18. FallIs(i)
    <3>1. y.maxDD >= 0 BY <2>7, <2>13, <2>14
    <3> QED BY <2>15, <2>16, <3>1 DEF y
  <2>19. m[i].pnl = E(i) /\ m[i].closed = i BY <2>1, <2>6, <2>7 DEF y, e
  <2> HIDE DEF PeakIs, FallIs
  <2>20. Good(i) BY <2>17, <2>18, <2>19
  <2> HIDE DEF Good
  <2> QED BY <2>20
<1>6. \A i \in 0..n : i \in S
  <2> HIDE DEF S, n
  <2> QED BY <1>2, <1>4, <1>5, UpTo
<1>7. Good(n)
  <2> HIDE DEF Good, n
  <2>1. n \in 0..n BY <1>2
  <2> QED BY <1>6, <2>1
<1> DEFINE falls == {0} \cup UNION {{E(i) - E(j) : j \in i..n} : i \in 1..n}
<1>8. m[n].maxDD = Max(falls)
  <2> DEFINE d == m[n].maxDD
  <2>1. d \in falls BY <1>7
  <2>2. \A f \in falls : f <= d /\ f \in Int
    <3> SUFFICES ASSUME NEW f \in falls PROVE f <= d /\ f \in Int OBVIOUS
    <3>1. CASE f = 0 BY <1>7, <3>1
    <3>2. CASE f # 0
      <4>0. PICK i \in 1..n : \E j \in i..n : f = E(i) - E(j) BY <3>2
      <4>1. PICK j \in i..n : f = E(i) - E(j) BY <4>0
      <4>2. E(i) \in Int /\ E(j) \in Int BY <1>2
      <4> QED BY <1>7, <4>1, <4>2
    <3> QED BY <3>1, <3>2
  <2>3. d \in Int BY <2>1, <2>2
  <2> HIDE DEF falls, d
  <2>4. Max(falls) \in falls /\ \A f \in falls : Max(falls) >= f
    <3>1. \E x \in falls : \A f \in falls : x >= f BY <2>1, <2>2
    <3> QED BY <3>1 DEF Max
  <2> DEFINE M == Max(falls)
  <2>6. M \in Int /\ M <= d /\ M >= d BY <2>1, <2>2, <2>4
  <2> HIDE DEF M
  <2>5. M = d BY <2>3, <2>6
  <2> QED BY <2>5 DEF d, M
<1>9. falls = {0} \cup UNION {{EquityAt(sells, i) - EquityAt(sells, j) : j \in i..Len(sells)} :
                              i \in DOMAIN sells}
  <2>1. DOMAIN sells = 1..n OBVIOUS
  <2> QED BY <2>1 DEF E
<1>10. m[n].pnl = EquityAt(sells, Len(sells)) /\ m[n].closed = n BY <1>7 DEF E
<1> HIDE DEF falls
<1>11. FallFromStart(sells, m[n])
  <2> SUFFICES ASSUME NEW j \in DOMAIN sells
               PROVE  -EquityAt(sells, j) <= m[n].maxDD + MaxOf(0, -sells[1].pnl)
    BY DEF FallFromStart
  <2>1. j \in 1..n /\ 1 \in 1..n /\ j \in 0..n /\ n \in 0..n /\ 1 - 1 = 0 BY <1>2
  <2>2. E(1) = 0 + sells[1].pnl /\ E(j) \in Int BY <1>2, <2>1
  <2>3. sells[1].pnl \in Int
    <3>1. sells[1] \in Trades BY <2>1
    <3> QED BY <3>1 DEF Trades
  <2>4. m[n].maxDD \in Int
    <3>1. m[n] \in Tally BY <1>3, <2>1
    <3> QED BY <3>1 DEF Tally
  <2>5. E(1) - E(j) <= m[n].maxDD BY <1>7, <2>1
  <2>6. -E(j) <= m[n].maxDD + MaxOf(0, -sells[1].pnl) BY <2>2, <2>3, <2>4, <2>5 DEF MaxOf
  <2> QED BY <2>6 DEF E
<1> QED BY <1>1, <1>8, <1>9, <1>10, <1>11 DEF LargestFall

\* Every trade counts once, as won or as lost.
LEMMA WinsAre ==
  ASSUME NEW sells \in Seq(Trades)
  PROVE  /\ Len(Won(sells)) = MetricsOf(sells).wins
         /\ Len(Won(sells)) + Len(Lost(sells)) = Len(sells)
<1> DEFINE n == Len(sells)
<1> DEFINE W == {t \in Range(sells) : t.pnl > 0}
<1> DEFINE L == {t \in Range(sells) : t.pnl <= 0}
<1>1. PICK m : Tallies(m, sells) /\ MetricsOf(sells) = m[n] BY MetricsUnfolds
<1>2. PICK won : Keeps(won, sells, W, Trades) /\ Only(sells, W) = won[Len(sells)] BY OnlyUnfolds
<1>3. PICK lost : Keeps(lost, sells, L, Trades) /\ Only(sells, L) = lost[Len(sells)] BY OnlyUnfolds
<1>4. /\ n \in Nat /\ 0 \in Int /\ n \in Int
      /\ \A i \in 1..n : sells[i] \in Trades /\ sells[i].pnl \in Int
      /\ \A i \in 1..n : (sells[i] \in W <=> sells[i].pnl > 0) /\ (sells[i] \in L <=> sells[i].pnl <= 0)
  <2>1. \A i \in 1..n : sells[i] \in Trades /\ sells[i] \in Range(sells) BY DEF Range
  <2>2. \A t \in Trades : t.pnl \in Int BY DEF Trades
  <2> QED BY <2>1, <2>2
<1> HIDE DEF W, L
<1> DEFINE S == {i \in 0..n : Len(won[i]) = m[i].wins /\ Len(won[i]) + Len(lost[i]) = i}
<1>5. 0 \in S BY <1>1, <1>2, <1>3, <1>4 DEF Tallies, Keeps
<1>6. ASSUME NEW i \in 0..n, i # 0, i - 1 \in S PROVE i \in S
  <2>1. i \in 1..n /\ i - 1 \in 0..n /\ i \in 1..n BY <1>4, <1>6
  <2>2. won[i] = IF sells[i] \in W THEN Append(won[i - 1], sells[i]) ELSE won[i - 1]
    BY <1>2, <2>1 DEF Keeps
  <2>3. lost[i] = IF sells[i] \in L THEN Append(lost[i - 1], sells[i]) ELSE lost[i - 1]
    BY <1>3, <2>1 DEF Keeps
  <2>4. m[i] = Counting(m[i - 1], m[i - 1].pnl + sells[i].pnl, sells[i].pnl > 0)
    BY <1>1, <2>1 DEF Tallies
  <2>5. m[i].wins = m[i - 1].wins + (IF sells[i].pnl > 0 THEN 1 ELSE 0) BY <2>4 DEF Counting
  <2>6. won[i - 1] \in Seq(Trades) /\ lost[i - 1] \in Seq(Trades) /\ sells[i] \in Trades
    BY <1>2, <1>3, <1>4, <2>1 DEF Keeps
  <2>7. Len(won[i - 1]) = m[i - 1].wins /\ Len(won[i - 1]) + Len(lost[i - 1]) = i - 1 BY <1>6
  <2>8. CASE sells[i].pnl > 0
    <3>1. sells[i] \in W /\ sells[i] \notin L BY <1>4, <2>1, <2>8
    <3>2. Len(won[i]) = Len(won[i - 1]) + 1 /\ lost[i] = lost[i - 1] BY <2>2, <2>3, <2>6, <3>1
    <3>3. Len(won[i - 1]) \in Nat /\ Len(lost[i - 1]) \in Nat BY <2>6
    <3>5. m[i - 1].wins \in Nat BY <2>7, <3>3
    <3>4. Len(won[i]) = m[i].wins BY <2>5, <2>7, <2>8, <3>2, <3>5
    <3>7. i \in Int BY <1>4
    <3>8. \A p, q, k \in Int : p + q = k - 1 => (p + 1) + q = k /\ p + (q + 1) = k OBVIOUS
    <3> DEFINE p == Len(won[i - 1])
    <3> DEFINE q == Len(lost[i - 1])
    <3>9. p \in Int /\ q \in Int /\ p + q = i - 1 BY <2>7, <3>3
    <3> HIDE DEF p, q
    <3>10. (p + 1) + q = i /\ p + (q + 1) = i BY <3>7, <3>8, <3>9
    <3>6. Len(won[i]) + Len(lost[i]) = i BY <3>2, <3>10 DEF p, q
    <3> QED BY <1>6, <3>4, <3>6
  <2>9. CASE ~(sells[i].pnl > 0)
    <3>1. sells[i] \notin W /\ sells[i] \in L BY <1>4, <2>1, <2>9
    <3>2. Len(lost[i]) = Len(lost[i - 1]) + 1 /\ won[i] = won[i - 1] BY <2>2, <2>3, <2>6, <3>1
    <3>3. Len(won[i - 1]) \in Nat /\ Len(lost[i - 1]) \in Nat BY <2>6
    <3>5. m[i - 1].wins \in Nat BY <2>7, <3>3
    <3>4. Len(won[i]) = m[i].wins BY <2>5, <2>7, <2>9, <3>2, <3>5
    <3>7. i \in Int BY <1>4
    <3>8. \A p, q, k \in Int : p + q = k - 1 => (p + 1) + q = k /\ p + (q + 1) = k OBVIOUS
    <3> DEFINE p == Len(won[i - 1])
    <3> DEFINE q == Len(lost[i - 1])
    <3>9. p \in Int /\ q \in Int /\ p + q = i - 1 BY <2>7, <3>3
    <3> HIDE DEF p, q
    <3>10. (p + 1) + q = i /\ p + (q + 1) = i BY <3>7, <3>8, <3>9
    <3>6. Len(won[i]) + Len(lost[i]) = i BY <3>2, <3>10 DEF p, q
    <3> QED BY <1>6, <3>4, <3>6
  <2> QED BY <2>8, <2>9
<1>7. \A i \in 0..n : i \in S
  <2> HIDE DEF S, n
  <2> QED BY <1>4, <1>5, <1>6, UpTo
<1>8. n \in S
  <2> HIDE DEF S, n
  <2>1. n \in 0..n BY <1>4
  <2> QED BY <1>7, <2>1
<1> QED BY <1>1, <1>2, <1>3, <1>8 DEF Won, Lost, W, L

-----------------------------------------------------------------------------
(* The engine.                                                              *)

Books == [pos : {0, 1}, entry : Int, stop : Int, trades : Seq(Trades)]

LEMMA CostIs ==
  ASSUME NEW x \in Int, NEW side PROVE ApplyCost(x, side) \in Int
<1>1. 100 + CostPct \in Int /\ 100 - CostPct \in Int BY BacktestAssumption
<1>2. x * (100 + CostPct) \in Int /\ x * (100 - CostPct) \in Int BY <1>1
<1> QED BY <1>2 DEF ApplyCost

LEMMA CostIsMonotone ==
  ASSUME NEW x \in Int, NEW y \in Int, x <= y
  PROVE  ApplyCost(x, "SELL") <= ApplyCost(y, "SELL")
<1> DEFINE c == 100 - CostPct
<1>1. c \in Nat BY BacktestAssumption
<1>2. ApplyCost(x, "SELL") = (x * c) \div 100 /\ ApplyCost(y, "SELL") = (y * c) \div 100
  BY DEF ApplyCost
<1> HIDE DEF c
<1>3. x * c \in Int /\ y * c \in Int /\ x * c <= y * c BY <1>1
<1>4. \A u, v \in Int : u <= v => u \div 100 <= v \div 100 OBVIOUS
<1> QED BY <1>2, <1>3, <1>4

LEMMA Parity ==
  \A n \in Nat : (n % 2 = 0 => (n + 1) % 2 = 1) /\ (n % 2 = 1 => (n + 1) % 2 = 0 /\ n \in 1..n)
OBVIOUS

\* What one bar can do to a book: enter, leave at or above the stop, or keep the trades and
\* not lower the stop.
Entered(b, x, i, a) ==
  /\ b.pos = 0 /\ x.pos = 1
  /\ \E entry \in Int :
       /\ x.stop = entry - AtrMult * a
       /\ x.trades = Append(b.trades, [ts |-> i, side |-> "BUY", price |-> entry, pnl |-> Null])

Left(b, x, i) ==
  /\ b.pos = 1 /\ x.pos = 0
  /\ \E raw \in Int, pnl \in Int :
       /\ raw >= b.stop
       /\ x.trades = Append(b.trades, [ts |-> i, side |-> "SELL", price |-> ApplyCost(raw, "SELL"),
                                       pnl |-> pnl])

Stays(b, x) == x.pos = b.pos /\ x.trades = b.trades /\ x.stop >= b.stop

LEMMA OnBarDoes ==
  ASSUME NEW b \in Books, NEW i \in Nat, NEW bar \in CandleKinds, NEW r \in Int, NEW a \in Int,
         NEW x, x = OnBar(b, i, bar, r, a)
  PROVE  x \in Books /\ (Entered(b, x, i, a) \/ Left(b, x, i) \/ Stays(b, x))
<1> DEFINE close == Scale * bar.close
<1> DEFINE entry == ApplyCost(close, "BUY")
<1>1. /\ bar.low \in Int /\ bar.close \in Int /\ bar.low <= bar.close
      /\ AtrMult * a \in Int /\ RsiBuy \in Int /\ RsiSell \in Int
  BY BacktestAssumption
<1>2. close \in Int /\ Scale * bar.low \in Int /\ Scale * bar.low <= close BY <1>1 DEF Scale
<1>3. entry \in Int /\ entry - AtrMult * a \in Int
  <2> HIDE DEF close
  <2> QED BY <1>1, <1>2, CostIs
<1>4. b.pos \in {0, 1} /\ b.entry \in Int /\ b.stop \in Int /\ b.trades \in Seq(Trades)
      /\ b = [pos |-> b.pos, entry |-> b.entry, stop |-> b.stop, trades |-> b.trades]
  BY DEF Books
<1> DEFINE lim == AtrMult * a
<1>5. x = CASE b.pos = 0 /\ r <= RsiBuy ->
                 [pos |-> 1, entry |-> entry, stop |-> entry - lim,
                  trades |-> Trade(b, i, "BUY", entry, Null)]
            [] b.pos = 1 /\ Scale * bar.low <= b.stop -> Exit(b, i, b.stop)
            [] b.pos = 1 /\ Scale * bar.low > b.stop /\ r >= RsiSell -> Exit(b, i, close)
            [] b.pos = 1 /\ Scale * bar.low > b.stop /\ r < RsiSell ->
                 [b EXCEPT !.stop = Trail(@, close, a)]
            [] OTHER -> b
  BY DEF OnBar
<1> DEFINE low == Scale * bar.low
<1> HIDE DEF close, entry, lim, low
<1>6. low \in Int /\ low <= close BY <1>2 DEF low
<1>7. ASSUME NEW raw \in Int, raw >= b.stop, b.pos = 1, x = Exit(b, i, raw)
      PROVE  x \in Books /\ Left(b, x, i)
  <2> DEFINE price == ApplyCost(raw, "SELL")
  <2> DEFINE t == [ts |-> i, side |-> "SELL", price |-> price, pnl |-> price - b.entry]
  <2>1. price \in Int /\ price - b.entry \in Int BY <1>4, CostIs
  <2>2. x = [pos |-> 0, entry |-> 0, stop |-> 0, trades |-> Append(b.trades, t)]
    BY <1>7 DEF Exit, Flat, Trade
  <2>3. t \in Trades BY <2>1 DEF Trades
  <2>4. Append(b.trades, t) \in Seq(Trades) BY <1>4, <2>3
  <2>5. x \in Books BY <2>2, <2>4 DEF Books
  <2>6. x.trades = Append(b.trades, t) /\ x.pos = 0 BY <2>2
  <2> HIDE DEF price
  <2>7. Left(b, x, i) BY <1>7, <2>1, <2>6 DEF Left, price
  <2> QED BY <2>5, <2>7
<1>8. CASE b.pos = 0 /\ r <= RsiBuy
  <2> DEFINE t == [ts |-> i, side |-> "BUY", price |-> entry, pnl |-> Null]
  <2>1. x = [pos |-> 1, entry |-> entry, stop |-> entry - lim, trades |-> Append(b.trades, t)]
    BY <1>5, <1>8 DEF Trade
  <2>2. t \in Trades BY <1>3 DEF Trades, Null
  <2>3. Append(b.trades, t) \in Seq(Trades) BY <1>4, <2>2
  <2>4. x \in Books BY <1>3, <2>1, <2>3 DEF Books, lim
  <2>5. x.trades = Append(b.trades, t) /\ x.pos = 1 /\ x.stop = entry - AtrMult * a
    BY <2>1 DEF lim
  <2>6. Entered(b, x, i, a) BY <1>3, <1>8, <2>5 DEF Entered
  <2> QED BY <2>4, <2>6
<1>9. CASE b.pos = 1 /\ low <= b.stop
  <2>1. x = Exit(b, i, b.stop) BY <1>1, <1>4, <1>5, <1>6, <1>9 DEF low
  <2> QED BY <1>4, <1>7, <1>9, <2>1
<1>10. CASE b.pos = 1 /\ ~(low <= b.stop) /\ r >= RsiSell
  <2>1. x = Exit(b, i, close) BY <1>1, <1>4, <1>5, <1>6, <1>10 DEF low
  <2>2. close \in Int /\ close >= b.stop BY <1>2, <1>4, <1>6, <1>10
  <2> QED BY <1>7, <1>10, <2>1, <2>2
<1>11. CASE b.pos = 1 /\ ~(low <= b.stop) /\ ~(r >= RsiSell)
  <2> DEFINE stop == Trail(b.stop, close, a)
  <2>1. x = [b EXCEPT !.stop = stop] BY <1>1, <1>4, <1>5, <1>6, <1>11 DEF low
  <2>2. stop \in Int /\ stop >= b.stop
    <3>1. stop = MaxOf(b.stop, close - lim) BY DEF Trail, lim
    <3>2. lim \in Int BY <1>1 DEF lim
    <3> QED BY <1>2, <1>4, <3>1, <3>2 DEF MaxOf
  <2> HIDE DEF stop
  <2>3. x = [pos |-> b.pos, entry |-> b.entry, stop |-> stop, trades |-> b.trades] BY <1>4, <2>1
  <2> QED BY <1>4, <2>2, <2>3 DEF Books, Stays
<1>12. CASE b.pos = 0 /\ ~(r <= RsiBuy)
  <2>1. x = b BY <1>5, <1>12
  <2> QED BY <1>4, <2>1 DEF Stays
<1> QED BY <1>4, <1>8, <1>9, <1>10, <1>11, <1>12

Runs(f, cs, r, a0) ==
  /\ f \in [0..(Len(cs) - 1) -> Books]
  /\ f[0] = NoTrades
  /\ \A i \in 1..(Len(cs) - 1) :
       f[i] = (IF Usable(r[i]) /\ Usable(a0[i])
           THEN OnBar(f[i - 1], i, Bar(cs, i), r[i], a0[i]) ELSE f[i - 1])

LEMMA EngineUnfolds ==
  ASSUME NEW cs \in Seq(CandleKinds), cs # <<>>, NEW r, NEW a0,
         \A i \in Bars(cs) : r[i] \in Int /\ a0[i] \in Int
  PROVE  \E f : Runs(f, cs, r, a0) /\ Engine(cs, r, a0) = f[Len(cs) - 1]
<1> DEFINE W == Books
<1> DEFINE a == 0
<1> DEFINE n == Len(cs) - 1
<1> DEFINE base == NoTrades
<1> DEFINE Takes(i, x) == (IF Usable(r[i]) /\ Usable(a0[i])
        THEN OnBar(x, i, Bar(cs, i), r[i], a0[i]) ELSE x)
<1> DEFINE step == [p \in Int \X W |-> IF p[1] \in (a + 1)..n THEN Takes(p[1], p[2]) ELSE p[2]]
<1> DEFINE Goes(h) == h = [i \in a..n |-> IF i = a THEN base ELSE Takes(i, h[i - 1])]
<1>0. a \in Int /\ n \in Int /\ a <= n /\ base \in W BY DEF NoTrades, Flat, Books
<1>1. ASSUME NEW i \in (a + 1)..n, NEW x \in W PROVE Takes(i, x) \in W
  <2>1. i \in Bars(cs) /\ i \in Nat BY <1>0 DEF Bars
  <2>2. Bar(cs, i) \in CandleKinds BY <1>0 DEF Bar
  <2>3. r[i] \in Int /\ a0[i] \in Int BY <2>1
  <2>4. OnBar(x, i, Bar(cs, i), r[i], a0[i]) \in Books BY <2>1, <2>2, <2>3, OnBarDoes
  <2> QED BY <2>4
<1>2. step \in [Int \X W -> W]
  <2> HIDE DEF Takes, W, a, n
  <2> QED BY <1>1
<1>3. PICK g : Recurs(g, a, n, W, base, step)
  <2> HIDE DEF step, W, a, n, base
  <2> QED BY <1>0, <1>2, Recursion
<1>4. ASSUME NEW i \in a..n PROVE g[i] = IF i = a THEN base ELSE Takes(i, g[i - 1])
  <2>1. g[i] = IF i = a THEN base ELSE step[<<i, g[i - 1]>>]
    <3> HIDE DEF step, W, a, n, base
    <3> QED BY <1>3 DEF Recurs
  <2>2. CASE i # a
    <3> HIDE DEF Takes, W, a, n, base
    <3>1. i - 1 \in a..n /\ i \in (a + 1)..n /\ i \in Int BY <1>0, <2>2
    <3>2. g[i - 1] \in W BY <1>3, <3>1 DEF Recurs
    <3>3. step[<<i, g[i - 1]>>] = Takes(i, g[i - 1]) BY <3>1, <3>2
    <3> HIDE DEF step
    <3> QED BY <2>1, <2>2, <3>3
  <2> HIDE DEF Takes, step, W, a, n, base
  <2> QED BY <2>1, <2>2
<1>5. Goes(g)
  <2> HIDE DEF W, Takes, step, a, n, base
  <2> QED BY <1>3, <1>4 DEF Recurs
<1> DEFINE all == CHOOSE h : Goes(h)
<1>6. Goes(all)
  <2> HIDE DEF Goes
  <2> QED BY <1>5
<1>7. Engine(cs, r, a0) = all[n] BY DEF Engine, Bars
<1> HIDE DEF all, a, n, W, base, Takes
<1>8. all[a] = base /\ \A i \in (a + 1)..n : all[i] = Takes(i, all[i - 1])
  <2>1. a \in a..n /\ \A i \in (a + 1)..n : i \in a..n /\ i # a BY <1>0
  <2> QED BY <1>6, <2>1
<1>9. \A i \in a..n : all[i] \in W
  <2> DEFINE S == {i \in a..n : all[i] \in W}
  <2>1. a \in S BY <1>0, <1>8
  <2>2. ASSUME NEW i \in a..n, i # a, i - 1 \in S PROVE i \in S
    <3>1. i \in (a + 1)..n /\ all[i - 1] \in W BY <1>0, <2>2
    <3> QED BY <1>1, <1>8, <3>1
  <2> HIDE DEF S
  <2>3. \A i \in a..n : i \in S BY <1>0, <2>1, <2>2, UpTo
  <2> QED BY <2>3 DEF S
<1>10. all \in [a..n -> W] BY <1>6, <1>9
<1>11. Runs(all, cs, r, a0)
  <2>1. /\ all \in [0..(Len(cs) - 1) -> Books]
        /\ all[0] = NoTrades
    BY <1>8, <1>10 DEF a, n, W, base
  <2>2. \A i \in 1..(Len(cs) - 1) :
          all[i] = (IF Usable(r[i]) /\ Usable(a0[i])
              THEN OnBar(all[i - 1], i, Bar(cs, i), r[i], a0[i]) ELSE all[i - 1])
    BY <1>8 DEF a, n, Takes
  <2> QED BY <2>1, <2>2 DEF Runs
<1> QED BY <1>7, <1>11 DEF n

\* A book holds the trades so far: bought and sold in turn, and open after the last buy, with a
\* stop that has not fallen.
BookIs(b, i, atr) ==
  LET n == Len(b.trades) IN
  /\ b \in Books /\ b.pos = n % 2 /\ StopBounds(b.trades, atr)
  /\ \A k \in 1..n : b.trades[k].ts \in 1..i
  /\ n % 2 = 1 => b.stop >= b.trades[n].price - AtrMult * atr[b.trades[n].ts]

LEMMA EnterStep ==
  ASSUME NEW b, NEW x \in Books, NEW i \in Nat \ {0}, NEW atr, BookIs(b, i - 1, atr),
         atr[i] \in Int, Entered(b, x, i, atr[i])
  PROVE  BookIs(x, i, atr)
<1> DEFINE n == Len(b.trades)
<1> DEFINE m == n + 1
<1>1. PICK entry \in Int :
        /\ x.stop = entry - AtrMult * atr[i]
        /\ x.trades = Append(b.trades, [ts |-> i, side |-> "BUY", price |-> entry, pnl |-> Null])
  BY DEF Entered
<1> DEFINE t == [ts |-> i, side |-> "BUY", price |-> entry, pnl |-> Null]
<1>2. b.trades \in Seq(Trades) /\ n \in Nat /\ n % 2 = 0 /\ x.pos = 1 BY DEF BookIs, Books, Entered
<1>3. /\ Len(x.trades) = m /\ x.trades[m] = t /\ \A k \in 1..n : x.trades[k] = b.trades[k]
      /\ DOMAIN x.trades = 1..m /\ DOMAIN b.trades = 1..n
  BY <1>1, <1>2
<1>4. t.side = "BUY" /\ t.ts = i /\ t.price = entry OBVIOUS
<1>5. m % 2 = 1 BY <1>2, Parity
<1> HIDE DEF t, n
<1>6. ASSUME NEW k \in 1..m
      PROVE IF k % 2 = 1 THEN x.trades[k].side = "BUY"
            ELSE /\ x.trades[k].side = "SELL"
                 /\ x.trades[k].price >=
                      ApplyCost(x.trades[k - 1].price - AtrMult * atr[x.trades[k - 1].ts], "SELL")
  <2>1. CASE k = m BY <1>3, <1>4, <1>5, <2>1
  <2>2. CASE k # m
    <3>1. k \in 1..n BY <1>2, <2>2
    <3>2. CASE k % 2 = 1 BY <1>3, <3>1, <3>2 DEF BookIs, StopBounds
    <3>3. CASE k % 2 # 1
      <4>1. k - 1 \in 1..n BY <1>2, <3>1, <3>3
      <4> QED BY <1>3, <3>1, <3>3, <4>1 DEF BookIs, StopBounds
    <3> QED BY <3>2, <3>3
  <2> QED BY <2>1, <2>2
<1>7. StopBounds(x.trades, atr) BY <1>3, <1>6 DEF StopBounds
<1>8. \A k \in 1..m : x.trades[k].ts \in 1..i
  <2>1. \A k \in 1..n : b.trades[k].ts \in 1..(i - 1) BY DEF BookIs, n
  <2>2. \A k \in 1..m : k = m \/ k \in 1..n BY <1>2
  <2>3. \A j \in 1..(i - 1) : j \in 1..i OBVIOUS
  <2> QED BY <1>3, <1>4, <2>1, <2>2, <2>3
<1>9. x.stop >= x.trades[m].price - AtrMult * atr[x.trades[m].ts]
  <2>1. AtrMult * atr[i] \in Int BY BacktestAssumption
  <2> QED BY <1>1, <1>3, <1>4, <2>1
<1> QED BY <1>2, <1>3, <1>5, <1>7, <1>8, <1>9 DEF BookIs

LEMMA LeaveStep ==
  ASSUME NEW b, NEW x \in Books, NEW i \in Nat \ {0}, NEW atr, BookIs(b, i - 1, atr),
         \A j \in 1..i : atr[j] \in Int, Left(b, x, i)
  PROVE  BookIs(x, i, atr)
<1> DEFINE n == Len(b.trades)
<1> DEFINE m == n + 1
<1>1. PICK raw \in Int, pnl \in Int :
        /\ raw >= b.stop
        /\ x.trades = Append(b.trades, [ts |-> i, side |-> "SELL", price |-> ApplyCost(raw, "SELL"),
                                        pnl |-> pnl])
  BY DEF Left
<1> DEFINE t == [ts |-> i, side |-> "SELL", price |-> ApplyCost(raw, "SELL"), pnl |-> pnl]
<1>2. b.trades \in Seq(Trades) /\ n \in Nat /\ n % 2 = 1 /\ x.pos = 0 /\ b.stop \in Int
  BY DEF BookIs, Books, Left
<1>3. /\ Len(x.trades) = m /\ x.trades[m] = t /\ \A k \in 1..n : x.trades[k] = b.trades[k]
      /\ DOMAIN x.trades = 1..m /\ DOMAIN b.trades = 1..n
  BY <1>1, <1>2
<1>4. t.side = "SELL" /\ t.ts = i /\ t.price = ApplyCost(raw, "SELL") OBVIOUS
<1>5. m % 2 = 0 /\ n \in 1..n BY <1>2, Parity
<1> DEFINE floor == b.trades[n].price - AtrMult * atr[b.trades[n].ts]
<1>a. floor \in Int /\ b.stop >= floor
  <2>1. b.trades[n] \in Trades /\ b.trades[n].ts \in 1..(i - 1) BY <1>2, <1>5 DEF BookIs
  <2>2. atr[b.trades[n].ts] \in Int BY <2>1
  <2>3. b.trades[n].price \in Int BY <2>1 DEF Trades
  <2>4. AtrMult * atr[b.trades[n].ts] \in Int BY <2>2, BacktestAssumption
  <2>5. floor \in Int BY <2>3, <2>4
  <2> QED BY <1>2, <2>5 DEF BookIs
<1> HIDE DEF t, n, floor
<1>b. ApplyCost(raw, "SELL") >= ApplyCost(floor, "SELL")
  <2>1. floor <= raw BY <1>1, <1>2, <1>a
  <2>2. ApplyCost(floor, "SELL") <= ApplyCost(raw, "SELL") BY <1>a, <2>1, CostIsMonotone
  <2>3. ApplyCost(floor, "SELL") \in Int /\ ApplyCost(raw, "SELL") \in Int BY <1>a, CostIs
  <2> QED BY <2>2, <2>3
<1>6. ASSUME NEW k \in 1..m
      PROVE IF k % 2 = 1 THEN x.trades[k].side = "BUY"
            ELSE /\ x.trades[k].side = "SELL"
                 /\ x.trades[k].price >=
                      ApplyCost(x.trades[k - 1].price - AtrMult * atr[x.trades[k - 1].ts], "SELL")
  <2>1. CASE k = m
    <3>1. k - 1 = n /\ k % 2 = 0 BY <1>2, <1>5, <2>1
    <3>2. x.trades[k - 1] = b.trades[n] BY <1>3, <1>5, <3>1
    <3>3. x.trades[k].side = "SELL" /\ x.trades[k].price = ApplyCost(raw, "SELL")
      BY <1>3, <1>4, <2>1
    <3> QED BY <1>b, <3>1, <3>2, <3>3 DEF floor
  <2>2. CASE k # m
    <3>1. k \in 1..n BY <1>2, <2>2
    <3>2. CASE k % 2 = 1 BY <1>3, <3>1, <3>2 DEF BookIs, StopBounds
    <3>3. CASE k % 2 # 1
      <4>1. k - 1 \in 1..n BY <1>2, <3>1, <3>3
      <4> QED BY <1>3, <3>1, <3>3, <4>1 DEF BookIs, StopBounds
    <3> QED BY <3>2, <3>3
  <2> QED BY <2>1, <2>2
<1>7. StopBounds(x.trades, atr) BY <1>3, <1>6 DEF StopBounds
<1>8. \A k \in 1..m : x.trades[k].ts \in 1..i
  <2>1. \A k \in 1..n : b.trades[k].ts \in 1..(i - 1) BY DEF BookIs, n
  <2>2. \A k \in 1..m : k = m \/ k \in 1..n BY <1>2
  <2>3. \A j \in 1..(i - 1) : j \in 1..i OBVIOUS
  <2> QED BY <1>3, <1>4, <2>1, <2>2, <2>3
<1> QED BY <1>2, <1>3, <1>5, <1>7, <1>8 DEF BookIs

LEMMA KeepStep ==
  ASSUME NEW b, NEW x \in Books, NEW i \in Nat \ {0}, NEW atr, BookIs(b, i - 1, atr),
         \A j \in 1..i : atr[j] \in Int, Stays(b, x)
  PROVE  BookIs(x, i, atr)
<1> DEFINE n == Len(b.trades)
<1>1. x.pos = b.pos /\ x.trades = b.trades /\ x.stop >= b.stop BY DEF Stays
<1>2. /\ b \in Books /\ b.pos = n % 2 /\ StopBounds(b.trades, atr)
      /\ \A k \in 1..n : b.trades[k].ts \in 1..(i - 1)
      /\ n % 2 = 1 => b.stop >= b.trades[n].price - AtrMult * atr[b.trades[n].ts]
  BY DEF BookIs
<1>3. \A k \in 1..n : b.trades[k].ts \in 1..i
  <2>1. \A j \in 1..(i - 1) : j \in 1..i OBVIOUS
  <2> HIDE DEF n
  <2> QED BY <1>2, <2>1
<1>4. ASSUME n % 2 = 1 PROVE x.stop >= b.trades[n].price - AtrMult * atr[b.trades[n].ts]
  <2> DEFINE floor == b.trades[n].price - AtrMult * atr[b.trades[n].ts]
  <2>1. b.trades \in Seq(Trades) /\ b.stop \in Int /\ x.stop \in Int BY <1>2 DEF Books
  <2>a. n \in Nat BY <2>1
  <2>2. n \in 1..n
    <3> HIDE DEF n
    <3> QED BY <1>4, <2>a, Parity
  <2>3. b.trades[n] \in Trades /\ atr[b.trades[n].ts] \in Int BY <1>3, <2>1, <2>2
  <2>4. b.trades[n].price \in Int BY <2>3 DEF Trades
  <2>5. AtrMult * atr[b.trades[n].ts] \in Int BY <2>3, BacktestAssumption
  <2>6. floor \in Int BY <2>4, <2>5
  <2>7. b.stop >= floor BY <1>2, <1>4
  <2> HIDE DEF floor
  <2>8. x.stop >= floor BY <1>1, <2>1, <2>6, <2>7
  <2> QED BY <2>8 DEF floor
<1> QED BY <1>1, <1>2, <1>3, <1>4 DEF BookIs

\* Whatever the indicators, the engine's books are as above.
LEMMA EngineIs ==
  ASSUME NEW cs \in Seq(CandleKinds), cs # <<>>, NEW r, NEW atr,
         \A i \in Bars(cs) : r[i] \in Int /\ atr[i] \in Int
  PROVE  BookIs(Engine(cs, r, atr), Len(cs) - 1, atr)
<1> DEFINE n == Len(cs) - 1
<1>1. PICK book : Runs(book, cs, r, atr) /\ Engine(cs, r, atr) = book[Len(cs) - 1] BY EngineUnfolds
<1>2. n \in Nat /\ 0 \in Int /\ n \in Int BY EmptySeq
<1>3. /\ book \in [0..n -> Books] /\ book[0] = NoTrades
      /\ \A i \in 1..n : book[i] = IF Usable(r[i]) /\ Usable(atr[i])
                                   THEN OnBar(book[i - 1], i, Bar(cs, i), r[i], atr[i])
                                   ELSE book[i - 1]
  <2>1. 0 + 1 = 1 OBVIOUS
  <2> QED BY <1>1, <2>1 DEF Runs
<1> DEFINE S == {i \in 0..n : BookIs(book[i], i, atr)}
<1>4. 0 \in S
  <2>1. NoTrades \in Books /\ NoTrades.pos = 0 /\ NoTrades.trades = <<>>
    BY DEF NoTrades, Flat, Books
  <2>2. StopBounds(<<>>, atr) BY DEF StopBounds
  <2>3. Len(NoTrades.trades) = 0 /\ 0 % 2 = 0 BY <2>1
  <2>4. BookIs(NoTrades, 0, atr) BY <2>1, <2>2, <2>3 DEF BookIs
  <2> QED BY <1>2, <1>3, <2>4
<1>5. ASSUME NEW i \in 0..n, i # 0, i - 1 \in S PROVE i \in S
  <2>1. i \in 1..n /\ i \in Nat \ {0} /\ i - 1 \in 0..n BY <1>2, <1>5
  <2>2. \A j \in 1..i : j \in Bars(cs) BY <1>2 DEF Bars
  <2>3. \A j \in 1..i : r[j] \in Int /\ atr[j] \in Int BY <2>2
  <2>4. i \in 1..i /\ r[i] \in Int /\ atr[i] \in Int BY <2>1, <2>3
  <2> DEFINE b == book[i - 1]
  <2> DEFINE x == book[i]
  <2>5. b \in Books /\ x \in Books /\ BookIs(b, i - 1, atr) BY <1>3, <1>5, <2>1
  <2>6. Bar(cs, i) \in CandleKinds BY <1>2, <2>1 DEF Bar
  <2>7. x = b \/ x = OnBar(b, i, Bar(cs, i), r[i], atr[i]) BY <1>3, <2>1
  <2> HIDE DEF b, x
  <2>8. Entered(b, x, i, atr[i]) \/ Left(b, x, i) \/ Stays(b, x)
    <3>1. CASE x = b
      <4>1. b.stop >= b.stop BY <2>5 DEF Books
      <4> QED BY <3>1, <4>1 DEF Stays
    <3>2. CASE x = OnBar(b, i, Bar(cs, i), r[i], atr[i])
      BY <2>1, <2>4, <2>5, <2>6, <3>2, OnBarDoes
    <3> QED BY <2>7, <3>1, <3>2
  <2>9. BookIs(x, i, atr) BY <2>1, <2>3, <2>4, <2>5, <2>8, EnterStep, LeaveStep, KeepStep
  <2> QED BY <2>9 DEF x
<1>6. \A i \in 0..n : i \in S
  <2> HIDE DEF S, n
  <2> QED BY <1>2, <1>4, <1>5, UpTo
<1>7. BookIs(book[n], n, atr)
  <2> HIDE DEF n
  <2>1. n \in 0..n BY <1>2
  <2> QED BY <1>6, <2>1
<1> QED BY <1>1, <1>7

-----------------------------------------------------------------------------
(* The indicators.                                                          *)

LEMMA QuotientIsNat == \A x \in Nat, p \in Nat \ {0} : x \div p \in Nat
OBVIOUS

LEMMA ProductIsNat == \A x, y \in Nat : x * y \in Nat
OBVIOUS

LEMMA SumIsNat ==
  ASSUME NEW a \in Int, NEW b \in Int, a - 1 <= b, NEW f, \A i \in a..b : f[i] \in Nat
  PROVE  SumOver(f, a, b) \in Nat
<1> DEFINE o == a - 1
<1>1. PICK s : SumsUp(s, f, a, b) /\ SumOver(f, a, b) = s[b]
  <2>1. \A i \in a..b : f[i] \in Int OBVIOUS
  <2> QED BY <2>1, SumUnfolds
<1> DEFINE S == {i \in o..b : s[i] \in Nat}
<1>2. o \in Int /\ o <= b OBVIOUS
<1>3. o \in S BY <1>1, <1>2 DEF SumsUp
<1>4. ASSUME NEW i \in o..b, i # o, i - 1 \in S PROVE i \in S
  <2>1. i \in a..b BY <1>4
  <2>2. s[i] = s[i - 1] + f[i] BY <1>1, <2>1 DEF SumsUp
  <2> QED BY <1>4, <2>1, <2>2
<1>5. \A i \in o..b : i \in S
  <2> HIDE DEF S, o
  <2> QED BY <1>2, <1>3, <1>4, UpTo
<1>6. b \in o..b BY <1>2
<1> QED BY <1>1, <1>5, <1>6

LEMMA CandleIs ==
  ASSUME NEW cs \in Seq(CandleKinds), NEW i \in Bars(cs)
  PROVE  LET k == Bar(cs, i) IN
         /\ k \in CandleKinds /\ k.open \in Nat /\ k.high \in Nat /\ k.low \in Nat /\ k.close \in Nat
         /\ k.low <= k.close /\ k.close <= k.high
<1>1. i + 1 \in 1..Len(cs) BY DEF Bars
<1>2. Bar(cs, i) \in CandleKinds BY <1>1 DEF Bar
<1> QED BY <1>2, BacktestAssumption

LEMMA DiffIs ==
  ASSUME NEW cs \in Seq(CandleKinds), NEW i \in 1..(Len(cs) - 1)
  PROVE  Diff(cs, i) \in Int /\ MaxOf(Diff(cs, i), 0) \in Nat /\ MaxOf(-Diff(cs, i), 0) \in Nat
<1>1. i \in Bars(cs) /\ i - 1 \in Bars(cs) BY DEF Bars
<1>2. Bar(cs, i).close \in Nat /\ Bar(cs, i - 1).close \in Nat BY <1>1, CandleIs
<1>3. Diff(cs, i) \in Int BY <1>2 DEF Diff
<1> QED BY <1>3 DEF MaxOf

LEMMA BarRangeIs ==
  ASSUME NEW cs \in Seq(CandleKinds), NEW i \in Bars(cs)
  PROVE  BarRange(cs, i) \in Nat /\ (i # 0 => TrueRange(cs, i) \in Nat)
<1> DEFINE k == Bar(cs, i)
<1>1. k.high \in Nat /\ k.low \in Nat /\ k.low <= k.high BY CandleIs
<1>2. CASE i = 0 BY <1>1, <1>2 DEF BarRange
<1>3. CASE i # 0
  <2> DEFINE p == Bar(cs, i - 1).close
  <2>1. i - 1 \in Bars(cs) BY <1>3 DEF Bars
  <2>2. p \in Nat BY <2>1, CandleIs
  <2>3. TrueRange(cs, i) = MaxOf(k.high - k.low, MaxOf(AbsOf(k.high - p), AbsOf(k.low - p)))
    BY DEF TrueRange
  <2> HIDE DEF k, p
  <2>4. TrueRange(cs, i) \in Nat BY <1>1, <2>2, <2>3 DEF MaxOf, AbsOf
  <2> QED BY <1>3, <2>4 DEF BarRange
<1> QED BY <1>2, <1>3

Means(f, v, n0) ==
  /\ f \in [Period..n0 -> Nat]
  /\ f[Period] = (Scale * SumOver(v, 1, Period)) \div Period
  /\ \A i \in (Period + 1)..n0 :
       f[i] = (f[i - 1] * (Period - 1) + Scale * v[i]) \div Period

LEMMA WilderMeanUnfolds ==
  ASSUME NEW v, NEW n0 \in Int, Period <= n0, \A i \in 1..n0 : v[i] \in Nat
  PROVE  \E f : Means(f, v, n0) /\ WilderMean(v, n0) = f
<1> DEFINE W == Nat
<1> DEFINE a == Period
<1> DEFINE n == n0
<1> DEFINE base == (Scale * SumOver(v, 1, Period)) \div Period
<1> DEFINE Takes(i, x) == (x * (Period - 1) + Scale * v[i]) \div Period
<1> DEFINE step == [p \in Int \X W |-> IF p[1] \in (a + 1)..n THEN Takes(p[1], p[2]) ELSE p[2]]
<1> DEFINE Goes(h) == h = [i \in a..n |-> IF i = a THEN base ELSE Takes(i, h[i - 1])]
<1>0. a \in Int /\ n \in Int /\ a <= n /\ base \in W
  <2>1. Period \in Nat \ {0, 1} /\ 1 \in Int /\ Period \in Int /\ 1 - 1 <= Period
        /\ \A i \in 1..Period : v[i] \in Nat
    BY BacktestAssumption
  <2>2. SumOver(v, 1, Period) \in Nat BY <2>1, SumIsNat
  <2>3. Scale * SumOver(v, 1, Period) \in Nat BY <2>2 DEF Scale
  <2>4. base \in Nat BY <2>1, <2>3, QuotientIsNat
  <2> HIDE DEF base
  <2> QED BY <2>1, <2>4
<1>1. ASSUME NEW i \in (a + 1)..n, NEW x \in W PROVE Takes(i, x) \in W
  <2>1. Period \in Nat \ {0, 1} /\ i \in 1..n0 BY BacktestAssumption
  <2>2. v[i] \in Nat /\ x \in Nat /\ Period - 1 \in Nat BY <2>1
  <2>3. x * (Period - 1) \in Nat BY <2>2, ProductIsNat
  <2>4. x * (Period - 1) + Scale * v[i] \in Nat BY <2>2, <2>3 DEF Scale
  <2> QED BY <2>1, <2>4, QuotientIsNat
<1>2. step \in [Int \X W -> W]
  <2> HIDE DEF Takes, W, a, n
  <2> QED BY <1>1
<1>3. PICK g : Recurs(g, a, n, W, base, step)
  <2> HIDE DEF step, W, a, n, base
  <2> QED BY <1>0, <1>2, Recursion
<1>4. ASSUME NEW i \in a..n PROVE g[i] = IF i = a THEN base ELSE Takes(i, g[i - 1])
  <2>1. g[i] = IF i = a THEN base ELSE step[<<i, g[i - 1]>>]
    <3> HIDE DEF step, W, a, n, base
    <3> QED BY <1>3 DEF Recurs
  <2>2. CASE i # a
    <3> HIDE DEF Takes, W, a, n, base
    <3>1. i - 1 \in a..n /\ i \in (a + 1)..n /\ i \in Int BY <1>0, <2>2
    <3>2. g[i - 1] \in W BY <1>3, <3>1 DEF Recurs
    <3>3. step[<<i, g[i - 1]>>] = Takes(i, g[i - 1]) BY <3>1, <3>2
    <3> HIDE DEF step
    <3> QED BY <2>1, <2>2, <3>3
  <2> HIDE DEF Takes, step, W, a, n, base
  <2> QED BY <2>1, <2>2
<1>5. Goes(g)
  <2> HIDE DEF W, Takes, step, a, n, base
  <2> QED BY <1>3, <1>4 DEF Recurs
<1> DEFINE all == CHOOSE h : Goes(h)
<1>6. Goes(all)
  <2> HIDE DEF Goes
  <2> QED BY <1>5
<1>7. WilderMean(v, n0) = all BY DEF WilderMean
<1> HIDE DEF all, a, n, W, base, Takes
<1>8. all[a] = base /\ \A i \in (a + 1)..n : all[i] = Takes(i, all[i - 1])
  <2>1. a \in a..n /\ \A i \in (a + 1)..n : i \in a..n /\ i # a BY <1>0
  <2> QED BY <1>6, <2>1
<1>9. \A i \in a..n : all[i] \in W
  <2> DEFINE S == {i \in a..n : all[i] \in W}
  <2>1. a \in S BY <1>0, <1>8
  <2>2. ASSUME NEW i \in a..n, i # a, i - 1 \in S PROVE i \in S
    <3>1. i \in (a + 1)..n /\ all[i - 1] \in W BY <1>0, <2>2
    <3> QED BY <1>1, <1>8, <3>1
  <2> HIDE DEF S
  <2>3. \A i \in a..n : i \in S BY <1>0, <2>1, <2>2, UpTo
  <2> QED BY <2>3 DEF S
<1>10. all \in [a..n -> W] BY <1>6, <1>9
<1>11. Means(all, v, n0)
  <2>1. /\ all \in [Period..n0 -> Nat]
        /\ all[Period] = (Scale * SumOver(v, 1, Period)) \div Period
    BY <1>8, <1>10 DEF a, n, W, base
  <2>2. \A i \in (Period + 1)..n0 :
          all[i] = (all[i - 1] * (Period - 1) + Scale * v[i]) \div Period
    BY <1>8 DEF a, n, Takes
  <2> QED BY <2>1, <2>2 DEF Means
<1> QED BY <1>7, <1>11 DEF n

RangeSums(f, cs) ==
  /\ f \in [0..(Len(cs) - 1) -> Int]
  /\ f[0] = BarRange(cs, 0)
  /\ \A i \in 1..(Len(cs) - 1) :
       f[i] = (IF i >= Period
           THEN (f[i - 1] + BarRange(cs, i)) - BarRange(cs, i - Period)
           ELSE f[i - 1] + BarRange(cs, i))

LEMMA AtrUnfolds ==
  ASSUME NEW cs \in Seq(CandleKinds), cs # <<>>
  PROVE  \E f : RangeSums(f, cs) /\ RangeSum(cs) = f
<1> DEFINE W == Int
<1> DEFINE a == 0
<1> DEFINE n == Len(cs) - 1
<1> DEFINE base == BarRange(cs, 0)
<1> DEFINE Takes(i, x) == (IF i >= Period
        THEN (x + BarRange(cs, i)) - BarRange(cs, i - Period) ELSE x + BarRange(cs, i))
<1> DEFINE step == [p \in Int \X W |-> IF p[1] \in (a + 1)..n THEN Takes(p[1], p[2]) ELSE p[2]]
<1> DEFINE Goes(h) == h = [i \in a..n |-> IF i = a THEN base ELSE Takes(i, h[i - 1])]
<1>0. a \in Int /\ n \in Int /\ a <= n /\ base \in W
  <2>1. Len(cs) \in Nat \ {0} BY EmptySeq
  <2>2. 0 \in Bars(cs) BY <2>1 DEF Bars
  <2>3. BarRange(cs, 0) \in Int BY <2>2, BarRangeIs
  <2> QED BY <2>1, <2>3
<1>1. ASSUME NEW i \in (a + 1)..n, NEW x \in W PROVE Takes(i, x) \in W
  <2>1. i \in Bars(cs) /\ Period \in Nat \ {0, 1} BY <1>0, BacktestAssumption DEF Bars
  <2>2. BarRange(cs, i) \in Int BY <2>1, BarRangeIs
  <2>3. i >= Period => BarRange(cs, i - Period) \in Int
    <3>1. i >= Period => i - Period \in Bars(cs) BY <2>1 DEF Bars
    <3> QED BY <3>1, BarRangeIs
  <2> QED BY <2>2, <2>3
<1>2. step \in [Int \X W -> W]
  <2> HIDE DEF Takes, W, a, n
  <2> QED BY <1>1
<1>3. PICK g : Recurs(g, a, n, W, base, step)
  <2> HIDE DEF step, W, a, n, base
  <2> QED BY <1>0, <1>2, Recursion
<1>4. ASSUME NEW i \in a..n PROVE g[i] = IF i = a THEN base ELSE Takes(i, g[i - 1])
  <2>1. g[i] = IF i = a THEN base ELSE step[<<i, g[i - 1]>>]
    <3> HIDE DEF step, W, a, n, base
    <3> QED BY <1>3 DEF Recurs
  <2>2. CASE i # a
    <3> HIDE DEF Takes, W, a, n, base
    <3>1. i - 1 \in a..n /\ i \in (a + 1)..n /\ i \in Int BY <1>0, <2>2
    <3>2. g[i - 1] \in W BY <1>3, <3>1 DEF Recurs
    <3>3. step[<<i, g[i - 1]>>] = Takes(i, g[i - 1]) BY <3>1, <3>2
    <3> HIDE DEF step
    <3> QED BY <2>1, <2>2, <3>3
  <2> HIDE DEF Takes, step, W, a, n, base
  <2> QED BY <2>1, <2>2
<1>5. Goes(g)
  <2> HIDE DEF W, Takes, step, a, n, base
  <2> QED BY <1>3, <1>4 DEF Recurs
<1> DEFINE all == CHOOSE h : Goes(h)
<1>6. Goes(all)
  <2> HIDE DEF Goes
  <2> QED BY <1>5
<1>7. RangeSum(cs) = all BY DEF RangeSum, Bars
<1> HIDE DEF all, a, n, W, base, Takes
<1>8. all[a] = base /\ \A i \in (a + 1)..n : all[i] = Takes(i, all[i - 1])
  <2>1. a \in a..n /\ \A i \in (a + 1)..n : i \in a..n /\ i # a BY <1>0
  <2> QED BY <1>6, <2>1
<1>9. \A i \in a..n : all[i] \in W
  <2> DEFINE S == {i \in a..n : all[i] \in W}
  <2>1. a \in S BY <1>0, <1>8
  <2>2. ASSUME NEW i \in a..n, i # a, i - 1 \in S PROVE i \in S
    <3>1. i \in (a + 1)..n /\ all[i - 1] \in W BY <1>0, <2>2
    <3> QED BY <1>1, <1>8, <3>1
  <2> HIDE DEF S
  <2>3. \A i \in a..n : i \in S BY <1>0, <2>1, <2>2, UpTo
  <2> QED BY <2>3 DEF S
<1>10. all \in [a..n -> W] BY <1>6, <1>9
<1>11. RangeSums(all, cs)
  <2>1. /\ all \in [0..(Len(cs) - 1) -> Int]
        /\ all[0] = BarRange(cs, 0)
    BY <1>8, <1>10 DEF a, n, W, base
  <2>2. \A i \in 1..(Len(cs) - 1) :
          all[i] = (IF i >= Period
              THEN (all[i - 1] + BarRange(cs, i)) - BarRange(cs, i - Period)
              ELSE all[i - 1] + BarRange(cs, i))
    BY <1>8 DEF a, n, Takes
  <2> QED BY <2>1, <2>2 DEF RangeSums
<1> QED BY <1>7, <1>11 DEF n

LEMMA RsiIs ==
  ASSUME NEW cs \in Seq(CandleKinds), NEW i \in Bars(cs)
  PROVE  RSI(cs)[i] = Null \/ RSI(cs)[i] \in Nat
<1> DEFINE n == Len(cs) - 1
<1> DEFINE up == [j \in 1..n |-> MaxOf(Diff(cs, j), 0)]
<1> DEFINE down == [j \in 1..n |-> MaxOf(-Diff(cs, j), 0)]
<1> DEFINE gain == WilderMean(up, n)
<1> DEFINE loss == WilderMean(down, n)
<1>1. RSI(cs)[i] = IF i < Period THEN Null ELSE Ratio(gain[i], loss[i]) BY DEF RSI
<1>2. CASE i >= Period
  <2>1. Period \in Nat \ {0, 1} /\ n \in Int /\ Period <= n /\ i \in Period..n
    BY <1>2, BacktestAssumption DEF Bars
  <2>2. (\A j \in 1..n : up[j] \in Nat) /\ (\A j \in 1..n : down[j] \in Nat) BY DiffIs
  <2> HIDE DEF n, up, down
  <2>3. PICK g : Means(g, up, n) /\ gain = g BY <2>1, <2>2, WilderMeanUnfolds
  <2>4. PICK l : Means(l, down, n) /\ loss = l BY <2>1, <2>2, WilderMeanUnfolds
  <2>5. gain[i] \in Nat /\ loss[i] \in Nat BY <2>1, <2>3, <2>4 DEF Means
  <2> HIDE DEF gain, loss
  <2> DEFINE g0 == gain[i]
  <2> DEFINE l0 == loss[i]
  <2> HIDE DEF g0, l0
  <2>6. Ratio(g0, l0) \in Nat
    <3>1. g0 \in Nat /\ l0 \in Nat BY <2>5 DEF g0, l0
    <3>2. CASE l0 = 0
      <4>1. Ratio(g0, l0) = 100 BY <3>2 DEF Ratio
      <4> QED BY <4>1
    <3>3. CASE l0 # 0
      <4>1. 100 * g0 \in Nat /\ g0 + l0 \in Nat \ {0} BY <3>1, <3>3
      <4>2. (100 * g0) \div (g0 + l0) \in Nat BY <4>1, QuotientIsNat
      <4>3. Ratio(g0, l0) = (100 * g0) \div (g0 + l0) BY <3>3 DEF Ratio
      <4> QED BY <4>2, <4>3
    <3> QED BY <3>2, <3>3
  <2>7. ~(i < Period) BY <2>1, <1>2
  <2> QED BY <1>1, <2>6, <2>7 DEF g0, l0
<1>3. CASE ~(i >= Period)
  <2>1. i < Period BY <1>3, BacktestAssumption DEF Bars
  <2> HIDE DEF gain, loss
  <2> QED BY <1>1, <2>1
<1> QED BY <1>2, <1>3

LEMMA SumDropFirst ==
  ASSUME NEW a \in Int, NEW b \in Int, a <= b, NEW f, \A i \in a..b : f[i] \in Int
  PROVE  SumOver(f, a, b) = f[a] + SumOver(f, a + 1, b) /\ SumOver(f, a + 1, b) \in Int
<1> DEFINE c == a + 1
<1> DEFINE S == {i \in a..b : SumOver(f, a, i) = f[a] + SumOver(f, c, i) /\ SumOver(f, c, i) \in Int}
<1>1. a \in Int /\ b \in Int /\ c \in Int /\ a \in a..b /\ b \in a..b OBVIOUS
<1>2. a \in S
  <2> DEFINE o == c - 1
  <2> DEFINE p == a - 1
  <2>1. o = a /\ f[a] \in Int OBVIOUS
  <2>2. SumOver(f, c, o) = 0
    <3> HIDE DEF c
    <3> QED BY <1>1, SumOfNone
  <2>3. SumOver(f, a, p) = 0 BY SumOfNone
  <2>4. SumOver(f, a, a) = SumOver(f, a, a - 1) + f[a]
    <3>1. a <= a /\ \A i \in a..a : f[i] \in Int OBVIOUS
    <3> QED BY <3>1, SumPrefix
  <2>5. SumOver(f, a, a) = f[a] BY <2>1, <2>3, <2>4
  <2>6. SumOver(f, c, a) = 0 BY <2>1, <2>2
  <2> HIDE DEF c
  <2> QED BY <1>1, <2>1, <2>5, <2>6
<1>3. ASSUME NEW i \in a..b, i # a, i - 1 \in S PROVE i \in S
  <2>1. i \in Int /\ a <= i /\ c <= i /\ f[i] \in Int /\ f[a] \in Int BY <1>3
  <2>2. SumOver(f, a, i) = SumOver(f, a, i - 1) + f[i]
    <3>1. \A j \in a..i : f[j] \in Int BY <1>3
    <3> QED BY <2>1, <3>1, SumPrefix
  <2>3. SumOver(f, c, i) = SumOver(f, c, i - 1) + f[i] /\ SumOver(f, c, i) \in Int
    <3>1. \A j \in c..i : f[j] \in Int BY <1>3
    <3> HIDE DEF c
    <3> QED BY <1>1, <2>1, <3>1, SumPrefix
  <2>4. SumOver(f, a, i - 1) = f[a] + SumOver(f, c, i - 1) /\ SumOver(f, c, i - 1) \in Int
    BY <1>3
  <2> HIDE DEF c
  <2>5. SumOver(f, a, i) = f[a] + SumOver(f, c, i) BY <2>1, <2>2, <2>3, <2>4
  <2> QED BY <2>3, <2>5
<1>4. \A i \in a..b : i \in S
  <2> HIDE DEF S
  <2> QED BY <1>1, <1>2, <1>3, UpTo
<1>5. b \in S BY <1>1, <1>4
<1> QED BY <1>5

\* The running sum of ATR is the sum of the last Period ranges.
LEMMA RangeSumIs ==
  ASSUME NEW cs \in Seq(CandleKinds), NEW i \in Bars(cs)
  PROVE  RangeSum(cs)[i] = SumOver([k \in Bars(cs) |-> BarRange(cs, k)],
                                   IF i >= Period THEN (i - Period) + 1 ELSE 0, i)
<1> DEFINE n == Len(cs) - 1
<1> DEFINE tr == [k \in Bars(cs) |-> BarRange(cs, k)]
<1> DEFINE from(j) == IF j >= Period THEN (j - Period) + 1 ELSE 0
<1>1. /\ n \in Nat /\ 0 \in Int /\ n \in Int /\ cs # <<>> /\ Period \in Nat \ {0, 1}
      /\ Bars(cs) = 0..n /\ i \in 0..n
  BY EmptySeq, BacktestAssumption DEF Bars
<1>2. \A k \in 0..n : tr[k] = BarRange(cs, k) /\ tr[k] \in Int BY <1>1, BarRangeIs
<1>3. PICK sum : RangeSums(sum, cs) /\ RangeSum(cs) = sum BY <1>1, AtrUnfolds
<1>4. /\ sum[0] = BarRange(cs, 0)
      /\ \A j \in 1..n : sum[j] = IF j >= Period
                                  THEN (sum[j - 1] + BarRange(cs, j)) - BarRange(cs, j - Period)
                                  ELSE sum[j - 1] + BarRange(cs, j)
  <2>1. 0 + 1 = 1 OBVIOUS
  <2> QED BY <1>3, <2>1 DEF RangeSums
<1> HIDE DEF tr
<1> DEFINE S == {j \in 0..n : sum[j] = SumOver(tr, from(j), j)}
<1>5. 0 \in S
  <2> DEFINE o == 0 - 1
  <2>1. SumOver(tr, 0, o) = 0
    <3>1. 0 \in Int OBVIOUS
    <3> QED BY <3>1, SumOfNone
  <2>2. SumOver(tr, 0, 0) = SumOver(tr, 0, 0 - 1) + tr[0]
    <3>1. 0 \in Int /\ 0 <= 0 /\ \A j \in 0..0 : tr[j] \in Int BY <1>1, <1>2
    <3> QED BY <3>1, SumPrefix
  <2>3. tr[0] = sum[0] /\ tr[0] \in Int /\ from(0) = 0 /\ 0 \in 0..n BY <1>1, <1>2, <1>4
  <2>4. SumOver(tr, 0, 0) = sum[0] BY <2>1, <2>2, <2>3
  <2> QED BY <2>3, <2>4
<1>6. ASSUME NEW j \in 0..n, j # 0, j - 1 \in S PROVE j \in S
  <2> DEFINE a == from(j - 1)
  <2>1. j \in 1..n /\ j - 1 \in 0..n /\ j \in Int /\ a \in Int /\ a <= j - 1 /\ 0 <= a /\ a <= j
    BY <1>1, <1>6
  <2>2. \A k \in a..j : tr[k] \in Int
    <3>1. \A k \in a..j : k \in 0..n BY <1>1, <2>1
    <3> HIDE DEF a
    <3> QED BY <1>2, <3>1
  <2>3. sum[j - 1] = SumOver(tr, a, j - 1) BY <1>6
  <2>4. tr[j] = BarRange(cs, j) /\ tr[j] \in Int BY <1>2, <2>1
  <2>5. SumOver(tr, a, j) = SumOver(tr, a, j - 1) + tr[j] /\ SumOver(tr, a, j - 1) \in Int
    <3> HIDE DEF a
    <3> QED BY <2>1, <2>2, SumPrefix
  <2>6. CASE j < Period
    <3>1. ~(j - 1 >= Period) /\ ~(j >= Period) BY <1>1, <2>1, <2>6
    <3>2. a = 0 /\ from(j) = 0 BY <3>1
    <3>3. sum[j] = sum[j - 1] + BarRange(cs, j) BY <1>4, <2>1, <3>1
    <3>4. sum[j] = SumOver(tr, 0, j) BY <2>3, <2>4, <2>5, <3>2, <3>3
    <3> QED BY <1>6, <3>2, <3>4
  <2>7. CASE j >= Period
    <3> DEFINE p == j - Period
    <3> DEFINE c == a + 1
    <3>1. a = p
      <4>1. CASE j - 1 >= Period BY <1>1, <2>1, <4>1
      <4>2. CASE ~(j - 1 >= Period) BY <1>1, <2>1, <2>7, <4>2
      <4> QED BY <4>1, <4>2
    <3>2. p \in 0..n BY <1>1, <2>1, <2>7
    <3>3. tr[a] = BarRange(cs, p) /\ tr[a] \in Int BY <1>2, <3>1, <3>2
    <3>4. sum[j] = (sum[j - 1] + BarRange(cs, j)) - BarRange(cs, p) BY <1>4, <2>1, <2>7
    <3>5. SumOver(tr, a, j) = tr[a] + SumOver(tr, c, j) /\ SumOver(tr, c, j) \in Int
      <4> HIDE DEF a
      <4> QED BY <2>1, <2>2, SumDropFirst
    <3>6. from(j) = c BY <1>1, <2>7, <3>1
    <3> HIDE DEF a, p, c, from
    <3>7. sum[j] = SumOver(tr, c, j) BY <2>3, <2>4, <2>5, <3>3, <3>4, <3>5
    <3> QED BY <1>6, <3>6, <3>7
  <2> QED BY <1>1, <2>1, <2>6, <2>7
<1>7. \A j \in 0..n : j \in S
  <2> HIDE DEF S, n
  <2> QED BY <1>1, <1>5, <1>6, UpTo
<1>8. sum[i] = SumOver(tr, from(i), i) BY <1>1, <1>7
<1> QED BY <1>3, <1>8 DEF tr

LEMMA AtrIs ==
  ASSUME NEW cs \in Seq(CandleKinds), NEW i \in Bars(cs)
  PROVE  ATR(cs)[i] = Null \/ ATR(cs)[i] \in Nat
<1> DEFINE tr == [k \in Bars(cs) |-> BarRange(cs, k)]
<1> DEFINE from == IF i >= Period THEN (i - Period) + 1 ELSE 0
<1>1. Period \in Nat \ {0, 1} /\ i \in Nat /\ Bars(cs) = 0..(Len(cs) - 1) /\ Len(cs) \in Int
  BY BacktestAssumption DEF Bars
<1>2. from \in Int /\ 0 <= from /\ from - 1 <= i /\ i \in Int BY <1>1
<1> HIDE DEF from
<1>3. \A k \in from..i : tr[k] \in Nat
  <2>1. \A k \in from..i : k \in Bars(cs) BY <1>1, <1>2
  <2> QED BY <2>1, BarRangeIs
<1>4. RangeSum(cs)[i] = SumOver(tr, from, i) BY RangeSumIs DEF from
<1>5. RangeSum(cs)[i] \in Nat
  <2> HIDE DEF tr
  <2> QED BY <1>2, <1>3, <1>4, SumIsNat
<1>6. (Scale * RangeSum(cs)[i]) \div Period \in Nat
  <2>1. Scale * RangeSum(cs)[i] \in Nat BY <1>5 DEF Scale
  <2> QED BY <1>1, <2>1, QuotientIsNat
<1> QED BY <1>6 DEF ATR

\* Whatever the candles, the books of the backtest are as above.
LEMMA RunIs ==
  ASSUME NEW cs \in Seq(CandleKinds), cs # <<>>
  PROVE  BookIs(RunBacktest(cs), Len(cs) - 1, ATR(cs))
<1>1. \A i \in Bars(cs) : RsiMasked(cs)[i] \in Int /\ ATR(cs)[i] \in Int
  <2> SUFFICES ASSUME NEW i \in Bars(cs) PROVE RsiMasked(cs)[i] \in Int /\ ATR(cs)[i] \in Int
    OBVIOUS
  <2>1. Null \in Int BY DEF Null
  <2>2. RSI(cs)[i] \in Int BY <2>1, RsiIs
  <2>3. DOMAIN RSI(cs) = Bars(cs) BY DEF RSI
  <2>4. RsiMasked(cs)[i] = RSI(cs)[i] \/ RsiMasked(cs)[i] = Null BY <2>3 DEF RsiMasked, Mask
  <2> QED BY <2>1, <2>2, <2>4, AtrIs
<1>2. BookIs(Engine(cs, RsiMasked(cs), ATR(cs)), Len(cs) - 1, ATR(cs)) BY <1>1, EngineIs
<1> QED BY <1>2 DEF RunBacktest

-----------------------------------------------------------------------------
(* The other engine.                                                        *)

Orders == [type : {"BUY"}, entry : Int, sl : Int, tp : Int]
Accounts ==
  {s \in [open : {<<>>} \cup {<<g>> : g \in Orders}, trades : Nat, wins : Nat, losses : Nat, pnl : Int] :
     Counted(s)}

LEMMA LastAtrIs ==
  ASSUME NEW cs \in Seq(CandleKinds), Len(cs) > Period
  PROVE  LastAtr(cs) \in Int
<1> DEFINE n == Len(cs) - 1
<1> DEFINE tr == [i \in 1..n |-> TrueRange(cs, i)]
<1> DEFINE a == (n - Period) + 1
<1>1. n \in Int /\ Period \in Nat \ {0} /\ a \in Int /\ a - 1 <= n /\ a >= 1 BY BacktestAssumption
<1>2. \A i \in a..n : tr[i] \in Nat
  <2>1. \A i \in a..n : i \in 1..n /\ i \in Bars(cs) /\ i # 0 BY <1>1 DEF Bars
  <2> QED BY <2>1, BarRangeIs
<1>3. n - Period + 1 = a BY <1>1
<1> HIDE DEF tr, a, n
<1>4. SumOver(tr, a, n) \in Nat BY <1>1, <1>2, SumIsNat
<1>5. (Scale * SumOver(tr, a, n)) \div Period \in Int BY <1>1, <1>4 DEF Scale
<1> QED BY <1>3, <1>5 DEF LastAtr, tr, n

LEMMA EvaluateIs ==
  ASSUME NEW cs \in Seq(CandleKinds), Evaluate(cs).type = "BUY"
  PROVE  Evaluate(cs) \in Orders
<1> DEFINE a == LastAtr(cs)
<1> DEFINE last == cs[Len(cs)]
<1> DEFINE entry == Scale * last.close
<1>1. CASE Len(cs) < Lookback BY <1>1 DEF Evaluate
<1>2. CASE ~(Len(cs) < Lookback)
  <2>1. Len(cs) > Period /\ Len(cs) \in 1..Len(cs) BY <1>2, BacktestAssumption DEF Lookback, MaxOf
  <2>2. a \in Int BY <2>1, LastAtrIs
  <2>3. last \in CandleKinds BY <2>1
  <2>4. last.close \in Int BY <2>3, BacktestAssumption
  <2>5. entry \in Int BY <2>4 DEF Scale
  <2>6. Evaluate(cs) = Decide(cs[Len(cs) - 1], last, LastEma(cs, Fast), LastEma(cs, Slow),
                              LastRsi(cs), a)
    BY <1>2 DEF Evaluate
  <2>7. Evaluate(cs) = [type |-> "BUY", entry |-> entry, sl |-> entry - a, tp |-> entry + (3 * a) \div 2]
    BY <2>6 DEF Decide
  <2> HIDE DEF a, entry
  <2> QED BY <2>2, <2>5, <2>7 DEF Orders
<1> QED BY <1>1, <1>2

LEMMA SidewaysBarIs ==
  ASSUME NEW s \in Accounts, NEW signal, signal.type = "BUY" => signal \in Orders,
         NEW candle \in CandleKinds
  PROVE  SidewaysBar(s, signal, candle) \in Accounts
<1> DEFINE Kinds == {<<>>} \cup {<<g>> : g \in Orders}
<1>1. /\ s = [open |-> s.open, trades |-> s.trades, wins |-> s.wins, losses |-> s.losses, pnl |-> s.pnl]
      /\ s.open \in Kinds /\ s.trades \in Nat /\ s.wins \in Nat /\ s.losses \in Nat /\ s.pnl \in Int
      /\ s.trades = s.wins + s.losses + Len(s.open)
  BY DEF Accounts, Counted
<1>2. CASE s.open = <<>>
  <2>1. CASE signal.type = "BUY"
    <3> DEFINE o == <<signal>>
    <3> DEFINE x == [open |-> o, trades |-> s.trades + 1, wins |-> s.wins,
                     losses |-> s.losses, pnl |-> s.pnl]
    <3>1. SidewaysBar(s, signal, candle) = x BY <1>1, <1>2, <2>1 DEF SidewaysBar
    <3>2. o \in Kinds /\ Len(o) = 1 /\ Len(s.open) = 0 BY <1>2, <2>1
    <3>3. s.trades + 1 = s.wins + s.losses + 1 BY <1>1, <3>2
    <3> HIDE DEF o
    <3>5. Counted(x) BY <3>2, <3>3 DEF Counted
    <3>6. x \in [open : Kinds, trades : Nat, wins : Nat, losses : Nat, pnl : Int]
      <4> HIDE DEF Kinds
      <4> QED BY <1>1, <3>2
    <3> HIDE DEF x
    <3>4. x \in Accounts BY <3>5, <3>6 DEF Accounts
    <3> QED BY <3>1, <3>4
  <2>2. CASE signal.type # "BUY"
    <3>1. SidewaysBar(s, signal, candle) = s BY <1>2, <2>2 DEF SidewaysBar
    <3> QED BY <3>1
  <2> QED BY <2>1, <2>2
<1>3. CASE s.open # <<>>
  <2> DEFINE p == s.open[1]
  <2>1. p \in Orders /\ Len(s.open) = 1 BY <1>1, <1>3
  <2>2. p.tp \in Int /\ p.sl \in Int /\ p.entry \in Int BY <2>1 DEF Orders
  <2> HIDE DEF p
  <2>3. SidewaysBar(s, signal, candle) = Resolved(s, p, candle) BY <1>3 DEF SidewaysBar, p
  <2> DEFINE won == [open |-> <<>>, trades |-> s.trades, wins |-> s.wins + 1, losses |-> s.losses,
                     pnl |-> s.pnl + p.tp - p.entry]
  <2> DEFINE lost == [open |-> <<>>, trades |-> s.trades, wins |-> s.wins, losses |-> s.losses + 1,
                      pnl |-> s.pnl + p.sl - p.entry]
  <2>4. Resolved(s, p, candle) \in {won, lost, s} BY <1>1 DEF Resolved
  <2>5. Len(<<>>) = 0 OBVIOUS
  <2>6. won \in Accounts
    <3>1. s.pnl + p.tp - p.entry \in Int BY <1>1, <2>2
    <3>2. s.trades = s.wins + 1 + s.losses + 0 BY <1>1, <2>1
    <3> QED BY <1>1, <2>5, <3>1, <3>2 DEF Accounts, Counted
  <2>7. lost \in Accounts
    <3>1. s.pnl + p.sl - p.entry \in Int BY <1>1, <2>2
    <3>2. s.trades = s.wins + (s.losses + 1) + 0 BY <1>1, <2>1
    <3> QED BY <1>1, <2>5, <3>1, <3>2 DEF Accounts, Counted
  <2> HIDE DEF won, lost
  <2> QED BY <2>3, <2>4, <2>6, <2>7
<1> QED BY <1>2, <1>3

Sides(f, cs) ==
  /\ f \in [0..Len(cs) -> Accounts]
  /\ f[0] = [open |-> <<>>, trades |-> 0, wins |-> 0, losses |-> 0, pnl |-> 0]
  /\ \A i \in 1..Len(cs) :
       f[i] = (IF i < Lookback THEN f[i - 1]
           ELSE SidewaysBar(f[i - 1], Evaluate(SubSeq(cs, 1, i)), cs[i]))

LEMMA SidewaysUnfolds ==
  ASSUME NEW cs \in Seq(CandleKinds)
  PROVE  \E f : Sides(f, cs) /\ SidewaysRun(cs) = f[Len(cs)]
<1> DEFINE W == Accounts
<1> DEFINE a == 0
<1> DEFINE n == Len(cs)
<1> DEFINE base == [open |-> <<>>, trades |-> 0, wins |-> 0, losses |-> 0, pnl |-> 0]
<1> DEFINE Takes(i, x) == (IF i < Lookback THEN x
        ELSE SidewaysBar(x, Evaluate(SubSeq(cs, 1, i)), cs[i]))
<1> DEFINE step == [p \in Int \X W |-> IF p[1] \in (a + 1)..n THEN Takes(p[1], p[2]) ELSE p[2]]
<1> DEFINE Goes(h) == h = [i \in a..n |-> IF i = a THEN base ELSE Takes(i, h[i - 1])]
<1>0. a \in Int /\ n \in Int /\ a <= n /\ base \in W
  <2>1. Len(<<>>) = 0 OBVIOUS
  <2>2. base \in Accounts BY <2>1 DEF Accounts, Counted
  <2> QED BY <2>2
<1>1. ASSUME NEW i \in (a + 1)..n, NEW x \in W PROVE Takes(i, x) \in W
  <2>1. i \in 1..Len(cs) BY <1>0
  <2>2. cs[i] \in CandleKinds /\ SubSeq(cs, 1, i) \in Seq(CandleKinds) BY <2>1
  <2> DEFINE signal == Evaluate(SubSeq(cs, 1, i))
  <2>3. signal.type = "BUY" => signal \in Orders BY <2>2, EvaluateIs
  <2> HIDE DEF signal
  <2>4. SidewaysBar(x, signal, cs[i]) \in Accounts BY <2>2, <2>3, SidewaysBarIs
  <2> QED BY <2>4 DEF signal
<1>2. step \in [Int \X W -> W]
  <2> HIDE DEF Takes, W, a, n
  <2> QED BY <1>1
<1>3. PICK g : Recurs(g, a, n, W, base, step)
  <2> HIDE DEF step, W, a, n, base
  <2> QED BY <1>0, <1>2, Recursion
<1>4. ASSUME NEW i \in a..n PROVE g[i] = IF i = a THEN base ELSE Takes(i, g[i - 1])
  <2>1. g[i] = IF i = a THEN base ELSE step[<<i, g[i - 1]>>]
    <3> HIDE DEF step, W, a, n, base
    <3> QED BY <1>3 DEF Recurs
  <2>2. CASE i # a
    <3> HIDE DEF Takes, W, a, n, base
    <3>1. i - 1 \in a..n /\ i \in (a + 1)..n /\ i \in Int BY <1>0, <2>2
    <3>2. g[i - 1] \in W BY <1>3, <3>1 DEF Recurs
    <3>3. step[<<i, g[i - 1]>>] = Takes(i, g[i - 1]) BY <3>1, <3>2
    <3> HIDE DEF step
    <3> QED BY <2>1, <2>2, <3>3
  <2> HIDE DEF Takes, step, W, a, n, base
  <2> QED BY <2>1, <2>2
<1>5. Goes(g)
  <2> HIDE DEF W, Takes, step, a, n, base
  <2> QED BY <1>3, <1>4 DEF Recurs
<1> DEFINE all == CHOOSE h : Goes(h)
<1>6. Goes(all)
  <2> HIDE DEF Goes
  <2> QED BY <1>5
<1>7. SidewaysRun(cs) = all[n] BY DEF SidewaysRun
<1> HIDE DEF all, a, n, W, base, Takes
<1>8. all[a] = base /\ \A i \in (a + 1)..n : all[i] = Takes(i, all[i - 1])
  <2>1. a \in a..n /\ \A i \in (a + 1)..n : i \in a..n /\ i # a BY <1>0
  <2> QED BY <1>6, <2>1
<1>9. \A i \in a..n : all[i] \in W
  <2> DEFINE S == {i \in a..n : all[i] \in W}
  <2>1. a \in S BY <1>0, <1>8
  <2>2. ASSUME NEW i \in a..n, i # a, i - 1 \in S PROVE i \in S
    <3>1. i \in (a + 1)..n /\ all[i - 1] \in W BY <1>0, <2>2
    <3> QED BY <1>1, <1>8, <3>1
  <2> HIDE DEF S
  <2>3. \A i \in a..n : i \in S BY <1>0, <2>1, <2>2, UpTo
  <2> QED BY <2>3 DEF S
<1>10. all \in [a..n -> W] BY <1>6, <1>9
<1>11. Sides(all, cs)
  <2>1. /\ all \in [0..Len(cs) -> Accounts]
        /\ all[0] = [open |-> <<>>, trades |-> 0, wins |-> 0, losses |-> 0, pnl |-> 0]
    BY <1>8, <1>10 DEF a, n, W, base
  <2>2. \A i \in 1..Len(cs) :
          all[i] = (IF i < Lookback THEN all[i - 1]
              ELSE SidewaysBar(all[i - 1], Evaluate(SubSeq(cs, 1, i)), cs[i]))
    BY <1>8 DEF a, n, Takes
  <2> QED BY <2>1, <2>2 DEF Sides
<1> QED BY <1>7, <1>11 DEF n

-----------------------------------------------------------------------------
(* What holds of every series.                                              *)

LEMMA SeriesHolds == BacktestSpec => [](series \in Seq(CandleKinds))
<1>1. InitBacktest => series \in Seq(CandleKinds) BY DEF InitBacktest
<1>2. series \in Seq(CandleKinds) /\ [NextCandle]_series => (series \in Seq(CandleKinds))'
  BY DEF NextCandle
<1> QED BY <1>1, <1>2, PTL DEF BacktestSpec

(* Whatever the candles, a trade of the engine loses no more than the       *)
(* distance to the stop it was opened with, buys and sells alternate, and   *)
(* the other engine has at most one position that is not counted.           *)
THEOREM StopsBoundLosses == BacktestSpec => []LossBounded
<1>1. ASSUME series \in Seq(CandleKinds), series # <<>>
      PROVE  StopBounds(RunBacktest(series).trades, ATR(series)) /\ Counted(SidewaysRun(series))
  <2>1. StopBounds(RunBacktest(series).trades, ATR(series)) BY <1>1, RunIs DEF BookIs
  <2>2. PICK f : Sides(f, series) /\ SidewaysRun(series) = f[Len(series)] BY <1>1, SidewaysUnfolds
  <2>3. Len(series) \in 0..Len(series) BY <1>1
  <2>4. SidewaysRun(series) \in Accounts BY <2>2, <2>3 DEF Sides
  <2> QED BY <2>1, <2>4 DEF Accounts
<1>2. series \in Seq(CandleKinds) => LossBounded BY <1>1 DEF LossBounded
<1> QED BY <1>2, SeriesHolds, PTL

(* The one pass over the closed trades finds the largest fall of the equity, *)
(* and the script counts the wins and the losses that pass counts.           *)
THEOREM DrawdownIsFound == BacktestSpec => []DrawdownIsLargestFall
<1>1. ASSUME NEW trades \in Seq(Trades)
      PROVE  /\ LargestFall(Sells(trades), ComputeMetrics(trades))
             /\ FallFromStart(Sells(trades), ComputeMetrics(trades))
             /\ CountsAgree(ComputeMetrics(trades), RunBacktestScript(trades))
  <2> DEFINE sells == Sells(trades)
  <2>1. sells \in Seq(Trades) BY OnlyHas DEF Sells
  <2>2. ComputeMetrics(trades) = MetricsOf(sells) BY DEF ComputeMetrics
  <2>3. RunBacktestScript(trades).wins = Len(Won(sells))
        /\ RunBacktestScript(trades).losses = Len(Lost(sells))
    BY DEF RunBacktestScript
  <2> HIDE DEF sells
  <2>4. /\ LargestFall(sells, MetricsOf(sells)) /\ FallFromStart(sells, MetricsOf(sells))
        /\ MetricsOf(sells).closed = Len(sells)
    BY <2>1, MetricsAre
  <2>5. Len(Won(sells)) = MetricsOf(sells).wins /\ Len(Won(sells)) + Len(Lost(sells)) = Len(sells)
    BY <2>1, WinsAre
  <2> QED BY <2>2, <2>3, <2>4, <2>5 DEF CountsAgree, sells
<1>2. ASSUME series \in Seq(CandleKinds) PROVE DrawdownIsLargestFall
  <2> SUFFICES ASSUME series # <<>>
               PROVE  /\ LargestFall(Sells(RunBacktest(series).trades),
                                     ComputeMetrics(RunBacktest(series).trades))
                      /\ FallFromStart(Sells(RunBacktest(series).trades),
                                       ComputeMetrics(RunBacktest(series).trades))
                      /\ CountsAgree(ComputeMetrics(RunBacktest(series).trades),
                                     RunBacktestScript(RunBacktest(series).trades))
    BY DEF DrawdownIsLargestFall
  <2>1. RunBacktest(series).trades \in Seq(Trades) BY <1>2, RunIs DEF BookIs, Books
  <2> QED BY <1>1, <2>1
<1> QED BY <1>2, SeriesHolds, PTL

-----------------------------------------------------------------------------
(* No look-ahead.                                                           *)

\* ds goes on where cs ends.
GoesOn(cs, ds) ==
  /\ cs \in Seq(CandleKinds) /\ ds \in Seq(CandleKinds) /\ Len(cs) <= Len(ds)
  /\ \A i \in 1..Len(cs) : ds[i] = cs[i]

LEMMA BarsGoOn ==
  ASSUME NEW cs, NEW ds, GoesOn(cs, ds)
  PROVE  /\ \A i \in Bars(cs) : i \in Bars(ds) /\ Bar(ds, i) = Bar(cs, i)
                                /\ BarRange(ds, i) = BarRange(cs, i)
         /\ \A i \in 1..(Len(cs) - 1) :
              /\ i \in 1..(Len(ds) - 1) /\ Diff(ds, i) = Diff(cs, i)
              /\ TrueRange(ds, i) = TrueRange(cs, i)
              /\ PlusDM(ds, i) = PlusDM(cs, i) /\ MinusDM(ds, i) = MinusDM(cs, i)
<1>0. Len(cs) \in Nat /\ Len(ds) \in Nat /\ Len(cs) <= Len(ds) BY DEF GoesOn
<1>1. \A i \in Bars(cs) : i \in Bars(ds) /\ Bar(ds, i) = Bar(cs, i)
  <2> SUFFICES ASSUME NEW i \in Bars(cs) PROVE i \in Bars(ds) /\ Bar(ds, i) = Bar(cs, i) OBVIOUS
  <2>1. i + 1 \in 1..Len(cs) /\ i \in 0..(Len(ds) - 1) BY <1>0 DEF Bars
  <2> QED BY <2>1 DEF GoesOn, Bar, Bars
<1>2. \A i \in 1..(Len(cs) - 1) : i \in 1..(Len(ds) - 1) /\ i \in Bars(cs) /\ i - 1 \in Bars(cs)
  BY <1>0 DEF Bars
<1>3. \A i \in 1..(Len(cs) - 1) :
         /\ Diff(ds, i) = Diff(cs, i) /\ TrueRange(ds, i) = TrueRange(cs, i)
         /\ UpMove(ds, i) = UpMove(cs, i) /\ DownMove(ds, i) = DownMove(cs, i)
  BY <1>1, <1>2 DEF Diff, TrueRange, UpMove, DownMove
<1>4. \A i \in 1..(Len(cs) - 1) : PlusDM(ds, i) = PlusDM(cs, i) /\ MinusDM(ds, i) = MinusDM(cs, i)
  BY <1>3 DEF PlusDM, MinusDM
<1>5. ASSUME NEW i \in Bars(cs) PROVE BarRange(ds, i) = BarRange(cs, i)
  <2>1. CASE i = 0 BY <1>1, <2>1 DEF BarRange
  <2>2. CASE i # 0
    <3>1. i \in 1..(Len(cs) - 1) BY <2>2 DEF Bars
    <3> QED BY <1>3, <2>2, <3>1 DEF BarRange
  <2> QED BY <2>1, <2>2
<1> QED BY <1>1, <1>2, <1>3, <1>4, <1>5

LEMMA MeanSame ==
  ASSUME NEW n \in Int, NEW m \in Int, Period <= n, n <= m, NEW v, NEW w,
         \A i \in 1..n : v[i] \in Nat /\ v[i] = w[i], \A i \in 1..m : w[i] \in Nat
  PROVE  \A i \in Period..n : WilderMean(v, n)[i] = WilderMean(w, m)[i]
<1>0. Period \in Nat \ {0, 1} /\ Period \in Int /\ Period <= m BY BacktestAssumption
<1>1. PICK f : Means(f, v, n) /\ WilderMean(v, n) = f BY WilderMeanUnfolds
<1>2. PICK g : Means(g, w, m) /\ WilderMean(w, m) = g BY <1>0, WilderMeanUnfolds
<1> DEFINE S == {i \in Period..n : f[i] = g[i]}
<1>3. Period \in S
  <2>1. SumOver(v, 1, Period) = SumOver(w, 1, Period)
    <3>1. /\ 1 \in Int /\ 1 - 1 <= Period
          /\ \A i \in 1..Period : v[i] \in Int /\ v[i] = w[i]
      BY <1>0
    <3> QED BY <1>0, <3>1, SumSame
  <2>2. f[Period] = g[Period] BY <1>1, <1>2, <2>1 DEF Means
  <2> QED BY <1>0, <2>2
<1>4. ASSUME NEW i \in Period..n, i # Period, i - 1 \in S PROVE i \in S
  <2>1. i \in (Period + 1)..n /\ i \in (Period + 1)..m /\ i \in 1..n BY <1>0, <1>4
  <2>2. f[i] = (f[i - 1] * (Period - 1) + Scale * v[i]) \div Period BY <1>1, <2>1 DEF Means
  <2>3. g[i] = (g[i - 1] * (Period - 1) + Scale * w[i]) \div Period BY <1>2, <2>1 DEF Means
  <2>4. f[i - 1] = g[i - 1] /\ v[i] = w[i] BY <1>4, <2>1
  <2>5. f[i] = g[i] BY <2>2, <2>3, <2>4
  <2> QED BY <2>5
<1>5. \A i \in Period..n : i \in S
  <2> HIDE DEF S
  <2> QED BY <1>0, <1>3, <1>4, UpTo
<1> QED BY <1>1, <1>2, <1>5

LEMMA RsiGoesOn ==
  ASSUME NEW cs, NEW ds, GoesOn(cs, ds), NEW i \in Bars(cs)
  PROVE  RSI(ds)[i] = RSI(cs)[i]
<1> DEFINE n == Len(cs) - 1
<1> DEFINE m == Len(ds) - 1
<1> DEFINE up == [j \in 1..n |-> MaxOf(Diff(cs, j), 0)]
<1> DEFINE down == [j \in 1..n |-> MaxOf(-Diff(cs, j), 0)]
<1> DEFINE up2 == [j \in 1..m |-> MaxOf(Diff(ds, j), 0)]
<1> DEFINE down2 == [j \in 1..m |-> MaxOf(-Diff(ds, j), 0)]
<1>0. /\ cs \in Seq(CandleKinds) /\ ds \in Seq(CandleKinds) /\ n \in Int /\ m \in Int /\ n <= m
      /\ Period \in Nat \ {0, 1} /\ i \in 0..n
  BY BacktestAssumption DEF GoesOn, Bars
<1>1. i \in Bars(ds) BY BarsGoOn
<1>2. RSI(cs)[i] = IF i < Period THEN Null ELSE Ratio(WilderMean(up, n)[i], WilderMean(down, n)[i])
  BY DEF RSI
<1>3. RSI(ds)[i] = IF i < Period THEN Null
          ELSE Ratio(WilderMean(up2, m)[i], WilderMean(down2, m)[i])
  BY <1>1 DEF RSI
<1>4. \A j \in 1..n : j \in 1..m /\ Diff(ds, j) = Diff(cs, j) BY BarsGoOn
<1>5. (\A j \in 1..n : up[j] \in Nat /\ up[j] = up2[j]) /\ \A j \in 1..m : up2[j] \in Nat
  BY <1>0, <1>4, DiffIs
<1>6. (\A j \in 1..n : down[j] \in Nat /\ down[j] = down2[j]) /\ \A j \in 1..m : down2[j] \in Nat
  BY <1>0, <1>4, DiffIs
<1> HIDE DEF n, m, up, down, up2, down2
<1>7. CASE ~(i < Period)
  <2>1. Period <= n /\ i \in Period..n BY <1>0, <1>7
  <2>2. WilderMean(up, n)[i] = WilderMean(up2, m)[i] BY <1>0, <1>5, <2>1, MeanSame
  <2>3. WilderMean(down, n)[i] = WilderMean(down2, m)[i] BY <1>0, <1>6, <2>1, MeanSame
  <2> QED BY <1>2, <1>3, <1>7, <2>2, <2>3
<1> QED BY <1>2, <1>3, <1>7

LEMMA AtrGoesOn ==
  ASSUME NEW cs, NEW ds, GoesOn(cs, ds), NEW i \in Bars(cs)
  PROVE  ATR(ds)[i] = ATR(cs)[i]
<1> DEFINE tr == [k \in Bars(cs) |-> BarRange(cs, k)]
<1> DEFINE tr2 == [k \in Bars(ds) |-> BarRange(ds, k)]
<1> DEFINE from == IF i >= Period THEN (i - Period) + 1 ELSE 0
<1>0. /\ cs \in Seq(CandleKinds) /\ ds \in Seq(CandleKinds) /\ i \in Bars(ds)
      /\ Period \in Nat \ {0, 1} /\ i \in 0..(Len(cs) - 1) /\ Len(cs) \in Int
  BY BarsGoOn, BacktestAssumption DEF GoesOn, Bars
<1>1. from \in Int /\ 0 <= from /\ from - 1 <= i /\ i \in Int BY <1>0
<1> HIDE DEF from
<1>2. \A k \in from..i : tr[k] \in Int /\ tr[k] = tr2[k]
  <2>1. \A k \in from..i : k \in Bars(cs) BY <1>0, <1>1 DEF Bars
  <2> QED BY <1>0, <2>1, BarsGoOn, BarRangeIs
<1>3. RangeSum(cs)[i] = SumOver(tr, from, i) /\ RangeSum(ds)[i] = SumOver(tr2, from, i)
  BY <1>0, RangeSumIs DEF from
<1>4. RangeSum(cs)[i] = RangeSum(ds)[i]
  <2> HIDE DEF tr, tr2
  <2> QED BY <1>1, <1>2, <1>3, SumSame
<1> QED BY <1>0, <1>4 DEF ATR

Averages(f, cs) ==
  /\ f \in [0..(Len(cs) - 1) -> Int]
  /\ f[0] = Null
  /\ \A i \in 1..(Len(cs) - 1) :
       f[i] = (IF i < TrendPeriod - 1 THEN Null ELSE IF i = TrendPeriod - 1 THEN EmaSeed(cs)
           ELSE ((Scale * Bar(cs, i).close - f[i - 1]) * 2) \div (TrendPeriod + 1) + f[i - 1])

LEMMA MeanCloseIs ==
  ASSUME NEW cs \in Seq(CandleKinds), NEW a \in Nat, NEW b \in 0..(Len(cs) - 1), a <= b
  PROVE  MeanClose(cs, a, b) \in Int
<1> DEFINE f == [k \in a..b |-> Bar(cs, k).close]
<1>1. \A k \in a..b : f[k] \in Nat
  <2>1. \A k \in a..b : k \in Bars(cs) BY DEF Bars
  <2> QED BY <2>1, CandleIs
<1> DEFINE l == (b - a) + 1
<1>2. a \in Int /\ b \in Int /\ a - 1 <= b /\ l \in Nat \ {0} /\ b - a + 1 = l OBVIOUS
<1> HIDE DEF f, l
<1>3. SumOver(f, a, b) \in Nat BY <1>1, <1>2, SumIsNat
<1>4. (Scale * SumOver(f, a, b)) \div l \in Int BY <1>2, <1>3 DEF Scale
<1> QED BY <1>2, <1>4 DEF MeanClose, f

LEMMA EmaUnfolds ==
  ASSUME NEW cs \in Seq(CandleKinds), cs # <<>>
  PROVE  \E f : Averages(f, cs) /\ EMA(cs) = f
<1> DEFINE W == Int
<1> DEFINE a == 0
<1> DEFINE n == Len(cs) - 1
<1> DEFINE base == Null
<1> DEFINE Takes(i, x) == (IF i < TrendPeriod - 1 THEN Null ELSE IF i = TrendPeriod - 1
        THEN EmaSeed(cs) ELSE ((Scale * Bar(cs, i).close - x) * 2) \div (TrendPeriod + 1) + x)
<1> DEFINE step == [p \in Int \X W |-> IF p[1] \in (a + 1)..n THEN Takes(p[1], p[2]) ELSE p[2]]
<1> DEFINE Body(h, i) == IF i < TrendPeriod - 1 THEN Null ELSE IF i = TrendPeriod - 1
        THEN EmaSeed(cs)
        ELSE ((Scale * Bar(cs, i).close - h[i - 1]) * 2) \div (TrendPeriod + 1) + h[i - 1]
<1>b. ASSUME NEW h, NEW i \in a..n PROVE Body(h, i) = IF i = a THEN base ELSE Takes(i, h[i - 1])
      BY BacktestAssumption
<1> DEFINE Goes(h) == h = [i \in a..n |-> Body(h, i)]
<1>0. a \in Int /\ n \in Int /\ a <= n /\ base \in W
  <2>1. Len(cs) \in Nat \ {0} BY EmptySeq
  <2> QED BY <2>1 DEF Null
<1>1. ASSUME NEW i \in (a + 1)..n, NEW x \in W PROVE Takes(i, x) \in W
  <2>1. i \in Bars(cs) /\ TrendPeriod \in Nat \ {0, 1} BY <1>0, BacktestAssumption DEF Bars
  <2>2. i = TrendPeriod - 1 => EmaSeed(cs) \in Int
    <3>1. SUFFICES ASSUME i = TrendPeriod - 1 PROVE EmaSeed(cs) \in Int OBVIOUS
    <3>2. i \in Int /\ 0 - 1 <= i /\ i \in 0..(Len(cs) - 1) BY <2>1 DEF Bars
    <3> QED BY <2>1, <3>1, <3>2, MeanCloseIs DEF EmaSeed
  <2>3. ((Scale * Bar(cs, i).close - x) * 2) \div (TrendPeriod + 1) + x \in Int
    <3>1. Bar(cs, i).close \in Int BY <2>1, CandleIs
    <3>2. (Scale * Bar(cs, i).close - x) * 2 \in Int BY <3>1 DEF Scale
    <3>3. TrendPeriod + 1 \in Nat \ {0} BY <2>1
    <3>4. ((Scale * Bar(cs, i).close - x) * 2) \div (TrendPeriod + 1) \in Int BY <3>2, <3>3
    <3> QED BY <3>4
  <2> QED BY <2>2, <2>3 DEF Null
<1>2. step \in [Int \X W -> W]
  <2> HIDE DEF Takes, W, a, n
  <2> QED BY <1>1
<1>3. PICK g : Recurs(g, a, n, W, base, step)
  <2> HIDE DEF step, W, a, n, base
  <2> QED BY <1>0, <1>2, Recursion
<1>4. ASSUME NEW i \in a..n PROVE g[i] = IF i = a THEN base ELSE Takes(i, g[i - 1])
  <2>1. g[i] = IF i = a THEN base ELSE step[<<i, g[i - 1]>>]
    <3> HIDE DEF step, W, a, n, base
    <3> QED BY <1>3 DEF Recurs
  <2>2. CASE i # a
    <3> HIDE DEF Takes, W, a, n, base
    <3>1. i - 1 \in a..n /\ i \in (a + 1)..n /\ i \in Int BY <1>0, <2>2
    <3>2. g[i - 1] \in W BY <1>3, <3>1 DEF Recurs
    <3>3. step[<<i, g[i - 1]>>] = Takes(i, g[i - 1]) BY <3>1, <3>2
    <3> HIDE DEF step
    <3> QED BY <2>1, <2>2, <3>3
  <2> HIDE DEF Takes, step, W, a, n, base
  <2> QED BY <2>1, <2>2
<1>5. Goes(g)
  <2> HIDE DEF W, Takes, step, a, n, base, Body
  <2> QED BY <1>b, <1>3, <1>4 DEF Recurs
<1> DEFINE all == CHOOSE h : Goes(h)
<1>6. Goes(all)
  <2> HIDE DEF Goes
  <2> QED BY <1>5
<1>7. EMA(cs) = all BY DEF EMA, Bars
<1> HIDE DEF all, a, n, W, base, Takes, Body
<1>8. all[a] = base /\ \A i \in (a + 1)..n : all[i] = Takes(i, all[i - 1])
  <2>1. a \in a..n /\ \A i \in (a + 1)..n : i \in a..n /\ i # a BY <1>0
  <2> QED BY <1>b, <1>6, <2>1
<1>9. \A i \in a..n : all[i] \in W
  <2> DEFINE S == {i \in a..n : all[i] \in W}
  <2>1. a \in S BY <1>0, <1>8
  <2>2. ASSUME NEW i \in a..n, i # a, i - 1 \in S PROVE i \in S
    <3>1. i \in (a + 1)..n /\ all[i - 1] \in W BY <1>0, <2>2
    <3> QED BY <1>1, <1>8, <3>1
  <2> HIDE DEF S
  <2>3. \A i \in a..n : i \in S BY <1>0, <2>1, <2>2, UpTo
  <2> QED BY <2>3 DEF S
<1>10. all \in [a..n -> W] BY <1>6, <1>9
<1>11. Averages(all, cs)
  <2>1. /\ all \in [0..(Len(cs) - 1) -> Int]
        /\ all[0] = Null
    BY <1>8, <1>10 DEF a, n, W, base
  <2>2. \A i \in 1..(Len(cs) - 1) :
          all[i] = (IF i < TrendPeriod - 1 THEN Null ELSE IF i = TrendPeriod - 1
              THEN EmaSeed(cs)
              ELSE ((Scale * Bar(cs, i).close - all[i - 1]) * 2) \div (TrendPeriod + 1) + all[i - 1])
    BY <1>8 DEF a, n, Takes
  <2> QED BY <2>1, <2>2 DEF Averages
<1> QED BY <1>7, <1>11 DEF n

LEMMA EmaGoesOn ==
  ASSUME NEW cs, NEW ds, GoesOn(cs, ds), NEW i \in Bars(cs)
  PROVE  EMA(ds)[i] = EMA(cs)[i]
<1> DEFINE n == Len(cs) - 1
<1>0. /\ cs \in Seq(CandleKinds) /\ ds \in Seq(CandleKinds) /\ Bars(cs) = 0..n /\ n \in Int
      /\ 0 \in Int /\ 0 \in 0..n /\ n <= Len(ds) - 1 /\ Len(ds) - 1 \in Int /\ i \in 0..n
      /\ cs # <<>> /\ ds # <<>> /\ TrendPeriod \in Nat \ {0, 1}
  BY BacktestAssumption DEF GoesOn, Bars
<1>1. PICK f : Averages(f, cs) /\ EMA(cs) = f BY <1>0, EmaUnfolds
<1>2. PICK g : Averages(g, ds) /\ EMA(ds) = g BY <1>0, EmaUnfolds
<1>3. TrendPeriod - 1 \in 0..n => EmaSeed(ds) = EmaSeed(cs)
  <2> SUFFICES ASSUME TrendPeriod - 1 \in 0..n PROVE EmaSeed(ds) = EmaSeed(cs) OBVIOUS
  <2> DEFINE b == TrendPeriod - 1
  <2> DEFINE p == [k \in 0..b |-> Bar(cs, k).close]
  <2> DEFINE q == [k \in 0..b |-> Bar(ds, k).close]
  <2>1. \A k \in 0..b : Bar(ds, k) = Bar(cs, k)
    <3>1. \A k \in 0..b : k \in Bars(cs) BY <1>0
    <3> QED BY <3>1, BarsGoOn
  <2>2. p = q BY <2>1
  <2> QED BY <2>2 DEF EmaSeed, MeanClose
<1> DEFINE S == {k \in 0..n : f[k] = g[k]}
<1>4. 0 \in S BY <1>0, <1>1, <1>2 DEF Averages
<1>5. ASSUME NEW k \in 0..n, k # 0, k - 1 \in S PROVE k \in S
  <2>1. k \in 1..(Len(cs) - 1) /\ k \in 1..(Len(ds) - 1) /\ k \in Bars(cs)
    BY <1>0, <1>5
  <2>2. f[k] = IF k < TrendPeriod - 1 THEN Null ELSE IF k = TrendPeriod - 1 THEN EmaSeed(cs)
               ELSE ((Scale * Bar(cs, k).close - f[k - 1]) * 2) \div (TrendPeriod + 1) + f[k - 1]
    BY <1>1, <2>1 DEF Averages
  <2>3. g[k] = IF k < TrendPeriod - 1 THEN Null ELSE IF k = TrendPeriod - 1 THEN EmaSeed(ds)
               ELSE ((Scale * Bar(ds, k).close - g[k - 1]) * 2) \div (TrendPeriod + 1) + g[k - 1]
    BY <1>2, <2>1 DEF Averages
  <2>4. f[k - 1] = g[k - 1] /\ Bar(ds, k) = Bar(cs, k) BY <1>5, <2>1, BarsGoOn
  <2>5. k = TrendPeriod - 1 => EmaSeed(ds) = EmaSeed(cs) BY <1>3
  <2>6. f[k] = g[k] BY <2>2, <2>3, <2>4, <2>5
  <2> QED BY <2>6
<1>6. \A k \in 0..n : k \in S
  <2> HIDE DEF S, n
  <2> QED BY <1>0, <1>4, <1>5, UpTo
<1> QED BY <1>0, <1>1, <1>2, <1>6

LEMMA QuotientIsLess ==
  ASSUME NEW x \in Nat, NEW p \in Nat \ {0}
  PROVE  x \div p \in Nat /\ x \div p <= x
<1> DEFINE q == x \div p
<1>1. q \in Nat /\ p * q <= x OBVIOUS
<1> HIDE DEF q
<1>2. p = 1 \/ p >= 2 OBVIOUS
<1>3. (p - 1) * q \in Nat BY <1>1, ProductIsNat
<1>4. p * q = (p - 1) * q + q BY <1>1
<1>5. q <= p * q
  <2> DEFINE r == (p - 1) * q
  <2> DEFINE s == p * q
  <2>1. r \in Nat /\ s = r + q BY <1>3, <1>4
  <2> HIDE DEF r, s
  <2> QED BY <1>1, <2>1
<1>6. p * q \in Int BY <1>1
<1> QED BY <1>1, <1>5, <1>6 DEF q

Totals(f, v, n0) ==
  /\ f \in [Period..n0 -> Nat]
  /\ f[Period] = Scale * SumOver(v, 1, Period)
  /\ \A i \in (Period + 1)..n0 :
       f[i] = (f[i - 1] - f[i - 1] \div Period) + Scale * v[i]

LEMMA WilderSumUnfolds ==
  ASSUME NEW v, NEW n0 \in Int, Period <= n0, \A i \in 1..n0 : v[i] \in Nat
  PROVE  \E f : Totals(f, v, n0) /\ WilderSum(v, n0) = f
<1> DEFINE W == Nat
<1> DEFINE a == Period
<1> DEFINE n == n0
<1> DEFINE base == Scale * SumOver(v, 1, Period)
<1> DEFINE Takes(i, x) == (x - x \div Period) + Scale * v[i]
<1> DEFINE step == [p \in Int \X W |-> IF p[1] \in (a + 1)..n THEN Takes(p[1], p[2]) ELSE p[2]]
<1> DEFINE Goes(h) == h = [i \in a..n |-> IF i = a THEN base ELSE Takes(i, h[i - 1])]
<1>0. a \in Int /\ n \in Int /\ a <= n /\ base \in W
  <2>1. Period \in Nat \ {0, 1} /\ 1 \in Int /\ Period \in Int /\ 1 - 1 <= Period
        /\ \A i \in 1..Period : v[i] \in Nat
    BY BacktestAssumption
  <2>2. SumOver(v, 1, Period) \in Nat BY <2>1, SumIsNat
  <2>3. base \in Nat BY <2>2 DEF Scale
  <2> HIDE DEF base
  <2> QED BY <2>1, <2>3
<1>1. ASSUME NEW i \in (a + 1)..n, NEW x \in W PROVE Takes(i, x) \in W
  <2>1. Period \in Nat \ {0, 1} /\ i \in 1..n0 BY BacktestAssumption
  <2>2. v[i] \in Nat /\ x \in Nat BY <2>1
  <2>3. x \div Period \in Nat /\ x \div Period <= x BY <2>1, <2>2, QuotientIsLess
  <2>4. Scale * v[i] \in Nat BY <2>2 DEF Scale
  <2> QED BY <2>2, <2>3, <2>4
<1>2. step \in [Int \X W -> W]
  <2> HIDE DEF Takes, W, a, n
  <2> QED BY <1>1
<1>3. PICK g : Recurs(g, a, n, W, base, step)
  <2> HIDE DEF step, W, a, n, base
  <2> QED BY <1>0, <1>2, Recursion
<1>4. ASSUME NEW i \in a..n PROVE g[i] = IF i = a THEN base ELSE Takes(i, g[i - 1])
  <2>1. g[i] = IF i = a THEN base ELSE step[<<i, g[i - 1]>>]
    <3> HIDE DEF step, W, a, n, base
    <3> QED BY <1>3 DEF Recurs
  <2>2. CASE i # a
    <3> HIDE DEF Takes, W, a, n, base
    <3>1. i - 1 \in a..n /\ i \in (a + 1)..n /\ i \in Int BY <1>0, <2>2
    <3>2. g[i - 1] \in W BY <1>3, <3>1 DEF Recurs
    <3>3. step[<<i, g[i - 1]>>] = Takes(i, g[i - 1]) BY <3>1, <3>2
    <3> HIDE DEF step
    <3> QED BY <2>1, <2>2, <3>3
  <2> HIDE DEF Takes, step, W, a, n, base
  <2> QED BY <2>1, <2>2
<1>5. Goes(g)
  <2> HIDE DEF W, Takes, step, a, n, base
  <2> QED BY <1>3, <1>4 DEF Recurs
<1> DEFINE all == CHOOSE h : Goes(h)
<1>6. Goes(all)
  <2> HIDE DEF Goes
  <2> QED BY <1>5
<1>7. WilderSum(v, n0) = all BY DEF WilderSum
<1> HIDE DEF all, a, n, W, base, Takes
<1>8. all[a] = base /\ \A i \in (a + 1)..n : all[i] = Takes(i, all[i - 1])
  <2>1. a \in a..n /\ \A i \in (a + 1)..n : i \in a..n /\ i # a BY <1>0
  <2> QED BY <1>6, <2>1
<1>9. \A i \in a..n : all[i] \in W
  <2> DEFINE S == {i \in a..n : all[i] \in W}
  <2>1. a \in S BY <1>0, <1>8
  <2>2. ASSUME NEW i \in a..n, i # a, i - 1 \in S PROVE i \in S
    <3>1. i \in (a + 1)..n /\ all[i - 1] \in W BY <1>0, <2>2
    <3> QED BY <1>1, <1>8, <3>1
  <2> HIDE DEF S
  <2>3. \A i \in a..n : i \in S BY <1>0, <2>1, <2>2, UpTo
  <2> QED BY <2>3 DEF S
<1>10. all \in [a..n -> W] BY <1>6, <1>9
<1>11. Totals(all, v, n0)
  <2>1. /\ all \in [Period..n0 -> Nat]
        /\ all[Period] = Scale * SumOver(v, 1, Period)
    BY <1>8, <1>10 DEF a, n, W, base
  <2>2. \A i \in (Period + 1)..n0 :
          all[i] = (all[i - 1] - all[i - 1] \div Period) + Scale * v[i]
    BY <1>8 DEF a, n, Takes
  <2> QED BY <2>1, <2>2 DEF Totals
<1> QED BY <1>7, <1>11 DEF n

LEMMA TotalSame ==
  ASSUME NEW n \in Int, NEW m \in Int, Period <= n, n <= m, NEW v, NEW w,
         \A i \in 1..n : v[i] \in Nat /\ v[i] = w[i], \A i \in 1..m : w[i] \in Nat
  PROVE  \A i \in Period..n : /\ WilderSum(v, n)[i] = WilderSum(w, m)[i]
                              /\ WilderSum(v, n)[i] \in Nat
<1>0. Period \in Nat \ {0, 1} /\ Period \in Int /\ Period <= m BY BacktestAssumption
<1>1. PICK f : Totals(f, v, n) /\ WilderSum(v, n) = f BY WilderSumUnfolds
<1>2. PICK g : Totals(g, w, m) /\ WilderSum(w, m) = g BY <1>0, WilderSumUnfolds
<1> DEFINE S == {i \in Period..n : f[i] = g[i]}
<1>3. Period \in S
  <2>1. SumOver(v, 1, Period) = SumOver(w, 1, Period)
    <3>1. /\ 1 \in Int /\ 1 - 1 <= Period
          /\ \A i \in 1..Period : v[i] \in Int /\ v[i] = w[i]
      BY <1>0
    <3> QED BY <1>0, <3>1, SumSame
  <2>2. f[Period] = g[Period] BY <1>1, <1>2, <2>1 DEF Totals
  <2> QED BY <1>0, <2>2
<1>4. ASSUME NEW i \in Period..n, i # Period, i - 1 \in S PROVE i \in S
  <2>1. i \in (Period + 1)..n /\ i \in (Period + 1)..m /\ i \in 1..n BY <1>0, <1>4
  <2>2. f[i] = (f[i - 1] - f[i - 1] \div Period) + Scale * v[i] BY <1>1, <2>1 DEF Totals
  <2>3. g[i] = (g[i - 1] - g[i - 1] \div Period) + Scale * w[i] BY <1>2, <2>1 DEF Totals
  <2>4. f[i - 1] = g[i - 1] /\ v[i] = w[i] BY <1>4, <2>1
  <2>5. f[i] = g[i] BY <2>2, <2>3, <2>4
  <2> QED BY <2>5
<1>5. \A i \in Period..n : i \in S
  <2> HIDE DEF S
  <2> QED BY <1>0, <1>3, <1>4, UpTo
<1>6. \A i \in Period..n : f[i] \in Nat BY <1>1 DEF Totals
<1> QED BY <1>1, <1>2, <1>5, <1>6

LEMMA MovesAre ==
  ASSUME NEW cs \in Seq(CandleKinds), NEW i \in 1..(Len(cs) - 1)
  PROVE  TrueRange(cs, i) \in Nat /\ PlusDM(cs, i) \in Nat /\ MinusDM(cs, i) \in Nat
<1>1. i \in Bars(cs) /\ i - 1 \in Bars(cs) /\ i # 0 BY DEF Bars
<1>2. Bar(cs, i).high \in Nat /\ Bar(cs, i - 1).high \in Nat
      /\ Bar(cs, i).low \in Nat /\ Bar(cs, i - 1).low \in Nat
  BY <1>1, CandleIs
<1>3. UpMove(cs, i) \in Int /\ DownMove(cs, i) \in Int BY <1>2 DEF UpMove, DownMove
<1>4. TrueRange(cs, i) \in Nat BY <1>1, BarRangeIs
<1> QED BY <1>3, <1>4 DEF PlusDM, MinusDM, MaxOf

LEMMA DxGoesOn ==
  ASSUME NEW cs, NEW ds, GoesOn(cs, ds)
  PROVE  /\ DX(cs) \in [Period..(Len(cs) - 1) -> Int]
         /\ \A i \in Period..(Len(cs) - 1) : DX(ds)[i] = DX(cs)[i]
<1> DEFINE n == Len(cs) - 1
<1> DEFINE m == Len(ds) - 1
<1> DEFINE t == [i \in 1..n |-> TrueRange(cs, i)]
<1> DEFINE t2 == [i \in 1..m |-> TrueRange(ds, i)]
<1> DEFINE u == [i \in 1..n |-> PlusDM(cs, i)]
<1> DEFINE u2 == [i \in 1..m |-> PlusDM(ds, i)]
<1> DEFINE d == [i \in 1..n |-> MinusDM(cs, i)]
<1> DEFINE d2 == [i \in 1..m |-> MinusDM(ds, i)]
<1> DEFINE Index(x, y) == IF x + y = 0 THEN NaN ELSE (100 * AbsOf(x - y)) \div (x + y)
<1>0. /\ cs \in Seq(CandleKinds) /\ ds \in Seq(CandleKinds) /\ n \in Int /\ m \in Int /\ n <= m
      /\ Period \in Nat \ {0, 1}
  BY BacktestAssumption DEF GoesOn
<1>1. DX(cs) = [i \in Period..n |-> IF WilderSum(t, n)[i] = 0 THEN Null
                                   ELSE Index(WilderSum(u, n)[i], WilderSum(d, n)[i])]
  BY DEF DX
<1>2. DX(ds) = [i \in Period..m |-> IF WilderSum(t2, m)[i] = 0 THEN Null
                                   ELSE Index(WilderSum(u2, m)[i], WilderSum(d2, m)[i])]
  BY DEF DX
<1>3. \A i \in 1..n : i \in 1..m /\ TrueRange(ds, i) = TrueRange(cs, i)
                      /\ PlusDM(ds, i) = PlusDM(cs, i) /\ MinusDM(ds, i) = MinusDM(cs, i)
  BY BarsGoOn
<1>4. (\A i \in 1..n : t[i] \in Nat /\ t[i] = t2[i]) /\ \A i \in 1..m : t2[i] \in Nat
  BY <1>0, <1>3, MovesAre
<1>5. (\A i \in 1..n : u[i] \in Nat /\ u[i] = u2[i]) /\ \A i \in 1..m : u2[i] \in Nat
  BY <1>0, <1>3, MovesAre
<1>6. (\A i \in 1..n : d[i] \in Nat /\ d[i] = d2[i]) /\ \A i \in 1..m : d2[i] \in Nat
  BY <1>0, <1>3, MovesAre
<1> HIDE DEF t, t2, u, u2, d, d2, n, m
<1>7. ASSUME NEW x \in Nat, NEW y \in Nat PROVE Index(x, y) \in Int
  <2>1. CASE x + y = 0 BY <2>1 DEF NaN
  <2>2. CASE x + y # 0
    <3>1. x + y \in Nat \ {0} /\ 100 * AbsOf(x - y) \in Nat BY <2>2 DEF AbsOf
    <3>2. (100 * AbsOf(x - y)) \div (x + y) \in Nat BY <3>1, QuotientIsNat
    <3> QED BY <2>2, <3>2
  <2> QED BY <2>1, <2>2
<1>8. ASSUME NEW i \in Period..n
      PROVE  /\ WilderSum(t, n)[i] = WilderSum(t2, m)[i]
             /\ WilderSum(u, n)[i] = WilderSum(u2, m)[i] /\ WilderSum(u, n)[i] \in Nat
             /\ WilderSum(d, n)[i] = WilderSum(d2, m)[i] /\ WilderSum(d, n)[i] \in Nat
  <2>1. Period <= n BY <1>0
  <2>2. WilderSum(t, n)[i] = WilderSum(t2, m)[i] BY <1>0, <1>4, <2>1, TotalSame
  <2>3. WilderSum(u, n)[i] = WilderSum(u2, m)[i] /\ WilderSum(u, n)[i] \in Nat
    BY <1>0, <1>5, <2>1, TotalSame
  <2>4. WilderSum(d, n)[i] = WilderSum(d2, m)[i] /\ WilderSum(d, n)[i] \in Nat
    BY <1>0, <1>6, <2>1, TotalSame
  <2> QED BY <2>2, <2>3, <2>4
<1> HIDE DEF Index
<1>9. \A i \in Period..n : i \in Period..m BY <1>0
<1>10. \A i \in Period..n : DX(cs)[i] \in Int /\ DX(ds)[i] = DX(cs)[i]
  BY <1>1, <1>2, <1>7, <1>8, <1>9 DEF Null
<1>11. DX(cs) \in [Period..n -> Int] BY <1>1, <1>10
<1> QED BY <1>10, <1>11 DEF n

\* What is averaged: a value of the index that is null counts 0.
Valued(dx) == [i \in DOMAIN dx |-> IF dx[i] = Null THEN 0 ELSE dx[i]]

\* From start on dx has an index, or none.
Indexed(dx, start, n) == \A k \in start..(n - 1) : k \in DOMAIN dx /\ dx[k] \in Int

\* The two agree from start to n.
Alike(dx, dy, start, n) == \A k \in start..(n - 1) : dx[k] = dy[k]

Smooths(f, dx, start, last, n0) ==
  /\ f \in [last..(n0 - 1) -> Int]
  /\ f[last] = (IF \E k \in start..last : dx[k] = NaN THEN NaN
         ELSE SumOver(Valued(dx), start, last) \div Period)
  /\ \A i \in (last + 1)..(n0 - 1) :
       f[i] = (IF NaN \in {f[i - 1], dx[i]} THEN NaN
           ELSE (f[i - 1] * (Period - 1) + Valued(dx)[i]) \div Period)

LEMMA AdxUnfolds ==
  ASSUME NEW dx, NEW start \in Int, NEW last \in Int, NEW n0 \in Int,
         start <= last, last <= n0 - 1, Indexed(dx, start, n0)
  PROVE  \E f : Smooths(f, dx, start, last, n0) 
              /\ \A i \in 0..(n0 - 1) :
                   AdxFrom(dx, start, last, n0)[i] = IF i < last THEN Null ELSE f[i]
<1> DEFINE W == Int
<1> DEFINE a == last
<1> DEFINE n == n0 - 1
<1> DEFINE base == (IF \E k \in start..last : dx[k] = NaN THEN NaN
        ELSE SumOver(Valued(dx), start, last) \div Period)
<1> DEFINE Takes(i, x) == (IF NaN \in {x, dx[i]} THEN NaN
        ELSE (x * (Period - 1) + Valued(dx)[i]) \div Period)
<1> DEFINE step == [p \in Int \X W |-> IF p[1] \in (a + 1)..n THEN Takes(p[1], p[2]) ELSE p[2]]
<1> DEFINE Goes(h) == h = [i \in a..n |-> IF i = a THEN base ELSE Takes(i, h[i - 1])]
<1>0. a \in Int /\ n \in Int /\ a <= n /\ base \in W
  <2>1. Period \in Nat \ {0, 1} /\ start - 1 <= last BY BacktestAssumption
  <2>2. \A k \in start..last : Valued(dx)[k] \in Int
    <3>1. \A k \in start..last : k \in start..(n0 - 1) OBVIOUS
    <3> QED BY <3>1 DEF Valued, Indexed
  <2>3. start - 1 = last \/ start <= last OBVIOUS
  <2> DEFINE sum0 == SumOver(Valued(dx), start, last)
  <2>4. sum0 \in Int BY <2>2, SumPrefix
  <2> HIDE DEF sum0
  <2>5. sum0 \div Period \in Int BY <2>1, <2>4
  <2>6. base \in Int BY <2>5 DEF NaN, sum0
  <2> QED BY <2>6
<1>1. ASSUME NEW i \in (a + 1)..n, NEW x \in W PROVE Takes(i, x) \in W
  <2>1. Period \in Nat \ {0, 1} /\ i \in start..(n0 - 1) BY BacktestAssumption
  <2>2. Valued(dx)[i] \in Int /\ Period - 1 \in Int /\ x \in Int BY <2>1 DEF Valued, Indexed
  <2>3. x * (Period - 1) \in Int BY <2>2
  <2> DEFINE y == x * (Period - 1)
  <2> HIDE DEF y
  <2>4. (y + Valued(dx)[i]) \div Period \in Int BY <2>1, <2>2, <2>3 DEF y
  <2> QED BY <2>4 DEF NaN, y
<1>2. step \in [Int \X W -> W]
  <2> HIDE DEF Takes, W, a, n
  <2> QED BY <1>1
<1>3. PICK g : Recurs(g, a, n, W, base, step)
  <2> HIDE DEF step, W, a, n, base
  <2> QED BY <1>0, <1>2, Recursion
<1>4. ASSUME NEW i \in a..n PROVE g[i] = IF i = a THEN base ELSE Takes(i, g[i - 1])
  <2>1. g[i] = IF i = a THEN base ELSE step[<<i, g[i - 1]>>]
    <3> HIDE DEF step, W, a, n, base
    <3> QED BY <1>3 DEF Recurs
  <2>2. CASE i # a
    <3> HIDE DEF Takes, W, a, n, base
    <3>1. i - 1 \in a..n /\ i \in (a + 1)..n /\ i \in Int BY <1>0, <2>2
    <3>2. g[i - 1] \in W BY <1>3, <3>1 DEF Recurs
    <3>3. step[<<i, g[i - 1]>>] = Takes(i, g[i - 1]) BY <3>1, <3>2
    <3> HIDE DEF step
    <3> QED BY <2>1, <2>2, <3>3
  <2> HIDE DEF Takes, step, W, a, n, base
  <2> QED BY <2>1, <2>2
<1>5. Goes(g)
  <2> HIDE DEF W, Takes, step, a, n, base
  <2> QED BY <1>3, <1>4 DEF Recurs
<1> DEFINE all == CHOOSE h : Goes(h)
<1>6. Goes(all)
  <2> HIDE DEF Goes
  <2> QED BY <1>5
<1>7. AdxFrom(dx, start, last, n0) = [i \in 0..(n0 - 1) |-> IF i < last THEN Null ELSE all[i]] 
  BY DEF AdxFrom, Valued
<1> HIDE DEF all, a, n, W, base, Takes
<1>8. all[a] = base /\ \A i \in (a + 1)..n : all[i] = Takes(i, all[i - 1])
  <2>1. a \in a..n /\ \A i \in (a + 1)..n : i \in a..n /\ i # a BY <1>0
  <2> QED BY <1>6, <2>1
<1>9. \A i \in a..n : all[i] \in W
  <2> DEFINE S == {i \in a..n : all[i] \in W}
  <2>1. a \in S BY <1>0, <1>8
  <2>2. ASSUME NEW i \in a..n, i # a, i - 1 \in S PROVE i \in S
    <3>1. i \in (a + 1)..n /\ all[i - 1] \in W BY <1>0, <2>2
    <3> QED BY <1>1, <1>8, <3>1
  <2> HIDE DEF S
  <2>3. \A i \in a..n : i \in S BY <1>0, <2>1, <2>2, UpTo
  <2> QED BY <2>3 DEF S
<1>10. all \in [a..n -> W] BY <1>6, <1>9
<1>11. Smooths(all, dx, start, last, n0)
  <2>1. /\ all \in [last..(n0 - 1) -> Int]
        /\ all[last] = (IF \E k \in start..last : dx[k] = NaN THEN NaN
               ELSE SumOver(Valued(dx), start, last) \div Period)
    BY <1>8, <1>10 DEF a, n, W, base
  <2>2. \A i \in (last + 1)..(n0 - 1) :
          all[i] = (IF NaN \in {all[i - 1], dx[i]} THEN NaN
              ELSE (all[i - 1] * (Period - 1) + Valued(dx)[i]) \div Period)
    BY <1>8 DEF a, n, Takes
  <2> QED BY <2>1, <2>2 DEF Smooths
<1> QED BY <1>7, <1>11 DEF n

LEMMA AdxSame ==
  ASSUME NEW n \in Int, NEW m \in Int, n <= m, NEW start \in Int, NEW last \in Int,
         start <= last, last <= n - 1, NEW dx, NEW dy,
         Indexed(dx, start, n), Indexed(dy, start, m), Alike(dx, dy, start, n)
  PROVE  \A i \in 0..(n - 1) : AdxFrom(dx, start, last, n)[i] = AdxFrom(dy, start, last, m)[i]
<1> USE DEF Alike
<1>0. Period \in Nat \ {0, 1} /\ last <= m - 1 BY BacktestAssumption
<1>1. PICK f : Smooths(f, dx, start, last, n)
               /\ \A i \in 0..(n - 1) : AdxFrom(dx, start, last, n)[i] = IF i < last
                      THEN Null ELSE f[i]
  BY AdxUnfolds
<1>2. PICK g : Smooths(g, dy, start, last, m)
               /\ \A i \in 0..(m - 1) : AdxFrom(dy, start, last, m)[i] = IF i < last
                      THEN Null ELSE g[i]
  BY <1>0, AdxUnfolds
<1>3. \A k \in start..(n - 1) : Valued(dx)[k] = Valued(dy)[k] /\ Valued(dx)[k] \in Int
  <2>1. \A k \in start..(n - 1) : k \in start..(m - 1) OBVIOUS
  <2> QED BY <2>1 DEF Valued, Indexed
<1> DEFINE c == n - 1
<1> DEFINE S == {i \in last..c : f[i] = g[i]}
<1>4. last \in S
  <2>1. \A k \in start..last : k \in start..c OBVIOUS
  <2>2. SumOver(Valued(dx), start, last) = SumOver(Valued(dy), start, last)
    <3>1. start - 1 <= last OBVIOUS
    <3>2. \A k \in start..last : Valued(dx)[k] \in Int /\ Valued(dx)[k] = Valued(dy)[k]
      BY <1>3, <2>1
    <3> QED BY <3>1, <3>2, SumSame
  <2>3. (\E k \in start..last : dx[k] = NaN) <=> (\E k \in start..last : dy[k] = NaN) BY <2>1
  <2>4. f[last] = g[last] BY <1>1, <1>2, <2>2, <2>3 DEF Smooths
  <2> QED BY <2>4
<1>5. ASSUME NEW i \in last..c, i # last, i - 1 \in S PROVE i \in S
  <2>1. i \in (last + 1)..(n - 1) /\ i \in (last + 1)..(m - 1) /\ i \in start..(n - 1) BY <1>5
  <2>2. f[i] = IF NaN \in {f[i - 1], dx[i]} THEN NaN
               ELSE (f[i - 1] * (Period - 1) + Valued(dx)[i]) \div Period
    BY <1>1, <2>1 DEF Smooths
  <2>3. g[i] = IF NaN \in {g[i - 1], dy[i]} THEN NaN
               ELSE (g[i - 1] * (Period - 1) + Valued(dy)[i]) \div Period
    BY <1>2, <2>1 DEF Smooths
  <2>4. f[i - 1] = g[i - 1] /\ dx[i] = dy[i] /\ Valued(dx)[i] = Valued(dy)[i] BY <1>3, <1>5, <2>1
  <2>5. f[i] = g[i] BY <2>2, <2>3, <2>4
  <2> QED BY <2>5
<1>6. \A i \in last..c : i \in S
  <2>1. c \in Int OBVIOUS
  <2> HIDE DEF S, c
  <2> QED BY <1>4, <1>5, <2>1, UpTo
<1> SUFFICES ASSUME NEW i \in 0..(n - 1)
             PROVE  AdxFrom(dx, start, last, n)[i] = AdxFrom(dy, start, last, m)[i]
  OBVIOUS
<1>7. ~(i < last) => f[i] = g[i] BY <1>6
<1>8. i \in 0..(m - 1) OBVIOUS
<1> QED BY <1>1, <1>2, <1>7, <1>8

LEMMA SmoothedGoesOn ==
  ASSUME NEW n \in Nat, NEW m \in Nat, n <= m,
         NEW dx \in [Period..(n - 1) -> Int], NEW dy \in [Period..(m - 1) -> Int],
         \A i \in Period..(n - 1) : dx[i] = dy[i]
  PROVE  \A i \in 0..(n - 1) : Smoothed(dx, n)[i] = Smoothed(dy, m)[i]
<1> DEFINE S == {i \in DOMAIN dx : dx[i] # Null}
<1> DEFINE T == {i \in DOMAIN dy : dy[i] # Null}
<1> DEFINE Short(R, l) == l < Period + 2 \/ R = {} \/ Min(R) + Period > l
<1>0. Period \in Nat \ {0, 1} BY BacktestAssumption
<1>1. /\ S \in SUBSET Nat /\ T \in SUBSET Nat
      /\ \A i \in S : i \in T /\ i >= Period /\ i <= n - 1
      /\ \A i \in T : i >= Period /\ i <= m - 1 /\ (i <= n - 1 => i \in S)
  BY <1>0
<1>2. Smoothed(dx, n) = IF Short(S, n) THEN [i \in 0..(n - 1) |-> Null]
                        ELSE AdxFrom(dx, Min(S), Min(S) + Period - 1, n)
  BY DEF Smoothed
<1>3. Smoothed(dy, m) = IF Short(T, m) THEN [i \in 0..(m - 1) |-> Null]
                        ELSE AdxFrom(dy, Min(T), Min(T) + Period - 1, m)
  BY DEF Smoothed
<1> HIDE DEF S, T
<1>4. S # {} => Min(S) \in S /\ \A y \in S : Min(S) <= y BY <1>1, MinIs
<1>5. T # {} => Min(T) \in T /\ \A y \in T : Min(T) <= y BY <1>1, MinIs
<1>6. S # {} => T # {} /\ Min(S) = Min(T)
  <2> SUFFICES ASSUME S # {} PROVE T # {} /\ Min(S) = Min(T) OBVIOUS
  <2>1. Min(S) \in T /\ T # {} BY <1>1, <1>4
  <2>2. Min(T) <= Min(S) /\ Min(T) \in T BY <1>5, <2>1
  <2>3. Min(S) \in Nat /\ Min(T) \in Nat /\ Min(S) <= n - 1 BY <1>1, <1>4, <2>2
  <2>4. Min(T) \in S BY <1>1, <2>2, <2>3
  <2>5. Min(S) <= Min(T) BY <1>4, <2>4
  <2> QED BY <2>1, <2>2, <2>3, <2>5
<1>7. CASE ~Short(S, n)
  <2> DEFINE start == Min(S)
  <2> DEFINE last == start + Period - 1
  <2>1. S # {} /\ start = Min(T) /\ start \in S /\ T # {} /\ start + Period <= n
    <3>1. S # {} BY <1>7
    <3>2. Min(S) \in Nat BY <1>1, <1>4, <3>1
    <3> QED BY <1>0, <1>4, <1>6, <1>7, <3>1, <3>2
  <2>2. start \in Nat /\ start >= Period BY <1>1, <2>1
  <2>3. ~Short(T, m) /\ Short(S, n) = FALSE
    <3>1. n >= Period + 2 BY <1>0, <1>7
    <3> QED BY <1>0, <1>7, <2>1, <2>2, <3>1
  <2>4. Smoothed(dx, n) = AdxFrom(dx, start, last, n) /\ Smoothed(dy, m) = AdxFrom(dy, start, last, m)
    BY <1>2, <1>3, <2>1, <2>3
  <2>5. /\ last \in Int /\ start \in Int /\ start <= last /\ last <= n - 1
        /\ n \in Int /\ m \in Int
    BY <1>0, <2>1, <2>2
  <2>6. Indexed(dx, start, n) BY <1>0, <2>2 DEF Indexed
  <2>7. Indexed(dy, start, m) BY <1>0, <2>2 DEF Indexed
  <2>9. Alike(dx, dy, start, n) BY <1>0, <2>2 DEF Alike
  <2>10. n <= m OBVIOUS
  <2> HIDE DEF start, last
  <2>8. \A i \in 0..(n - 1) : AdxFrom(dx, start, last, n)[i] = AdxFrom(dy, start, last, m)[i]
    BY <2>5, <2>6, <2>7, <2>9, <2>10, AdxSame
  <2> QED BY <2>4, <2>8
<1>8. CASE Short(S, n)
  <2> SUFFICES ASSUME NEW i \in 0..(n - 1) PROVE Smoothed(dy, m)[i] = Null BY <1>2, <1>8
  <2>1. i \in 0..(m - 1) OBVIOUS
  <2>2. CASE Short(T, m) BY <1>3, <2>1, <2>2
  <2>3. CASE ~Short(T, m)
    <3> DEFINE start == Min(T)
    <3> DEFINE last == start + Period - 1
    <3>1. T # {} BY <2>3
    <3>2. start \in T /\ start \in Nat /\ start >= Period BY <1>1, <1>5, <3>1
    <3>3. start + Period <= m BY <1>0, <2>3, <3>2
    <3>4. n <= last
      <4>1. CASE n < Period + 2 BY <1>0, <3>2, <4>1
      <4>2. CASE S = {}
        <5>1. ~(start <= n - 1) BY <1>1, <3>2, <4>2
        <5> QED BY <1>0, <3>2, <5>1
      <4>3. CASE S # {} /\ Min(S) + Period > n BY <1>0, <1>6, <3>2, <4>3
      <4> QED BY <1>8, <4>1, <4>2, <4>3
    <3>5. Smoothed(dy, m) = AdxFrom(dy, start, last, m) BY <1>3, <2>3
    <3>6. /\ last \in Int /\ start \in Int /\ start <= last /\ last <= m - 1
          /\ m \in Int /\ n \in Int
      BY <1>0, <3>2, <3>3
    <3>7. Indexed(dy, start, m) BY <1>0, <3>2 DEF Indexed
    <3>8. i < last BY <3>4, <3>6
    <3> HIDE DEF start, last
    <3>9. PICK f : \A j \in 0..(m - 1) : AdxFrom(dy, start, last, m)[j] = IF j < last
              THEN Null ELSE f[j]
      BY <3>2, <3>6, <3>7, AdxUnfolds
    <3> QED BY <2>1, <3>5, <3>8, <3>9
  <2> QED BY <2>2, <2>3
<1> QED BY <1>7, <1>8

LEMMA AdxGoesOn ==
  ASSUME NEW cs, NEW ds, GoesOn(cs, ds), NEW i \in Bars(cs)
  PROVE  ADX(ds)[i] = ADX(cs)[i]
<1> DEFINE n == Len(cs)
<1> DEFINE m == Len(ds)
<1>0. n \in Nat /\ m \in Nat /\ n <= m /\ i \in 0..(n - 1) BY DEF GoesOn, Bars
<1>1. DX(cs) \in [Period..(n - 1) -> Int] /\ \A k \in Period..(n - 1) : DX(ds)[k] = DX(cs)[k]
  BY DxGoesOn
<1>2. GoesOn(ds, ds) BY <1>0 DEF GoesOn
<1>3. DX(ds) \in [Period..(m - 1) -> Int] BY <1>2, DxGoesOn
<1> HIDE DEF n, m
<1>4. Smoothed(DX(cs), n)[i] = Smoothed(DX(ds), m)[i] BY <1>0, <1>1, <1>3, SmoothedGoesOn
<1> QED BY <1>4 DEF ADX, n, m

\* t begins with s.
Begins(s, t) == Len(s) <= Len(t) /\ \A k \in 1..Len(s) : t[k] = s[k]

LEMMA BeginsIsPrefix ==
  ASSUME NEW T, NEW s \in Seq(T), NEW t \in Seq(T), Begins(s, t)
  PROVE  IsPrefix(s, t)
<1>1. Len(s) \in Nat /\ Len(t) \in Nat /\ Len(s) <= Len(t) BY DEF Begins
<1>2. SubSeq(s, 1, Len(s)) = [k \in 1..Len(s) |-> s[k]] OBVIOUS
<1>3. SubSeq(t, 1, Len(s)) = [k \in 1..Len(s) |-> t[k]] BY <1>1
<1>4. SubSeq(s, 1, Len(s)) = SubSeq(t, 1, Len(s)) BY <1>2, <1>3 DEF Begins
<1> QED BY <1>1, <1>4 DEF IsPrefix

LEMMA BarOnlyAdds ==
  ASSUME NEW b \in Books, NEW i \in Nat, NEW bar \in CandleKinds, NEW r \in Int, NEW a \in Int
  PROVE  Begins(b.trades, OnBar(b, i, bar, r, a).trades)
<1> DEFINE x == OnBar(b, i, bar, r, a)
<1>1. x \in Books /\ (Entered(b, x, i, a) \/ Left(b, x, i) \/ Stays(b, x)) BY OnBarDoes
<1> HIDE DEF x
<1>2. b.trades \in Seq(Trades) BY DEF Books
<1>3. x.trades = b.trades \/ \E t : x.trades = Append(b.trades, t)
  BY <1>1 DEF Entered, Left, Stays
<1>4. Begins(b.trades, x.trades)
  <2>1. CASE x.trades = b.trades BY <1>2, <2>1 DEF Begins
  <2>2. ASSUME NEW t, x.trades = Append(b.trades, t) PROVE Begins(b.trades, x.trades)
    <3>1. Len(x.trades) = Len(b.trades) + 1 /\ \A k \in 1..Len(b.trades) : x.trades[k] = b.trades[k]
      BY <1>2, <2>2
    <3>2. Len(b.trades) \in Nat BY <1>2
    <3> QED BY <3>1, <3>2 DEF Begins
  <2> QED BY <1>3, <2>1, <2>2
<1> QED BY <1>4 DEF x

LEMMA EngineGoesOn ==
  ASSUME NEW cs, NEW ds, GoesOn(cs, ds), cs # <<>>, NEW r, NEW a, NEW r2, NEW a2,
         \A i \in Bars(cs) : r[i] \in Int /\ a[i] \in Int /\ r2[i] = r[i] /\ a2[i] = a[i],
         \A i \in Bars(ds) : r2[i] \in Int /\ a2[i] \in Int
  PROVE  Begins(Engine(cs, r, a).trades, Engine(ds, r2, a2).trades)
<1> DEFINE n == Len(cs) - 1
<1> DEFINE m == Len(ds) - 1
<1>0. /\ cs \in Seq(CandleKinds) /\ ds \in Seq(CandleKinds) /\ ds # <<>> /\ n \in Nat /\ m \in Nat
      /\ n <= m /\ Bars(cs) = 0..n /\ Bars(ds) = 0..m /\ 0 \in Int /\ 0 \in 0..n
      /\ n \in Int /\ m \in Int
  <2>1. Len(cs) \in Nat \ {0} /\ Len(ds) \in Nat /\ Len(cs) <= Len(ds) BY EmptySeq DEF GoesOn
  <2> QED BY <2>1 DEF GoesOn, Bars
<1>1. PICK f : Runs(f, cs, r, a) /\ Engine(cs, r, a) = f[Len(cs) - 1] BY <1>0, EngineUnfolds
<1>2. PICK g : Runs(g, ds, r2, a2) /\ Engine(ds, r2, a2) = g[Len(ds) - 1] BY <1>0, EngineUnfolds
<1> HIDE DEF n, m
<1>3. /\ f \in [0..n -> Books] /\ f[0] = NoTrades /\ g \in [0..m -> Books] /\ g[0] = NoTrades
      /\ \A i \in 1..n : f[i] = IF Usable(r[i]) /\ Usable(a[i])
                                THEN OnBar(f[i - 1], i, Bar(cs, i), r[i], a[i]) ELSE f[i - 1]
      /\ \A i \in 1..m : g[i] = IF Usable(r2[i]) /\ Usable(a2[i])
                                THEN OnBar(g[i - 1], i, Bar(ds, i), r2[i], a2[i]) ELSE g[i - 1]
  BY <1>1, <1>2 DEF Runs, n, m
<1> DEFINE S == {i \in 0..n : f[i] = g[i]}
<1>4. 0 \in S BY <1>0, <1>3
<1>5. ASSUME NEW i \in 0..n, i # 0, i - 1 \in S PROVE i \in S
  <2>1. i \in 1..n /\ i \in 1..m BY <1>0, <1>5
  <2>2. Bar(ds, i) = Bar(cs, i) /\ r2[i] = r[i] /\ a2[i] = a[i]
    <3>1. i \in Bars(cs) BY <1>0
    <3> QED BY <3>1, BarsGoOn
  <2>3. f[i - 1] = g[i - 1] BY <1>5
  <2>4. f[i] = g[i] BY <1>3, <2>1, <2>2, <2>3
  <2> QED BY <2>4
<1>6. \A i \in 0..n : i \in S
  <2> HIDE DEF S
  <2> QED BY <1>0, <1>4, <1>5, UpTo
<1>7. f[n] = g[n]
  <2>1. n \in 0..n BY <1>0
  <2> QED BY <1>6, <2>1
<1> DEFINE R == {i \in n..m : Begins(f[n].trades, g[i].trades)}
<1>8. n \in R
  <2>1. n \in n..m /\ n \in 0..n BY <1>0
  <2>2. Len(f[n].trades) \in Nat BY <1>3, <2>1 DEF Books
  <2>3. Begins(f[n].trades, g[n].trades) BY <1>7, <2>2 DEF Begins
  <2> QED BY <2>1, <2>3
<1>9. ASSUME NEW i \in n..m, i # n, i - 1 \in R PROVE i \in R
  <2>1. i \in 1..m /\ i - 1 \in 0..m /\ i \in Nat /\ n \in 0..n BY <1>0, <1>9
  <2>2. g[i - 1] \in Books /\ r2[i] \in Int /\ a2[i] \in Int /\ Bar(ds, i) \in CandleKinds
    <3>1. i \in Bars(ds) BY <1>0, <2>1
    <3> QED BY <1>0, <1>3, <2>1, <3>1, CandleIs
  <2>3. g[i] = g[i - 1] \/ g[i] = OnBar(g[i - 1], i, Bar(ds, i), r2[i], a2[i]) BY <1>3, <2>1
  <2>4. Begins(g[i - 1].trades, g[i].trades)
    <3>1. CASE g[i] = g[i - 1]
      <4>1. Len(g[i - 1].trades) \in Nat BY <2>2 DEF Books
      <4> QED BY <3>1, <4>1 DEF Begins
    <3>2. CASE g[i] = OnBar(g[i - 1], i, Bar(ds, i), r2[i], a2[i]) BY <2>1, <2>2, <3>2, BarOnlyAdds
    <3> QED BY <2>3, <3>1, <3>2
  <2>5. Begins(f[n].trades, g[i].trades)
    <3> DEFINE s == f[n].trades
    <3> DEFINE t == g[i - 1].trades
    <3> DEFINE u == g[i].trades
    <3>1. Len(s) \in Nat /\ Len(t) \in Nat /\ Len(u) \in Nat BY <1>3, <2>1 DEF Books
    <3>2. Begins(s, t) /\ Begins(t, u) BY <1>9, <2>4
    <3> HIDE DEF s, t, u
    <3>3. Begins(s, u) BY <3>1, <3>2 DEF Begins
    <3> QED BY <3>3 DEF s, u
  <2> QED BY <2>5
<1>10. \A i \in n..m : i \in R
  <2> HIDE DEF R
  <2> QED BY <1>0, <1>8, <1>9, UpTo
<1>11. Begins(f[n].trades, g[m].trades)
  <2>1. m \in n..m BY <1>0
  <2> QED BY <1>10, <2>1
<1> QED BY <1>1, <1>2, <1>11 DEF n, m

LEMMA RsiMaskedIs ==
  ASSUME NEW cs \in Seq(CandleKinds), NEW i \in Bars(cs)
  PROVE  /\ RsiMasked(cs)[i] = IF ADX(cs)[i] = Null \/ ADX(cs)[i] >= AdxMin
                               THEN RSI(cs)[i] ELSE Null
         /\ RsiMasked(cs)[i] \in Int
<1>1. Null \in Int BY DEF Null
<1>2. RSI(cs)[i] \in Int BY <1>1, RsiIs
<1>3. DOMAIN RSI(cs) = Bars(cs) BY DEF RSI
<1> QED BY <1>1, <1>2, <1>3 DEF RsiMasked, Mask

LEMMA TradesGoOn ==
  ASSUME NEW cs, NEW ds, GoesOn(cs, ds)
  PROVE  IsPrefix(RunBacktest(cs).trades, RunBacktest(ds).trades)
<1>0. cs \in Seq(CandleKinds) /\ ds \in Seq(CandleKinds) BY DEF GoesOn
<1>1. RunBacktest(<<>>).trades = <<>> BY DEF RunBacktest, Engine, NoTrades, Flat
<1>2. \A s \in Seq(CandleKinds) : RunBacktest(s).trades \in Seq(Trades)
  <2>1. <<>> \in Seq(Trades) OBVIOUS
  <2> QED BY <1>1, <2>1, RunIs DEF BookIs, Books
<1>3. CASE cs = <<>>
  <2>1. Begins(<<>>, RunBacktest(ds).trades)
    <3>1. Len(<<>>) = 0 /\ Len(RunBacktest(ds).trades) \in Nat BY <1>0, <1>2
    <3> QED BY <3>1 DEF Begins
  <2>2. <<>> \in Seq(Trades) OBVIOUS
  <2> QED BY <1>0, <1>1, <1>2, <1>3, <2>1, <2>2, BeginsIsPrefix
<1>4. CASE cs # <<>>
  <2>1. ASSUME NEW i \in Bars(cs)
        PROVE  /\ RsiMasked(cs)[i] \in Int /\ ATR(cs)[i] \in Int
               /\ RsiMasked(ds)[i] = RsiMasked(cs)[i] /\ ATR(ds)[i] = ATR(cs)[i]
    <3>1. i \in Bars(ds) BY BarsGoOn
    <3>2. RSI(ds)[i] = RSI(cs)[i] /\ ADX(ds)[i] = ADX(cs)[i] /\ ATR(ds)[i] = ATR(cs)[i]
      BY RsiGoesOn, AdxGoesOn, AtrGoesOn
    <3>3. /\ RsiMasked(cs)[i] \in Int
          /\ RsiMasked(cs)[i] = IF ADX(cs)[i] = Null \/ ADX(cs)[i] >= AdxMin
                                THEN RSI(cs)[i] ELSE Null
      BY <1>0, RsiMaskedIs
    <3>4. RsiMasked(ds)[i] = IF ADX(ds)[i] = Null \/ ADX(ds)[i] >= AdxMin
                             THEN RSI(ds)[i] ELSE Null
      BY <1>0, <3>1, RsiMaskedIs
    <3>5. ATR(cs)[i] \in Int BY <1>0, AtrIs DEF Null
    <3> QED BY <3>2, <3>3, <3>4, <3>5
  <2>2. \A i \in Bars(ds) : RsiMasked(ds)[i] \in Int /\ ATR(ds)[i] \in Int
    BY <1>0, RsiMaskedIs, AtrIs DEF Null
  <2>3. Begins(RunBacktest(cs).trades, RunBacktest(ds).trades)
    BY <1>4, <2>1, <2>2, EngineGoesOn DEF RunBacktest
  <2> QED BY <1>0, <1>2, <2>3, BeginsIsPrefix
<1> QED BY <1>3, <1>4

(* No candle that comes later changes an indicator of an earlier one, or a   *)
(* trade that the engine has made, whatever the candles (indicators.js,      *)
(* engine.js): the backtest trades on nothing it could not have known.       *)
THEOREM NothingLooksAhead == BacktestSpec => NoLookAhead
<1>1. ASSUME series \in Seq(CandleKinds), NextCandle PROVE KeepsComputed
  <2>1. PICK k \in CandleKinds : series' = Append(series, k) BY <1>1 DEF NextCandle
  <2>2. GoesOn(series, series') BY <1>1, <2>1 DEF GoesOn
  <2>3. \A i \in Bars(series) :
          /\ RSI(series')[i] = RSI(series)[i] /\ ATR(series')[i] = ATR(series)[i]
          /\ EMA(series')[i] = EMA(series)[i] /\ ADX(series')[i] = ADX(series)[i]
    BY <2>2, RsiGoesOn, AtrGoesOn, EmaGoesOn, AdxGoesOn
  <2>4. IsPrefix(RunBacktest(series).trades, RunBacktest(series').trades) BY <2>2, TradesGoOn
  <2> QED BY <2>3, <2>4 DEF KeepsComputed
<1>2. series \in Seq(CandleKinds) /\ [NextCandle]_series => [KeepsComputed]_series BY <1>1
<1> QED BY <1>2, SeriesHolds, PTL DEF BacktestSpec, NoLookAhead

-----------------------------------------------------------------------------
(* What looks at the last candles only.                                     *)

\* From a to b, f is g moved by o.
Moved(f, g, a, b, o) == \A i \in a..b : f[i] \in Int /\ g[i - o] = f[i]

LEMMA SumShift ==
  ASSUME NEW a \in Int, NEW b \in Int, a - 1 <= b, NEW o \in Int, NEW f, NEW g,
         Moved(f, g, a, b, o)
  PROVE  SumOver(f, a, b) = SumOver(g, a - o, b - o)
<1> DEFINE z == a - 1
<1> DEFINE S == {i \in z..b : SumOver(f, a, i) = SumOver(g, a - o, i - o)}
<1>1. z \in Int /\ z <= b /\ z \in z..b OBVIOUS
<1>m. \A i \in a..b : f[i] \in Int /\ g[i - o] = f[i] BY DEF Moved
<1>2. z \in S
  <2> DEFINE c == a - o
  <2>1. c \in Int /\ z - o = c - 1 OBVIOUS
  <2> HIDE DEF c
  <2>2. SumOver(g, c, c - 1) = 0 BY <2>1, SumOfNone
  <2>3. SumOver(f, a, z) = 0 BY SumOfNone
  <2>4. SumOver(f, a, z) = SumOver(g, c, z - o) BY <2>1, <2>2, <2>3
  <2> HIDE DEF z
  <2> QED BY <1>1, <2>4 DEF c
<1>3. ASSUME NEW i \in z..b, i # z, i - 1 \in S PROVE i \in S
  <2> DEFINE c == a - o
  <2> DEFINE j == i - o
  <2>1. /\ i \in Int /\ a <= i /\ c \in Int /\ j \in Int /\ c <= j /\ (i - 1) - o = j - 1
        /\ i \in a..b
    BY <1>3
  <2>2. \A k \in a..i : f[k] \in Int BY <1>m, <1>3
  <2>3. \A k \in c..j : g[k] \in Int
    <3> SUFFICES ASSUME NEW k \in c..j PROVE g[k] \in Int OBVIOUS
    <3>1. k + o \in a..b /\ (k + o) - o = k BY <1>3
    <3> QED BY <1>m, <3>1
  <2>4. SumOver(f, a, i - 1) = SumOver(g, c, (i - 1) - o) BY <1>3
  <2>5. f[i] = g[j] BY <1>m, <2>1
  <2> HIDE DEF c, j, z
  <2>6. SumOver(f, a, i) = SumOver(f, a, i - 1) + f[i] BY <2>1, <2>2, SumPrefix
  <2>7. SumOver(g, c, j) = SumOver(g, c, j - 1) + g[j] BY <2>1, <2>3, SumPrefix
  <2>8. SumOver(f, a, i) = SumOver(g, c, j) BY <2>1, <2>4, <2>5, <2>6, <2>7
  <2> QED BY <1>3, <2>8 DEF c, j
<1>4. \A i \in z..b : i \in S
  <2> HIDE DEF S, z
  <2> QED BY <1>1, <1>2, <1>3, UpTo
<1>5. b \in S BY <1>1, <1>4
<1> QED BY <1>5

\* w is what follows the first o candles of cs.
Ends(cs, w, o) ==
  /\ cs \in Seq(CandleKinds) /\ w \in Seq(CandleKinds) /\ o \in Nat /\ Len(cs) = Len(w) + o
  /\ \A j \in 1..Len(w) : w[j] = cs[j + o]

LEMMA BarsShift ==
  ASSUME NEW cs, NEW w, NEW o, Ends(cs, w, o)
  PROVE  /\ \A i \in Bars(w) : i + o \in Bars(cs) /\ Bar(w, i) = Bar(cs, i + o)
         /\ \A i \in 1..(Len(w) - 1) :
              Diff(w, i) = Diff(cs, i + o) /\ TrueRange(w, i) = TrueRange(cs, i + o)
<1>0. Len(cs) \in Nat /\ Len(w) \in Nat /\ o \in Nat /\ Len(cs) = Len(w) + o BY DEF Ends
<1>1. \A i \in Bars(w) : i + o \in Bars(cs) /\ Bar(w, i) = Bar(cs, i + o)
  <2> SUFFICES ASSUME NEW i \in Bars(w) PROVE i + o \in Bars(cs) /\ Bar(w, i) = Bar(cs, i + o)
    OBVIOUS
  <2>1. i + 1 \in 1..Len(w) /\ i + o \in 0..(Len(cs) - 1) /\ (i + 1) + o = (i + o) + 1
    BY <1>0 DEF Bars
  <2> QED BY <2>1 DEF Ends, Bar, Bars
<1>2. ASSUME NEW i \in 1..(Len(w) - 1)
      PROVE  Diff(w, i) = Diff(cs, i + o) /\ TrueRange(w, i) = TrueRange(cs, i + o)
  <2>1. i \in Bars(w) /\ i - 1 \in Bars(w) /\ (i - 1) + o = (i + o) - 1 BY <1>0 DEF Bars
  <2>2. Bar(w, i) = Bar(cs, i + o) /\ Bar(w, i - 1) = Bar(cs, (i + o) - 1) BY <1>1, <2>1
  <2> QED BY <2>2 DEF Diff, TrueRange
<1> QED BY <1>1, <1>2

LEMMA LastRsiAtrShift ==
  ASSUME NEW cs, NEW w, NEW o, Ends(cs, w, o), Len(w) > Period
  PROVE  LastRsi(w) = LastRsi(cs) /\ LastAtr(w) = LastAtr(cs)
<1> DEFINE n == Len(cs) - 1
<1> DEFINE m == Len(w) - 1
<1> DEFINE a == (n - Period) + 1
<1> DEFINE c == (m - Period) + 1
<1> DEFINE up == [i \in 1..n |-> MaxOf(Diff(cs, i), 0)]
<1> DEFINE up2 == [i \in 1..m |-> MaxOf(Diff(w, i), 0)]
<1> DEFINE down == [i \in 1..n |-> MaxOf(-Diff(cs, i), 0)]
<1> DEFINE down2 == [i \in 1..m |-> MaxOf(-Diff(w, i), 0)]
<1> DEFINE tr == [i \in 1..n |-> TrueRange(cs, i)]
<1> DEFINE tr2 == [i \in 1..m |-> TrueRange(w, i)]
<1>p. Period \in Nat \ {0, 1} BY BacktestAssumption
<1>0. /\ cs \in Seq(CandleKinds) /\ w \in Seq(CandleKinds) /\ o \in Int /\ Period \in Nat \ {0, 1}
      /\ n \in Int /\ m \in Int /\ m = n - o /\ c = a - o /\ a \in Int /\ c \in Nat \ {0}
      /\ a - 1 <= n
  <2>1. /\ cs \in Seq(CandleKinds) /\ w \in Seq(CandleKinds) /\ o \in Nat
        /\ Len(cs) \in Nat /\ Len(w) \in Nat /\ Len(cs) = Len(w) + o BY DEF Ends
  <2> QED BY <1>p, <2>1
<1>1. ASSUME NEW i \in a..n
      PROVE  /\ i \in 1..n /\ i - o \in 1..m
             /\ Diff(w, i - o) = Diff(cs, i) /\ TrueRange(w, i - o) = TrueRange(cs, i)
  <2>1. i \in 1..n /\ i - o \in 1..m /\ (i - o) + o = i
    <3>1. o \in Nat BY DEF Ends
    <3> QED BY <1>0, <3>1
  <2> QED BY <2>1, BarsShift
<1>2. n - Period + 1 = a /\ m - Period + 1 = c BY <1>0
<1>3. Moved(up, up2, a, n, o) BY <1>0, <1>1, DiffIs DEF Moved
<1>4. Moved(down, down2, a, n, o) BY <1>0, <1>1, DiffIs DEF Moved
<1>5. Moved(tr, tr2, a, n, o) BY <1>0, <1>1, MovesAre DEF Moved
<1> HIDE DEF n, m, a, c, up, up2, down, down2, tr, tr2
<1>6. SumOver(up, a, n) = SumOver(up2, c, m)
  <2>1. SumOver(up, a, n) = SumOver(up2, a - o, n - o) BY <1>0, <1>3, SumShift
  <2> QED BY <1>0, <2>1
<1>7. SumOver(down, a, n) = SumOver(down2, c, m)
  <2>1. SumOver(down, a, n) = SumOver(down2, a - o, n - o) BY <1>0, <1>4, SumShift
  <2> QED BY <1>0, <2>1
<1>8. SumOver(tr, a, n) = SumOver(tr2, c, m)
  <2>1. SumOver(tr, a, n) = SumOver(tr2, a - o, n - o) BY <1>0, <1>5, SumShift
  <2> QED BY <1>0, <2>1
<1>9. LastAtr(cs) = (Scale * SumOver(tr, a, n)) \div Period BY <1>2 DEF LastAtr, n, tr
<1>10. LastAtr(w) = (Scale * SumOver(tr2, c, m)) \div Period BY <1>2 DEF LastAtr, m, tr2
<1> DEFINE R(g, l) == IF l = 0 THEN IF g = 0 THEN 0 ELSE 100 ELSE (100 * g) \div (g + l)
<1>11. LastRsi(cs) = R(SumOver(up, a, n), SumOver(down, a, n))
  BY <1>2 DEF LastRsi, n, up, down
<1>12. LastRsi(w) = R(SumOver(up2, c, m), SumOver(down2, c, m))
  BY <1>2 DEF LastRsi, m, up2, down2
<1> HIDE DEF R
<1> QED BY <1>6, <1>7, <1>8, <1>9, <1>10, <1>11, <1>12

Lately(f, cs, p0) ==
  /\ f \in [(Len(cs) - p0)..(Len(cs) - 1) -> Int]
  /\ f[(Len(cs) - p0)] = MeanClose(cs, Len(cs) - p0, Len(cs) - 1)
  /\ \A i \in ((Len(cs) - p0) + 1)..(Len(cs) - 1) :
       f[i] = (2 * Scale * Bar(cs, i).close + f[i - 1] * (p0 - 1)) \div (p0 + 1)

LEMMA LastEmaUnfolds ==
  ASSUME NEW cs \in Seq(CandleKinds), NEW p0 \in Nat \ {0}, p0 <= Len(cs)
  PROVE  \E f : Lately(f, cs, p0) /\ LastEma(cs, p0) = f[Len(cs) - 1]
<1> DEFINE W == Int
<1> DEFINE a == (Len(cs) - p0)
<1> DEFINE n == Len(cs) - 1
<1> DEFINE base == MeanClose(cs, Len(cs) - p0, Len(cs) - 1)
<1> DEFINE Takes(i, x) == (2 * Scale * Bar(cs, i).close + x * (p0 - 1)) \div (p0 + 1)
<1> DEFINE step == [p \in Int \X W |-> IF p[1] \in (a + 1)..n THEN Takes(p[1], p[2]) ELSE p[2]]
<1> DEFINE Goes(h) == h = [i \in a..n |-> IF i = a THEN base ELSE Takes(i, h[i - 1])]
<1>0. a \in Int /\ n \in Int /\ a <= n /\ base \in W
  <2>1. Len(cs) \in Nat OBVIOUS
  <2>2. a \in Nat /\ n \in 0..(Len(cs) - 1) /\ a <= n BY <2>1
  <2> HIDE DEF a, n
  <2>3. MeanClose(cs, a, n) \in Int BY <2>2, MeanCloseIs
  <2> QED BY <2>2, <2>3 DEF a, n
<1>1. ASSUME NEW i \in (a + 1)..n, NEW x \in W PROVE Takes(i, x) \in W
  <2>1. i \in Bars(cs) BY <1>0 DEF Bars
  <2>2. Bar(cs, i).close \in Int BY <2>1, CandleIs
  <2>3. x * (p0 - 1) \in Int /\ 2 * Scale * Bar(cs, i).close \in Int BY <2>2 DEF Scale
  <2> DEFINE y == x * (p0 - 1)
  <2> DEFINE z == 2 * Scale * Bar(cs, i).close
  <2> HIDE DEF y, z
  <2>4. (z + y) \div (p0 + 1) \in Int BY <2>3 DEF y, z
  <2> QED BY <2>4 DEF y, z
<1>2. step \in [Int \X W -> W]
  <2> HIDE DEF Takes, W, a, n
  <2> QED BY <1>1
<1>3. PICK g : Recurs(g, a, n, W, base, step)
  <2> HIDE DEF step, W, a, n, base
  <2> QED BY <1>0, <1>2, Recursion
<1>4. ASSUME NEW i \in a..n PROVE g[i] = IF i = a THEN base ELSE Takes(i, g[i - 1])
  <2>1. g[i] = IF i = a THEN base ELSE step[<<i, g[i - 1]>>]
    <3> HIDE DEF step, W, a, n, base
    <3> QED BY <1>3 DEF Recurs
  <2>2. CASE i # a
    <3> HIDE DEF Takes, W, a, n, base
    <3>1. i - 1 \in a..n /\ i \in (a + 1)..n /\ i \in Int BY <1>0, <2>2
    <3>2. g[i - 1] \in W BY <1>3, <3>1 DEF Recurs
    <3>3. step[<<i, g[i - 1]>>] = Takes(i, g[i - 1]) BY <3>1, <3>2
    <3> HIDE DEF step
    <3> QED BY <2>1, <2>2, <3>3
  <2> HIDE DEF Takes, step, W, a, n, base
  <2> QED BY <2>1, <2>2
<1>5. Goes(g)
  <2> HIDE DEF W, Takes, step, a, n, base
  <2> QED BY <1>3, <1>4 DEF Recurs
<1> DEFINE all == CHOOSE h : Goes(h)
<1>6. Goes(all)
  <2> HIDE DEF Goes
  <2> QED BY <1>5
<1>7. LastEma(cs, p0) = all[n] BY DEF LastEma
<1> HIDE DEF all, a, n, W, base, Takes
<1>8. all[a] = base /\ \A i \in (a + 1)..n : all[i] = Takes(i, all[i - 1])
  <2>1. a \in a..n /\ \A i \in (a + 1)..n : i \in a..n /\ i # a BY <1>0
  <2> QED BY <1>6, <2>1
<1>9. \A i \in a..n : all[i] \in W
  <2> DEFINE S == {i \in a..n : all[i] \in W}
  <2>1. a \in S BY <1>0, <1>8
  <2>2. ASSUME NEW i \in a..n, i # a, i - 1 \in S PROVE i \in S
    <3>1. i \in (a + 1)..n /\ all[i - 1] \in W BY <1>0, <2>2
    <3> QED BY <1>1, <1>8, <3>1
  <2> HIDE DEF S
  <2>3. \A i \in a..n : i \in S BY <1>0, <2>1, <2>2, UpTo
  <2> QED BY <2>3 DEF S
<1>10. all \in [a..n -> W] BY <1>6, <1>9
<1>11. Lately(all, cs, p0)
  <2>1. /\ all \in [(Len(cs) - p0)..(Len(cs) - 1) -> Int]
        /\ all[(Len(cs) - p0)] = MeanClose(cs, Len(cs) - p0, Len(cs) - 1)
    BY <1>8, <1>10 DEF a, n, W, base
  <2>2. \A i \in ((Len(cs) - p0) + 1)..(Len(cs) - 1) :
          all[i] = (2 * Scale * Bar(cs, i).close + all[i - 1] * (p0 - 1)) \div (p0 + 1)
    BY <1>8 DEF a, n, Takes
  <2> QED BY <2>1, <2>2 DEF Lately
<1> QED BY <1>7, <1>11 DEF n

LEMMA LastEmaShift ==
  ASSUME NEW cs, NEW w, NEW o, Ends(cs, w, o), NEW p \in Nat \ {0}, p <= Len(w)
  PROVE  LastEma(w, p) = LastEma(cs, p)
<1> DEFINE n == Len(cs) - 1
<1> DEFINE m == Len(w) - 1
<1> DEFINE a == Len(cs) - p
<1> DEFINE c == Len(w) - p
<1>0. /\ cs \in Seq(CandleKinds) /\ w \in Seq(CandleKinds) /\ o \in Nat /\ o \in Int /\ p <= Len(cs)
      /\ n \in Int /\ m \in Int /\ m = n - o /\ c = a - o /\ a \in Int /\ c \in Nat /\ a - 1 <= n
      /\ a <= n /\ Bars(w) = 0..m
  BY DEF Ends, Bars
<1>1. PICK f : Lately(f, cs, p) /\ LastEma(cs, p) = f[Len(cs) - 1] BY <1>0, LastEmaUnfolds
<1>2. PICK g : Lately(g, w, p) /\ LastEma(w, p) = g[Len(w) - 1] BY <1>0, LastEmaUnfolds
<1> HIDE DEF n, m, a, c
<1>3. /\ f[a] = MeanClose(cs, a, n) /\ g[c] = MeanClose(w, c, m)
      /\ \A i \in (a + 1)..n :
           f[i] = (2 * Scale * Bar(cs, i).close + f[i - 1] * (p - 1)) \div (p + 1)
      /\ \A i \in (c + 1)..m :
           g[i] = (2 * Scale * Bar(w, i).close + g[i - 1] * (p - 1)) \div (p + 1)
  BY <1>1, <1>2 DEF Lately, n, m, a, c
<1>4. \A i \in a..n : i - o \in Bars(w) /\ Bar(w, i - o) = Bar(cs, i)
  <2> SUFFICES ASSUME NEW i \in a..n PROVE i - o \in Bars(w) /\ Bar(w, i - o) = Bar(cs, i) OBVIOUS
  <2>1. i - o \in 0..m /\ (i - o) + o = i BY <1>0
  <2> QED BY <1>0, <2>1, BarsShift
<1>5. MeanClose(cs, a, n) = MeanClose(w, c, m)
  <2> DEFINE u == [k \in a..n |-> Bar(cs, k).close]
  <2> DEFINE v == [k \in c..m |-> Bar(w, k).close]
  <2>1. Moved(u, v, a, n, o)
    <3> SUFFICES ASSUME NEW i \in a..n PROVE u[i] \in Int /\ v[i - o] = u[i] BY DEF Moved
    <3>1. i - o \in c..m BY <1>0
    <3>2. Bar(w, i - o).close \in Int BY <1>0, <1>4, CandleIs
    <3> QED BY <1>4, <3>1, <3>2
  <2> HIDE DEF u, v
  <2>2. SumOver(u, a, n) = SumOver(v, c, m)
    <3>1. SumOver(u, a, n) = SumOver(v, a - o, n - o) BY <1>0, <2>1, SumShift
    <3> QED BY <1>0, <3>1
  <2>3. n - a + 1 = m - c + 1 BY <1>0
  <2> QED BY <2>2, <2>3 DEF MeanClose, u, v
<1> DEFINE S == {i \in a..n : f[i] = g[i - o]}
<1>6. a \in S BY <1>0, <1>3, <1>5
<1>7. ASSUME NEW i \in a..n, i # a, i - 1 \in S PROVE i \in S
  <2> DEFINE j == i - o
  <2>1. i \in (a + 1)..n /\ j \in (c + 1)..m /\ (i - 1) - o = j - 1 BY <1>0, <1>7
  <2>2. f[i - 1] = g[j - 1] /\ Bar(w, j) = Bar(cs, i) BY <1>4, <1>7, <2>1
  <2>3. f[i] = (2 * Scale * Bar(cs, i).close + f[i - 1] * (p - 1)) \div (p + 1) BY <1>3, <2>1
  <2>4. g[j] = (2 * Scale * Bar(w, j).close + g[j - 1] * (p - 1)) \div (p + 1)
    <3> HIDE DEF j
    <3> QED BY <1>3, <2>1
  <2>5. f[i] = g[j] BY <2>2, <2>3, <2>4
  <2> QED BY <2>5
<1>8. \A i \in a..n : i \in S
  <2> HIDE DEF S
  <2> QED BY <1>0, <1>6, <1>7, UpTo
<1>9. f[n] = g[m]
  <2>1. n \in a..n BY <1>0
  <2> QED BY <1>0, <1>8, <2>1
<1> QED BY <1>1, <1>2, <1>9 DEF n, m

LEMMA LastWindowDecides ==
  ASSUME NEW cs \in Seq(CandleKinds), Len(cs) > Lookback
  PROVE  Evaluate(cs) = Evaluate(SubSeq(cs, Len(cs) - 1 + 2 - Lookback, Len(cs) - 1 + 1))
<1> DEFINE n == Len(cs)
<1> DEFINE l == Lookback
<1> DEFINE o == n - l
<1> DEFINE w == SubSeq(cs, o + 1, n)
<1>0. /\ n \in Nat /\ l \in Nat /\ l >= 3 /\ l > Period /\ l > Slow /\ l > Fast /\ o \in Nat
      /\ Fast \in Nat \ {0} /\ Slow \in Nat \ {0} /\ n = l + o /\ Period \in Nat
  <2>1. Period \in Nat \ {0, 1} /\ Slow \in Nat /\ Fast \in 1..Slow BY BacktestAssumption
  <2> QED BY <2>1 DEF Lookback, MaxOf
<1>1. Len(cs) - 1 + 2 - Lookback = o + 1 /\ Len(cs) - 1 + 1 = n BY <1>0
<1>2. w \in Seq(CandleKinds) /\ Len(w) = l /\ \A j \in 1..l : w[j] = cs[j + o]
  <2>1. o + 1 \in 1..n /\ n \in 1..n /\ o + 1 <= n BY <1>0
  <2>2. w = [j \in 1..l |-> cs[j + o]] BY <1>0, <2>1
  <2>3. \A j \in 1..l : j + o \in 1..n BY <1>0
  <2>4. \A j \in 1..l : cs[j + o] \in CandleKinds BY <2>3
  <2>5. w \in [1..l -> CandleKinds] BY <2>2, <2>4
  <2> HIDE DEF w, l, o
  <2>6. w \in Seq(CandleKinds) /\ Len(w) = l BY <1>0, <2>5
  <2> QED BY <2>2, <2>6
<1> HIDE DEF w
<1>3. Ends(cs, w, o) BY <1>0, <1>2 DEF Ends
<1>4. Evaluate(cs) = Decide(cs[n - 1], cs[n], LastEma(cs, Fast), LastEma(cs, Slow),
                            LastRsi(cs), LastAtr(cs))
  BY <1>0 DEF Evaluate
<1>5. Evaluate(w) = Decide(w[l - 1], w[l], LastEma(w, Fast), LastEma(w, Slow),
                           LastRsi(w), LastAtr(w))
  <2>1. ~(Len(w) < Lookback) BY <1>0, <1>2
  <2> QED BY <1>2, <2>1 DEF Evaluate
<1>6. w[l - 1] = cs[n - 1] /\ w[l] = cs[n]
  <2>1. l - 1 \in 1..l /\ l \in 1..l /\ (l - 1) + o = n - 1 /\ l + o = n BY <1>0
  <2> HIDE DEF l, o, n
  <2> QED BY <1>2, <2>1
<1>7. LastEma(w, Fast) = LastEma(cs, Fast) /\ LastEma(w, Slow) = LastEma(cs, Slow)
  BY <1>0, <1>2, <1>3, LastEmaShift
<1>8. LastRsi(w) = LastRsi(cs) /\ LastAtr(w) = LastAtr(cs) BY <1>0, <1>2, <1>3, LastRsiAtrShift
<1>9. Evaluate(cs) = Evaluate(w) BY <1>4, <1>5, <1>6, <1>7, <1>8
<1> QED BY <1>1, <1>9 DEF w

LEMMA SmoothedIs ==
  ASSUME NEW n \in Nat, NEW dx \in [Period..(n - 1) -> Int]
  PROVE  \A i \in 0..(n - 1) : Smoothed(dx, n)[i] \in Int
<1> DEFINE S == {i \in DOMAIN dx : dx[i] # Null}
<1> DEFINE Short == n < Period + 2 \/ S = {} \/ Min(S) + Period > n
<1> SUFFICES ASSUME NEW i \in 0..(n - 1) PROVE Smoothed(dx, n)[i] \in Int OBVIOUS
<1>0. Period \in Nat \ {0, 1} BY BacktestAssumption
<1>1. S \in SUBSET Nat /\ \A k \in S : k >= Period /\ k <= n - 1 BY <1>0
<1>2. Smoothed(dx, n) = IF Short THEN [k \in 0..(n - 1) |-> Null]
                        ELSE AdxFrom(dx, Min(S), Min(S) + Period - 1, n)
  BY DEF Smoothed
<1> HIDE DEF S
<1>3. CASE Short BY <1>2, <1>3 DEF Null
<1>4. CASE ~Short
  <2> DEFINE start == Min(S)
  <2> DEFINE last == start + Period - 1
  <2>1. start \in S BY <1>1, <1>4, MinIs
  <2>2. start \in Nat /\ start >= Period /\ start + Period <= n
    <3>1. start \in Nat /\ start >= Period BY <1>1, <2>1
    <3>2. ~(start + Period > n) BY <1>4
    <3> HIDE DEF start
    <3> QED BY <1>0, <3>1, <3>2
  <2>3. start \in Int /\ last \in Int /\ start <= last /\ last <= n - 1 /\ n \in Int BY <1>0, <2>2
  <2>4. Indexed(dx, start, n) BY <1>0, <2>2 DEF Indexed
  <2>5. Smoothed(dx, n) = AdxFrom(dx, start, last, n) BY <1>2, <1>4
  <2> HIDE DEF start, last, Short
  <2>6. PICK f : Smooths(f, dx, start, last, n)
                 /\ \A k \in 0..(n - 1) : AdxFrom(dx, start, last, n)[k] = IF k < last
                        THEN Null ELSE f[k]
    BY <2>3, <2>4, AdxUnfolds
  <2>7. ~(i < last) => f[i] \in Int BY <2>3, <2>6 DEF Smooths
  <2> QED BY <2>5, <2>6, <2>7 DEF Null
<1> QED BY <1>3, <1>4

LEMMA AdxIs ==
  ASSUME NEW cs \in Seq(CandleKinds), NEW i \in Bars(cs)
  PROVE  ADX(cs)[i] \in Int
<1> DEFINE n == Len(cs)
<1>1. n \in Nat /\ i \in 0..(n - 1) /\ GoesOn(cs, cs) BY DEF GoesOn, Bars
<1>2. DX(cs) \in [Period..(n - 1) -> Int] BY <1>1, DxGoesOn
<1> HIDE DEF n
<1>3. Smoothed(DX(cs), n)[i] \in Int BY <1>1, <1>2, SmoothedIs
<1> QED BY <1>3 DEF ADX, n

LEMMA SignalEnters ==
  ASSUME NEW cs \in Seq(CandleKinds), NEW n \in Nat, n = Len(cs) - 1,
         SignalAtEnd(cs, FALSE) = "BUY",
         RSI(cs)[n] # 0, ATR(cs)[n] # 0, ADX(cs)[n] # NaN
  PROVE  /\ Usable(RsiMasked(cs)[n]) /\ Usable(ATR(cs)[n])
         /\ OnBar(NoTrades, n, Bar(cs, n), RsiMasked(cs)[n], ATR(cs)[n]).pos = 1
<1> DEFINE r == RSI(cs)[n]
<1> DEFINE a == ADX(cs)[n]
<1> DEFINE t == ATR(cs)[n]
<1> DEFINE e == EMA(cs)[n]
<1> DEFINE close == Scale * Bar(cs, n).close
<1>0. n \in Bars(cs) BY DEF Bars
<1>1. Signal(FALSE, r, a, t, e, close) = "BUY" BY DEF SignalAtEnd
<1>2. (r = Null \/ r \in Nat) /\ (t = Null \/ t \in Nat) /\ a \in Int
  BY <1>0, RsiIs, AtrIs, AdxIs
<1>3. RsiMasked(cs)[n] = IF a = Null \/ a >= AdxMin THEN r ELSE Null BY <1>0, RsiMaskedIs
<1>4. r # 0 /\ t # 0 /\ a # NaN OBVIOUS
<1> HIDE DEF r, a, t, e, close
<1>5. r # Null /\ t # Null /\ ~(a # Null /\ a # NaN /\ a < AdxMin) /\ r <= RsiBuy
  BY <1>1 DEF Signal
<1>6. AdxMin \in Int /\ RsiBuy \in Int BY BacktestAssumption
<1>7. RsiMasked(cs)[n] = r BY <1>2, <1>3, <1>4, <1>5, <1>6
<1>8. Usable(r) /\ Usable(t) BY <1>2, <1>4, <1>5 DEF Usable
<1>9. NoTrades.pos = 0 BY DEF NoTrades, Flat
<1>10. OnBar(NoTrades, n, Bar(cs, n), r, t).pos = 1 BY <1>5, <1>9 DEF OnBar
<1> QED BY <1>7, <1>8, <1>10 DEF t

(* The last candles suffice: sidewaysReversal decides in the live process,   *)
(* which keeps no more, as in its backtest over all of them; and where the   *)
(* script generate-signals says BUY the engine enters, but for an RSI or an  *)
(* ATR of exactly 0 and an ADX that is not a number.                         *)
THEOREM LiveDecidesAsBacktest == BacktestSpec => []DecisionsAgree
<1>1. ASSUME series \in Seq(CandleKinds) PROVE DecisionsAgree
  <2> DEFINE i == Len(series) - 1
  <2>1. ASSUME i >= Lookback
        PROVE  Evaluate(series) = Evaluate(SubSeq(series, i + 2 - Lookback, i + 1))
    <3>1. Len(series) \in Nat /\ Lookback \in Int BY <1>1, BacktestAssumption DEF Lookback, MaxOf
    <3>2. Len(series) > Lookback BY <2>1, <3>1
    <3> QED BY <1>1, <3>2, LastWindowDecides
  <2>2. ASSUME i >= 0, SignalAtEnd(series, FALSE) = "BUY",
               RSI(series)[i] # 0, ATR(series)[i] # 0, ADX(series)[i] # NaN
        PROVE  /\ Usable(RsiMasked(series)[i]) /\ Usable(ATR(series)[i])
               /\ OnBar(NoTrades, i, Bar(series, i), RsiMasked(series)[i], ATR(series)[i]).pos = 1
    <3>1. i \in Nat /\ i = Len(series) - 1 BY <1>1, <2>2
    <3> HIDE DEF i
    <3> QED BY <1>1, <2>2, <3>1, SignalEnters
  <2> QED BY <2>1, <2>2 DEF DecisionsAgree
<1> QED BY <1>1, SeriesHolds, PTL
=============================================================================

---------------------------- MODULE AnalyticsProofs ----------------------------
(***************************************************************************)
(* Proofs about the analytics, for any jobs, curves, snapshots and trades:  *)
(* the reductions keep the shape of a curve, the statistics are what their  *)
(* definition says, page, report and routes agree, and what is drawn is what *)
(* was answered.                                                           *)
(***************************************************************************)
EXTENDS Analytics, AlgorithmProofs

-----------------------------------------------------------------------------
(* Selections, prefix by prefix.                                            *)

LEMMA PrefixGrows ==
  ASSUME NEW T, NEW s \in Seq(T)
  PROVE  /\ SubSeq(s, 1, 0) = <<>> /\ SubSeq(s, 1, Len(s)) = s
         /\ \A k \in 0..Len(s) : SubSeq(s, 1, k) \in Seq(T) /\ Len(SubSeq(s, 1, k)) = k
         /\ \A k \in 1..Len(s) : /\ s[k] \in T /\ k - 1 \in 0..Len(s)
                                 /\ SubSeq(s, 1, k) = Append(SubSeq(s, 1, k - 1), s[k])
<1>1. SubSeq(s, 1, 0) = <<>> /\ SubSeq(s, 1, Len(s)) = s OBVIOUS
<1>2. ASSUME NEW k \in 0..Len(s) PROVE SubSeq(s, 1, k) \in Seq(T) /\ Len(SubSeq(s, 1, k)) = k
  OBVIOUS
<1>3. ASSUME NEW k \in 1..Len(s)
      PROVE  s[k] \in T /\ k - 1 \in 0..Len(s) /\ SubSeq(s, 1, k) = Append(SubSeq(s, 1, k - 1), s[k])
  OBVIOUS
<1> QED BY <1>1, <1>2, <1>3

LEMMA OnlyOfNone == ASSUME NEW S PROVE Only(<<>>, S) = <<>>
<1>1. <<>> \in Seq({}) OBVIOUS
<1>2. PICK kept : Keeps(kept, <<>>, S, {}) /\ Only(<<>>, S) = kept[Len(<<>>)] BY <1>1, OnlyUnfolds
<1> QED BY <1>2 DEF Keeps

LEMMA OnlyAppend ==
  ASSUME NEW T, NEW s \in Seq(T), NEW x \in T, NEW S
  PROVE  Only(Append(s, x), S) = IF x \in S THEN Append(Only(s, S), x) ELSE Only(s, S)
<1> DEFINE t == Append(s, x)
<1> DEFINE n == Len(s)
<1>1. t \in Seq(T) /\ Len(t) = n + 1 /\ t[n + 1] = x /\ n \in Nat /\ \A i \in 1..n : t[i] = s[i]
  OBVIOUS
<1> HIDE DEF t
<1>2. PICK f : Keeps(f, s, S, T) /\ Only(s, S) = f[n] BY OnlyUnfolds
<1>3. PICK g : Keeps(g, t, S, T) /\ Only(t, S) = g[n + 1] BY <1>1, OnlyUnfolds
<1> DEFINE R == {i \in 0..n : g[i] = f[i]}
<1>4. 0 \in R BY <1>1, <1>2, <1>3 DEF Keeps
<1>5. ASSUME NEW i \in 0..n, i # 0, i - 1 \in R PROVE i \in R
  <2>1. i \in 1..n /\ i \in 1..(n + 1) BY <1>1, <1>5
  <2>2. f[i] = IF s[i] \in S THEN Append(f[i - 1], s[i]) ELSE f[i - 1] BY <1>2, <2>1 DEF Keeps
  <2>3. g[i] = IF t[i] \in S THEN Append(g[i - 1], t[i]) ELSE g[i - 1] BY <1>1, <1>3, <2>1 DEF Keeps
  <2>4. g[i - 1] = f[i - 1] /\ t[i] = s[i] BY <1>1, <1>5, <2>1
  <2> QED BY <2>2, <2>3, <2>4
<1>6. \A i \in 0..n : i \in R
  <2>1. 0 \in Int /\ n \in Int BY <1>1
  <2> HIDE DEF R, n
  <2> QED BY <1>4, <1>5, <2>1, UpTo
<1>7. g[n] = f[n] BY <1>1, <1>6
<1>8. n + 1 \in 1..(n + 1) /\ (n + 1) - 1 = n BY <1>1
<1>9. g[n + 1] = IF t[n + 1] \in S THEN Append(g[n], t[n + 1]) ELSE g[n]
  BY <1>1, <1>3, <1>8 DEF Keeps
<1> QED BY <1>1, <1>2, <1>3, <1>7, <1>9 DEF t

\* Two selections of the same members are one.
LEMMA OnlySame ==
  ASSUME NEW T, NEW s \in Seq(T), NEW S, NEW R,
         \A i \in 1..Len(s) : s[i] \in S <=> s[i] \in R
  PROVE  Only(s, S) = Only(s, R)
<1> DEFINE P(k) == SubSeq(s, 1, k)
<1> DEFINE n == Len(s)
<1> DEFINE A == {k \in 0..n : Only(P(k), S) = Only(P(k), R)}
<1>1. n \in Nat OBVIOUS
<1>2. 0 \in A
  <2>1. P(0) = <<>> BY PrefixGrows
  <2> HIDE DEF P
  <2> QED BY <1>1, <2>1, OnlyOfNone
<1>3. ASSUME NEW k \in 0..n, k # 0, k - 1 \in A PROVE k \in A
  <2>1. k \in 1..n BY <1>1, <1>3
  <2> DEFINE q == P(k - 1)
  <2> DEFINE x == s[k]
  <2>2. P(k) = Append(q, x) /\ x \in T /\ q \in Seq(T) BY <2>1, PrefixGrows
  <2>3. Only(q, S) = Only(q, R) /\ (x \in S <=> x \in R) BY <1>3, <2>1
  <2> HIDE DEF P, q, x
  <2>4. Only(Append(q, x), S) = IF x \in S THEN Append(Only(q, S), x) ELSE Only(q, S)
    BY <2>2, OnlyAppend
  <2>5. Only(Append(q, x), R) = IF x \in R THEN Append(Only(q, R), x) ELSE Only(q, R)
    BY <2>2, OnlyAppend
  <2> QED BY <2>2, <2>3, <2>4, <2>5
<1>4. \A k \in 0..n : k \in A
  <2>1. 0 \in Int /\ n \in Int BY <1>1
  <2> HIDE DEF A, n
  <2> QED BY <1>2, <1>3, <2>1, UpTo
<1>5. n \in A
  <2> HIDE DEF A
  <2> QED BY <1>1, <1>4
<1> QED BY <1>5, PrefixGrows

LEMMA OnlyOnly ==
  ASSUME NEW T, NEW s \in Seq(T), NEW S, NEW R
  PROVE  Only(Only(s, S), R) = Only(s, S \cap R)
<1> DEFINE P(k) == SubSeq(s, 1, k)
<1> DEFINE n == Len(s)
<1> DEFINE A == {k \in 0..n : Only(Only(P(k), S), R) = Only(P(k), S \cap R)}
<1>1. n \in Nat OBVIOUS
<1>2. 0 \in A
  <2>1. P(0) = <<>> BY PrefixGrows
  <2> HIDE DEF P
  <2> QED BY <1>1, <2>1, OnlyOfNone
<1>3. ASSUME NEW k \in 0..n, k # 0, k - 1 \in A PROVE k \in A
  <2>1. k \in 1..n BY <1>1, <1>3
  <2> DEFINE q == P(k - 1)
  <2> DEFINE x == s[k]
  <2>2. P(k) = Append(q, x) /\ x \in T /\ q \in Seq(T) BY <2>1, PrefixGrows
  <2>3. Only(Only(q, S), R) = Only(q, S \cap R) BY <1>3
  <2> HIDE DEF P, q, x
  <2>4. Only(q, S) \in Seq(T) BY <2>2, OnlyHas
  <2>5. Only(Append(q, x), S) = IF x \in S THEN Append(Only(q, S), x) ELSE Only(q, S)
    BY <2>2, OnlyAppend
  <2>6. Only(Append(q, x), S \cap R) =
          IF x \in S \cap R THEN Append(Only(q, S \cap R), x) ELSE Only(q, S \cap R)
    BY <2>2, OnlyAppend
  <2>7. Only(Append(Only(q, S), x), R) =
          IF x \in R THEN Append(Only(Only(q, S), R), x) ELSE Only(Only(q, S), R)
    BY <2>2, <2>4, OnlyAppend
  <2>8. Only(Only(P(k), S), R) = Only(P(k), S \cap R)
    <3>1. CASE x \in S BY <2>2, <2>3, <2>5, <2>6, <2>7, <3>1
    <3>2. CASE x \notin S BY <2>2, <2>3, <2>5, <2>6, <3>2
    <3> QED BY <3>1, <3>2
  <2> QED BY <2>8
<1>4. \A k \in 0..n : k \in A
  <2>1. 0 \in Int /\ n \in Int BY <1>1
  <2> HIDE DEF A, n
  <2> QED BY <1>2, <1>3, <2>1, UpTo
<1>5. n \in A
  <2> HIDE DEF A
  <2> QED BY <1>1, <1>4
<1> QED BY <1>5, PrefixGrows

\* What is selected keeps its order: the places it comes from ascend.
Places(h, r, s) ==
  /\ h \in [1..Len(r) -> 1..Len(s)] /\ \A i \in 1..Len(r) : r[i] = s[h[i]]
  /\ \A i, j \in 1..Len(r) : i < j => h[i] < h[j]

LEMMA OnlyInOrder ==
  ASSUME NEW T, NEW s \in Seq(T), NEW S
  PROVE  \E h : Places(h, Only(s, S), s)
<1> DEFINE P(k) == SubSeq(s, 1, k)
<1> DEFINE n == Len(s)
<1> DEFINE A == {k \in 0..n : \E h : Places(h, Only(P(k), S), P(k))}
<1>1. n \in Nat OBVIOUS
<1>2. 0 \in A
  <2>1. P(0) = <<>> /\ Only(<<>>, S) = <<>> BY OnlyOfNone, PrefixGrows
  <2>2. Places(<<>>, <<>>, <<>>) BY DEF Places
  <2> HIDE DEF P
  <2> QED BY <1>1, <2>1, <2>2
<1>3. ASSUME NEW k \in 0..n, k # 0, k - 1 \in A PROVE k \in A
  <2> DEFINE q == P(k - 1)
  <2> DEFINE r == Only(q, S)
  <2>1. k \in 1..n /\ k - 1 \in 0..n BY <1>1, <1>3
  <2>2. P(k) = Append(q, s[k]) /\ s[k] \in T /\ q \in Seq(T) /\ Len(q) = k - 1 BY <2>1, PrefixGrows
  <2>3. r \in Seq(T) /\ Only(P(k), S) = IF s[k] \in S THEN Append(r, s[k]) ELSE r
    <3> DEFINE x == s[k]
    <3>1. P(k) = Append(q, x) /\ x \in T /\ q \in Seq(T) BY <2>2
    <3> HIDE DEF P, q, x
    <3>2. Only(Append(q, x), S) = IF x \in S THEN Append(Only(q, S), x) ELSE Only(q, S)
      BY <3>1, OnlyAppend
    <3> QED BY <3>1, <3>2, OnlyHas DEF x
  <2>4. PICK h : Places(h, r, q) BY <1>3
  <2> DEFINE m == Len(r)
  <2> DEFINE g == [i \in 1..(m + 1) |-> IF i <= m THEN h[i] ELSE k]
  <2> HIDE DEF P, q, r
  <2>5. m \in Nat BY <2>3
  <2>6. Len(P(k)) = k /\ P(k)[k] = s[k] /\ \A i \in 1..(k - 1) : P(k)[i] = q[i] BY <2>1, <2>2
  <2>7. /\ \A i \in 1..m : h[i] \in 1..(k - 1) /\ r[i] = q[h[i]]
        /\ \A i, j \in 1..m : i < j => h[i] < h[j]
    BY <2>2, <2>4 DEF Places
  <2>8. CASE s[k] \in S
    <3> DEFINE t == Append(r, s[k])
    <3>1. Len(t) = m + 1 /\ t[m + 1] = s[k] /\ \A i \in 1..m : t[i] = r[i] BY <2>3
    <3> HIDE DEF m, t
    <3>2. g \in [1..(m + 1) -> 1..k] BY <2>1, <2>5, <2>7
    <3>3. \A i \in 1..(m + 1) : t[i] = P(k)[g[i]]
      <4> SUFFICES ASSUME NEW i \in 1..(m + 1) PROVE t[i] = P(k)[g[i]] OBVIOUS
      <4>1. CASE i <= m
        <5>1. i \in 1..m BY <2>5, <4>1
        <5>2. g[i] = h[i] /\ t[i] = r[i] /\ r[i] = q[h[i]] /\ h[i] \in 1..(k - 1) BY <2>7, <3>1, <4>1, <5>1
        <5> QED BY <2>6, <5>2
      <4>2. CASE ~(i <= m)
        <5>1. i = m + 1 BY <2>5, <4>2
        <5> QED BY <2>6, <3>1, <4>2, <5>1
      <4> QED BY <4>1, <4>2
    <3>4. \A i, j \in 1..(m + 1) : i < j => g[i] < g[j]
      <4> SUFFICES ASSUME NEW i \in 1..(m + 1), NEW j \in 1..(m + 1), i < j PROVE g[i] < g[j] OBVIOUS
      <4>1. i \in 1..m /\ g[i] = h[i] /\ h[i] < k BY <2>1, <2>5, <2>7
      <4>2. CASE j <= m
        <5>1. j \in 1..m /\ g[j] = h[j] BY <2>5, <4>2
        <5> QED BY <2>7, <4>1, <5>1
      <4>3. CASE ~(j <= m) BY <4>1, <4>3
      <4> QED BY <4>2, <4>3
    <3>5. Places(g, t, P(k)) BY <2>6, <3>1, <3>2, <3>3, <3>4 DEF Places
    <3> QED BY <2>3, <2>8, <3>5 DEF t
  <2>9. CASE s[k] \notin S
    <3>1. h \in [1..m -> 1..k] BY <2>1, <2>2, <2>4 DEF Places
    <3>2. \A i \in 1..m : r[i] = P(k)[h[i]] BY <2>6, <2>7
    <3>3. Places(h, r, P(k)) BY <2>6, <2>7, <3>1, <3>2 DEF Places
    <3> QED BY <2>3, <2>9, <3>3
  <2> QED BY <2>8, <2>9
<1>4. \A k \in 0..n : k \in A
  <2>1. 0 \in Int /\ n \in Int BY <1>1
  <2> HIDE DEF A, n
  <2> QED BY <1>2, <1>3, <2>1, UpTo
<1>5. n \in A
  <2> HIDE DEF A
  <2> QED BY <1>1, <1>4
<1> QED BY <1>5, PrefixGrows

-----------------------------------------------------------------------------
(* The pnl of a selection, and of a list read backwards.                    *)

LEMMA SumIsInt ==
  ASSUME NEW a \in Int, NEW b \in Int, a - 1 <= b, NEW f, \A i \in a..b : f[i] \in Int
  PROVE  SumOver(f, a, b) \in Int
<1>1. PICK sum : SumsUp(sum, f, a, b) /\ SumOver(f, a, b) = sum[b] BY SumUnfolds
<1> QED BY <1>1 DEF SumsUp

Earns(T) == \A x \in T : x.pnl \in Int

LEMMA PnlAppend ==
  ASSUME NEW T, Earns(T), NEW s \in Seq(T), NEW x \in T
  PROVE  PnlOf(s) \in Int /\ PnlOf(Append(s, x)) = PnlOf(s) + x.pnl
<1> DEFINE n == Len(s)
<1> DEFINE t == Append(s, x)
<1> DEFINE f == [i \in DOMAIN s |-> s[i].pnl]
<1> DEFINE g == [i \in DOMAIN t |-> t[i].pnl]
<1> DEFINE m == n + 1
<1>1. /\ n \in Nat /\ DOMAIN s = 1..n /\ DOMAIN t = 1..m /\ Len(t) = m /\ t[m] = x
      /\ \A i \in 1..n : t[i] = s[i] /\ s[i] \in T
  OBVIOUS
<1>2. (\A i \in 1..n : f[i] \in Int /\ g[i] = f[i]) /\ g[m] = x.pnl /\ x.pnl \in Int
  BY <1>1 DEF Earns
<1>3. PnlOf(s) = SumOver(f, 1, n) /\ PnlOf(t) = SumOver(g, 1, m) BY <1>1 DEF PnlOf
<1> HIDE DEF f, g, t, n
<1>4. \A i \in 1..m : g[i] \in Int BY <1>1, <1>2
<1>5. 1 \in Int /\ n \in Int /\ m \in Int /\ 1 <= m /\ 1 - 1 <= n /\ m - 1 = n BY <1>1
<1> HIDE DEF m
<1>6. SumOver(g, 1, m) = SumOver(g, 1, m - 1) + g[m] BY <1>4, <1>5, SumPrefix
<1>7. SumOver(f, 1, n) = SumOver(g, 1, n)
  <2>1. \A i \in 1..n : f[i] \in Int /\ f[i] = g[i] BY <1>2
  <2> QED BY <1>5, <2>1, SumSame
<1>8. SumOver(f, 1, n) \in Int
  <2>1. \A i \in 1..n : f[i] \in Int BY <1>2
  <2> QED BY <1>5, <2>1, SumIsInt
<1> QED BY <1>2, <1>3, <1>5, <1>6, <1>7, <1>8 DEF t

LEMMA PnlOfOnly ==
  ASSUME NEW T, Earns(T), NEW s \in Seq(T), NEW S,
         NEW f, \A i \in 1..Len(s) : f[i] = IF s[i] \in S THEN s[i].pnl ELSE 0
  PROVE  PnlOf(Only(s, S)) = SumOver(f, 1, Len(s))
<1> DEFINE P(k) == SubSeq(s, 1, k)
<1> DEFINE n == Len(s)
<1> DEFINE A == {k \in 0..n : PnlOf(Only(P(k), S)) = SumOver(f, 1, k)}
<1>1. n \in Nat /\ \A i \in 1..n : s[i] \in T /\ s[i].pnl \in Int /\ f[i] \in Int
  BY DEF Earns
<1>2. 0 \in A
  <2>1. P(0) = <<>> BY PrefixGrows
  <2> HIDE DEF P
  <2>2. Only(P(0), S) = <<>> BY <2>1, OnlyOfNone
  <2> DEFINE g == [i \in DOMAIN <<>> |-> <<>>[i].pnl]
  <2>3. PnlOf(<<>>) = SumOver(g, 1, 0) BY DEF PnlOf
  <2> HIDE DEF g
  <2>4. SumOver(f, 1, 1 - 1) = 0 /\ SumOver(g, 1, 1 - 1) = 0 /\ 1 - 1 = 0 BY SumOfNone
  <2>5. PnlOf(<<>>) = 0 BY <2>3, <2>4
  <2> QED BY <1>1, <2>2, <2>4, <2>5
<1>3. ASSUME NEW k \in 0..n, k # 0, k - 1 \in A PROVE k \in A
  <2>1. k \in 1..n BY <1>1, <1>3
  <2> DEFINE q == P(k - 1)
  <2> DEFINE x == s[k]
  <2>2. P(k) = Append(q, x) /\ x \in T /\ q \in Seq(T) BY <2>1, PrefixGrows
  <2>3. PnlOf(Only(q, S)) = SumOver(f, 1, k - 1) BY <1>3
  <2>4. f[k] = IF x \in S THEN x.pnl ELSE 0 BY <2>1
  <2> HIDE DEF P, q, x
  <2>5. Only(Append(q, x), S) = IF x \in S THEN Append(Only(q, S), x) ELSE Only(q, S)
    BY <2>2, OnlyAppend
  <2>6. Only(q, S) \in Seq(T) BY <2>2, OnlyHas
  <2>7. PnlOf(Append(Only(q, S), x)) = PnlOf(Only(q, S)) + x.pnl /\ PnlOf(Only(q, S)) \in Int
    BY <2>2, <2>6, PnlAppend
  <2>8. SumOver(f, 1, k) = SumOver(f, 1, k - 1) + f[k]
    <3>1. 1 \in Int /\ k \in Int /\ 1 <= k /\ \A i \in 1..k : f[i] \in Int BY <1>1, <2>1
    <3> QED BY <3>1, SumPrefix
  <2>9. PnlOf(Only(P(k), S)) = SumOver(f, 1, k)
    <3>1. CASE x \in S BY <2>2, <2>3, <2>4, <2>5, <2>7, <2>8, <3>1
    <3>2. CASE x \notin S BY <2>2, <2>3, <2>4, <2>5, <2>7, <2>8, <3>2
    <3> QED BY <3>1, <3>2
  <2> QED BY <2>9
<1>4. \A k \in 0..n : k \in A
  <2>1. 0 \in Int /\ n \in Int BY <1>1
  <2> HIDE DEF A, n
  <2> QED BY <1>2, <1>3, <2>1, UpTo
<1>5. n \in A
  <2> HIDE DEF A
  <2> QED BY <1>1, <1>4
<1> QED BY <1>5, PrefixGrows

LEMMA SumBackwards ==
  ASSUME NEW n \in Nat, NEW f, \A i \in 1..n : f[i] \in Int,
         NEW g, \A i \in 1..n : g[i] = f[n - i + 1]
  PROVE  SumOver(g, 1, n) = SumOver(f, 1, n)
<1> DEFINE A == {k \in 0..n : SumOver(g, 1, k) = SumOver(f, n - k + 1, n)}
<1>1. 0 \in A
  <2> DEFINE m == n + 1
  <2>1. m \in Int /\ 1 \in Int /\ m - 1 = n /\ n - 0 + 1 = m /\ 1 - 1 = 0 OBVIOUS
  <2> HIDE DEF m
  <2>2. SumOver(g, 1, 1 - 1) = 0 BY <2>1, SumOfNone
  <2>3. SumOver(f, m, m - 1) = 0 BY <2>1, SumOfNone
  <2> QED BY <2>1, <2>2, <2>3
<1>2. ASSUME NEW k \in 0..n, k # 0, k - 1 \in A PROVE k \in A
  <2> DEFINE a == n - k + 1
  <2>1. /\ k \in 1..n /\ a \in 1..n /\ a \in Int /\ k \in Int /\ 1 \in Int /\ n \in Int
        /\ n - (k - 1) + 1 = a + 1 /\ a <= n /\ 1 <= k
    BY <1>2
  <2>2. g[k] = f[a] BY <2>1
  <2> HIDE DEF a
  <2>3. SumOver(g, 1, k) = SumOver(g, 1, k - 1) + g[k]
    <3>1. \A i \in 1..k : g[i] \in Int BY <2>1
    <3> QED BY <2>1, <3>1, SumPrefix
  <2>4. SumOver(f, a, n) = f[a] + SumOver(f, a + 1, n) /\ SumOver(f, a + 1, n) \in Int
    <3>1. \A i \in a..n : f[i] \in Int BY <2>1
    <3> QED BY <2>1, <3>1, SumDropFirst
  <2>5. SumOver(g, 1, k - 1) = SumOver(f, a + 1, n) BY <1>2, <2>1
  <2>6. f[a] \in Int BY <2>1
  <2>7. SumOver(g, 1, k) = SumOver(f, a, n) BY <2>2, <2>3, <2>4, <2>5, <2>6
  <2> QED BY <2>7 DEF a
<1>3. \A k \in 0..n : k \in A
  <2>1. 0 \in Int /\ n \in Int OBVIOUS
  <2> HIDE DEF A
  <2> QED BY <1>1, <1>2, <2>1, UpTo
<1>4. n \in A
  <2> HIDE DEF A
  <2> QED BY <1>3
<1>5. n - n + 1 = 1 OBVIOUS
<1> QED BY <1>4, <1>5

LEMMA ReverseIs ==
  ASSUME NEW T, NEW s \in Seq(T)
  PROVE  /\ Reverse(s) \in Seq(T) /\ Len(Reverse(s)) = Len(s) /\ Reverse(Reverse(s)) = s
         /\ \A i \in 1..Len(s) : Reverse(s)[i] = s[Len(s) - i + 1]
<1> DEFINE n == Len(s)
<1> DEFINE r == [i \in 1..n |-> s[(n - i) + 1]]
<1>1. n \in Nat /\ DOMAIN s = 1..n /\ \A i \in 1..n : s[i] \in T /\ (n - i) + 1 \in 1..n OBVIOUS
<1>2. Reverse(s) = r BY DEF Reverse
<1>3. r \in Seq(T) /\ Len(r) = n BY <1>1
<1>4. Reverse(r) = [i \in 1..n |-> r[(n - i) + 1]] BY <1>3 DEF Reverse
<1>5. \A i \in 1..n : r[(n - i) + 1] = s[i]
  <2> SUFFICES ASSUME NEW i \in 1..n PROVE r[(n - i) + 1] = s[i] OBVIOUS
  <2>1. (n - i) + 1 \in 1..n /\ (n - ((n - i) + 1)) + 1 = i BY <1>1
  <2> QED BY <2>1
<1>6. s = [i \in 1..n |-> s[i]] BY <1>1
<1>7. Reverse(r) = s
  <2> HIDE DEF r
  <2> QED BY <1>4, <1>5, <1>6
<1> QED BY <1>1, <1>2, <1>3, <1>7

LEMMA PnlReverse ==
  ASSUME NEW T, Earns(T), NEW s \in Seq(T)
  PROVE  PnlOf(Reverse(s)) = PnlOf(s)
<1> DEFINE n == Len(s)
<1> DEFINE r == Reverse(s)
<1> DEFINE f == [i \in DOMAIN s |-> s[i].pnl]
<1> DEFINE g == [i \in DOMAIN r |-> r[i].pnl]
<1>1. n \in Nat /\ DOMAIN s = 1..n /\ \A i \in 1..n : s[i] \in T OBVIOUS
<1>2. r \in Seq(T) /\ Len(r) = n /\ \A i \in 1..n : r[i] = s[n - i + 1] BY ReverseIs
<1> HIDE DEF r, n
<1>3. DOMAIN r = 1..n BY <1>2
<1>4. \A i \in 1..n : f[i] \in Int BY <1>1 DEF Earns
<1>5. \A i \in 1..n : n - i + 1 \in 1..n BY <1>1
<1>6. \A i \in 1..n : g[i] = f[n - i + 1] BY <1>1, <1>2, <1>3, <1>5
<1>7. PnlOf(s) = SumOver(f, 1, n) /\ PnlOf(r) = SumOver(g, 1, n) BY <1>2 DEF PnlOf, n
<1> HIDE DEF f, g
<1> QED BY <1>1, <1>4, <1>6, <1>7, SumBackwards DEF r

-----------------------------------------------------------------------------
(* The curves: rows and snapshots of ascending times.                       *)

Samples == [ts : 1..MaxTs, equity : Equities]
FileRow == [ts : 1..MaxTs, equity : Equities \cup {Junk}]
Closed  == [at : SnapTimes \cup {Nothing}, pnl : Profits]

Rises(s) == \A i, j \in 1..Len(s) : i < j => s[i].ts < s[j].ts

Curve(s) == s \in Seq(Samples) /\ Rises(s)

CurveInv ==
  /\ files \in [JobIds -> Seq(FileRow)] /\ \A j \in JobIds : Rises(files[j])
  /\ DOMAIN live \subseteq SnapTimes /\ \A t \in DOMAIN live : live[t] \in Equities
  /\ book \in Seq(Closed)

LEMMA RisesOn ==
  ASSUME NEW s \in Seq(FileRow), Rises(s), NEW skip \in {1, 2}, NEW e \in Equities \cup {Junk},
         LastTs(s) + skip <= MaxTs
  PROVE  LET t == Append(s, [ts |-> LastTs(s) + skip, equity |-> e])
         IN t \in Seq(FileRow) /\ Rises(t)
<1> DEFINE row == [ts |-> LastTs(s) + skip, equity |-> e]
<1> DEFINE n == Len(s)
<1> DEFINE t == Append(s, row)
<1>0. n \in Nat /\ MaxTs \in Nat BY AnalyticsAssumption
<1>1. \A i \in 1..n : s[i].ts \in 1..MaxTs
  <2>1. \A i \in 1..n : s[i] \in FileRow OBVIOUS
  <2> QED BY <2>1 DEF FileRow
<1>2. LastTs(s) \in Nat /\ \A i \in 1..n : s[i].ts <= LastTs(s)
  <2>1. CASE s = <<>> BY <1>0, <1>1, <2>1 DEF LastTs
  <2>2. CASE s # <<>>
    <3>1. n \in 1..n /\ LastTs(s) = s[n].ts BY <1>0, <1>1, <2>2, EmptySeq DEF LastTs
    <3>2. \A i \in 1..n : i = n \/ s[i].ts < s[n].ts BY <1>0, <1>1, <3>1 DEF Rises
    <3> QED BY <1>0, <1>1, <3>1, <3>2
  <2> QED BY <2>1, <2>2
<1>3. row \in FileRow BY <1>0, <1>1, <1>2 DEF FileRow
<1> HIDE DEF row
<1>4. t \in Seq(FileRow) BY <1>3
<1>5. Len(t) = n + 1 /\ t[n + 1] = row /\ \A i \in 1..n : t[i] = s[i] OBVIOUS
<1>6. \A i \in 1..n : s[i].ts < row.ts BY <1>0, <1>1, <1>2 DEF row
<1> HIDE DEF t, n
<1>7. ASSUME NEW i \in 1..(n + 1), NEW j \in 1..(n + 1), i < j PROVE t[i].ts < t[j].ts
  <2>1. i \in 1..n BY <1>0, <1>7
  <2>2. CASE j \in 1..n BY <1>5, <1>7, <2>1, <2>2 DEF Rises, n
  <2>3. CASE j \notin 1..n
    <3>1. j = n + 1 BY <1>0, <1>1, <2>3
    <3> QED BY <1>5, <1>6, <2>1, <3>1
  <2> QED BY <2>2, <2>3
<1>8. Rises(t) BY <1>5, <1>7 DEF Rises
<1> QED BY <1>4, <1>8 DEF t, row

LEMMA CurveInvHolds == CurveSpec => []CurveInv
<1>1. InitCurves => CurveInv
  <2> SUFFICES ASSUME InitCurves PROVE CurveInv OBVIOUS
  <2>1. files = [j \in JobIds |-> <<>>] /\ live = <<>> /\ book = <<>> BY DEF InitCurves
  <2>2. <<>> \in Seq(FileRow) /\ <<>> \in Seq(Closed) /\ Rises(<<>>) BY DEF Rises
  <2>3. files \in [JobIds -> Seq(FileRow)] /\ \A j \in JobIds : Rises(files[j]) BY <2>1, <2>2
  <2>4. DOMAIN live = {}
    <3>1. DOMAIN live = 1..0 BY <2>1
    <3> QED BY <3>1
  <2> QED BY <2>1, <2>2, <2>3, <2>4 DEF CurveInv
<1>2. CurveInv /\ [NextCurves]_curveVars => CurveInv'
  <2> SUFFICES ASSUME CurveInv, [NextCurves]_curveVars PROVE CurveInv' OBVIOUS
  <2>1. ASSUME NEW j \in JobIds, AddRow(j) PROVE CurveInv'
    <3>1. PICK skip \in {1, 2}, e \in Equities \cup {Junk} :
            /\ LastTs(files[j]) + skip <= MaxTs
            /\ files' = [files EXCEPT ![j] =
                           Append(files[j], [ts |-> LastTs(files[j]) + skip, equity |-> e])]
      BY <2>1 DEF AddRow
    <3> DEFINE t == Append(files[j], [ts |-> LastTs(files[j]) + skip, equity |-> e])
    <3>2. files[j] \in Seq(FileRow) /\ Rises(files[j]) BY DEF CurveInv
    <3>3. t \in Seq(FileRow) /\ Rises(t) BY <3>1, <3>2, RisesOn
    <3>4. files' = [files EXCEPT ![j] = t] BY <3>1
    <3> HIDE DEF t
    <3>5. files' \in [JobIds -> Seq(FileRow)] /\ \A k \in JobIds : Rises(files'[k])
      BY <3>3, <3>4 DEF CurveInv
    <3>6. live' = live /\ book' = book BY <2>1 DEF AddRow
    <3> QED BY <3>5, <3>6 DEF CurveInv
  <2>2. ASSUME NEW t \in SnapTimes, WriteSnapshot(t) PROVE CurveInv'
    <3>1. PICK e \in Equities :
            live' = [u \in DOMAIN live \cup {t} |-> IF u = t THEN e ELSE live[u]]
      BY <2>2 DEF WriteSnapshot
    <3>2. files' = files /\ book' = book BY <2>2 DEF WriteSnapshot
    <3> QED BY <3>1, <3>2 DEF CurveInv
  <2>3. ASSUME NEW t \in SnapTimes \cup {Nothing}, CloseTrade(t) PROVE CurveInv'
    <3> DEFINE dated == {b \in Range(book) : b.at # Nothing}
    <3>1. PICK p \in Profits :
            book' = IF t = Nothing THEN book \o <<[at |-> t, pnl |-> p]>>
                    ELSE Only(book, dated) \o <<[at |-> t, pnl |-> p]>>
                           \o Only(book, Range(book) \ dated)
      BY <2>3 DEF CloseTrade
    <3> DEFINE row == <<[at |-> t, pnl |-> p]>>
    <3>2. row \in Seq(Closed) BY DEF Closed
    <3>3. book \in Seq(Closed) BY DEF CurveInv
    <3>4. Only(book, dated) \in Seq(Closed) /\ Only(book, Range(book) \ dated) \in Seq(Closed)
      BY <3>3, OnlyHas
    <3> HIDE DEF dated
    <3>5. book' \in Seq(Closed)
      <4>1. book' = IF t = Nothing THEN book \o row
                    ELSE Only(book, dated) \o row \o Only(book, Range(book) \ dated) BY <3>1
      <4> HIDE DEF row
      <4> QED BY <3>2, <3>3, <3>4, <4>1
    <3>6. files' = files /\ live' = live BY <2>3 DEF CloseTrade
    <3> QED BY <3>5, <3>6 DEF CurveInv
  <2>4. CASE UNCHANGED curveVars BY <2>4 DEF CurveInv, curveVars
  <2> QED BY <2>1, <2>2, <2>3, <2>4 DEF NextCurves
<1> QED BY <1>1, <1>2, PTL DEF CurveSpec

LEMMA SelectionRises ==
  ASSUME NEW T, NEW s \in Seq(T), \A x \in T : x.ts \in Int, Rises(s), NEW S
  PROVE  Rises(Only(s, S))
<1> DEFINE r == Only(s, S)
<1>1. PICK h : Places(h, r, s) BY OnlyInOrder
<1> HIDE DEF r
<1>2. ASSUME NEW i \in 1..Len(r), NEW j \in 1..Len(r), i < j PROVE r[i].ts < r[j].ts
  <2>1. h[i] \in 1..Len(s) /\ h[j] \in 1..Len(s) /\ h[i] < h[j] /\ r[i] = s[h[i]] /\ r[j] = s[h[j]]
    BY <1>1, <1>2 DEF Places
  <2> QED BY <2>1 DEF Rises
<1> QED BY <1>2 DEF Rises, r

LEMMA EquityIsCurve ==
  ASSUME CurveInv, NEW j \in JobIds
  PROVE  Curve(Equity(j))
<1> DEFINE s == files[j]
<1> DEFINE S == {r \in Range(s) : r.equity # Junk}
<1>1. s \in Seq(FileRow) /\ Rises(s) BY DEF CurveInv
<1>2. Equity(j) = Only(s, S) BY DEF Equity, NormalizeEquity
<1>3. \A x \in FileRow : x.ts \in Int BY DEF FileRow
<1> HIDE DEF s
<1>4. \A x \in S : x \in Samples
  <2>1. Range(s) \subseteq FileRow BY <1>1 DEF Range
  <2> QED BY <2>1 DEF FileRow, Samples
<1> HIDE DEF S
<1>5. Rises(Only(s, S)) BY <1>1, <1>3, SelectionRises
<1>6. /\ Only(s, S) \in Seq(FileRow)
      /\ \A i \in 1..Len(Only(s, S)) : Only(s, S)[i] \in S
  BY <1>1, OnlyHas
<1>7. Only(s, S) \in Seq(Samples)
  <2> DEFINE r == Only(s, S)
  <2>1. r \in [1..Len(r) -> Samples] /\ Len(r) \in Nat BY <1>4, <1>6, LenProperties
  <2> HIDE DEF r
  <2>2. r \in Seq(Samples) BY <2>1, IsASeq, <1>6 DEF r
  <2> QED BY <2>2 DEF r
<1> QED BY <1>2, <1>5, <1>7 DEF Curve


-----------------------------------------------------------------------------
(* Quotients.                                                               *)

LEMMA ProductGrows ==
  ASSUME NEW d \in Nat, NEW p \in Int, NEW q \in Int, p <= q
  PROVE  d * p <= d * q /\ d * p \in Int /\ d * q \in Int
OBVIOUS

LEMMA QuotientIs ==
  ASSUME NEW x \in Int, NEW d \in Nat \ {0}
  PROVE  x \div d \in Int /\ d * (x \div d) <= x /\ x < d * (x \div d) + d
OBVIOUS

LEMMA QuotientUnique ==
  ASSUME NEW x \in Int, NEW d \in Nat \ {0}, NEW q \in Int, d * q <= x, x < d * q + d
  PROVE  x \div d = q
OBVIOUS

LEMMA QuotientSteps ==
  ASSUME NEW x \in Int, NEW y \in Int, NEW d \in Nat \ {0}, x + d <= y
  PROVE  x \div d + 1 <= y \div d
<1> DEFINE p == x \div d
<1> DEFINE q == y \div d
<1>1. p \in Int /\ q \in Int /\ d * p <= x /\ y < d * q + d BY QuotientIs
<1> HIDE DEF p, q
<1>2. CASE q <= p
  <2>1. d * q <= d * p BY <1>1, <1>2, ProductGrows
  <2>2. d * q \in Int /\ d * p \in Int BY <1>1
  <2> QED BY <1>1, <2>1, <2>2
<1>3. p + 1 <= q BY <1>1, <1>2
<1> QED BY <1>3 DEF p, q

-----------------------------------------------------------------------------
(* Largest triangles: the buckets follow each other, and none is empty.     *)

LEMMA BucketsFollow ==
  ASSUME NEW n \in Nat, NEW k \in 3..(n - 1)
  PROVE  /\ \A i \in 0..(k - 3) : /\ FirstIn(n, k, i) \in 1..(n - 1)
                                  /\ LastIn(n, k, i) \in FirstIn(n, k, i)..(n - 1)
         /\ \A i \in 0..(k - 4) : LastIn(n, k, i) < FirstIn(n, k, i + 1)
<1> DEFINE d == k - 2
<1> DEFINE m == n - 2
<1> DEFINE q(i) == ((i + 1) * m) \div d
<1>1. d \in Nat \ {0} /\ m \in Nat /\ d < m /\ n \in Int OBVIOUS
<1>2. ASSUME NEW i \in 0..d PROVE q(i) \in Nat /\ q(i) >= 1 /\ q(i) + 1 <= q(i + 1) /\ q(i + 1) \in Nat
  <2> DEFINE x == i * m
  <2>1. x \in Nat /\ (i + 1) * m = x + m /\ (i + 1 + 1) * m = x + m + m BY <1>1
  <2> HIDE DEF x
  <2>2. (x + m) \div d >= 0 \div d + 1 BY <1>1, <2>1, QuotientSteps
  <2>3. (x + m) \div d + 1 <= (x + m + m) \div d BY <1>1, <2>1, QuotientSteps
  <2>4. 0 \div d = 0 BY <1>1, QuotientUnique
  <2>5. (x + m) \div d \in Int /\ (x + m + m) \div d \in Int BY <1>1, <2>1, QuotientIs
  <2> QED BY <2>1, <2>2, <2>3, <2>4, <2>5
<1>3. q(d - 1) = m
  <2>1. d - 1 + 1 = d BY <1>1
  <2>2. (d * m) \div d = m
    <3>1. d * m \in Int /\ d * m <= d * m /\ d * m < d * m + d BY <1>1
    <3> QED BY <1>1, <3>1, QuotientUnique
  <2> QED BY <2>1, <2>2
<1>4. \A i \in 0..(d - 1) : q(i) <= m
  <2> DEFINE Late(e) == q(d - 1 - e) <= m
  <2> DEFINE R == {e \in 0..(d - 1) : Late(e)}
  <2> DEFINE c == d - 1
  <2>1. 0 \in R
    <3>1. d - 1 - 0 = d - 1 BY <1>1
    <3> QED BY <1>1, <1>3, <3>1
  <2>2. ASSUME NEW e \in 0..c, e # 0, e - 1 \in R PROVE e \in R
    <3> DEFINE i == d - 1 - e
    <3>1. i \in 0..d /\ i + 1 = d - 1 - (e - 1) BY <1>1, <2>2
    <3> HIDE DEF q
    <3>2. q(i + 1) <= m BY <2>2, <3>1
    <3>3. q(i) <= m BY <1>1, <1>2, <3>1, <3>2
    <3> QED BY <2>2, <3>3
  <2>3. 0 \in Int /\ c \in Int BY <1>1
  <2>4. \A e \in 0..c : e \in R
    <3> HIDE DEF R, c
    <3> QED BY <2>1, <2>2, <2>3, UpTo
  <2> SUFFICES ASSUME NEW i \in 0..(d - 1) PROVE q(i) <= m OBVIOUS
  <2>5. c - i \in 0..c /\ d - 1 - (c - i) = i BY <1>1
  <2>6. c - i \in R
    <3> HIDE DEF R, c
    <3> QED BY <2>4, <2>5
  <2> HIDE DEF q
  <2> QED BY <2>5, <2>6
<1>5. ASSUME NEW i \in 0..d PROVE FirstIn(n, k, i) = q(i) + 1 BY DEF FirstIn
<1>6. ASSUME NEW i \in 0..(d - 1)
      PROVE  LastIn(n, k, i) = IF q(i + 1) + 1 <= n THEN q(i + 1) ELSE n - 1
  <2>0. i \in 0..d /\ i + 1 \in 0..d BY <1>1
  <2>1. FirstIn(n, k, i + 1) = q(i + 1) + 1 /\ q(i + 1) \in Nat BY <1>2, <1>5, <2>0
  <2> DEFINE b == q(i + 1)
  <2>2. LastIn(n, k, i) = Min({b + 1, n}) - 1 BY <2>1 DEF LastIn
  <2>3. b \in Nat BY <2>1
  <2> HIDE DEF b
  <2>4. Min({b + 1, n}) = IF b + 1 <= n THEN b + 1 ELSE n BY <1>1, <2>3, MinOfTwo
  <2>5. LastIn(n, k, i) = IF b + 1 <= n THEN b ELSE n - 1 BY <1>1, <2>2, <2>3, <2>4
  <2> QED BY <2>5 DEF b
<1>7. ASSUME NEW i \in 0..(k - 3)
      PROVE  FirstIn(n, k, i) \in 1..(n - 1) /\ LastIn(n, k, i) \in FirstIn(n, k, i)..(n - 1)
  <2>1. i \in 0..(d - 1) /\ i \in 0..d BY <1>1
  <2>2. FirstIn(n, k, i) = q(i) + 1 /\ q(i) \in Nat /\ q(i) <= m /\ q(i) + 1 <= q(i + 1) /\ q(i + 1) \in Nat
    BY <1>2, <1>4, <1>5, <2>1
  <2>3. LastIn(n, k, i) = IF q(i + 1) + 1 <= n THEN q(i + 1) ELSE n - 1 BY <1>6, <2>1
  <2>4. m + 1 = n - 1 BY <1>1
  <2> HIDE DEF q, m, d
  <2> QED BY <1>1, <2>2, <2>3, <2>4
<1>8. ASSUME NEW i \in 0..(k - 4) PROVE LastIn(n, k, i) < FirstIn(n, k, i + 1)
  <2>1. i \in 0..(d - 1) /\ i + 1 \in 0..(d - 1) /\ i + 1 \in 0..d BY <1>1
  <2>2. FirstIn(n, k, i + 1) = q(i + 1) + 1 /\ q(i + 1) \in Nat /\ q(i + 1) <= m BY <1>2, <1>4, <1>5, <2>1
  <2>3. LastIn(n, k, i) = IF q(i + 1) + 1 <= n THEN q(i + 1) ELSE n - 1 BY <1>6, <2>1
  <2>4. m + 1 = n - 1 BY <1>1
  <2> HIDE DEF q, m, d
  <2> QED BY <1>1, <2>2, <2>3, <2>4
<1> QED BY <1>7, <1>8

\* f is greatest at j between a and b, and nowhere before.
Tops(f, j, a, b) == \A k \in a..b : f[k] <= f[j] /\ (f[k] = f[j] => j <= k)

LEMMA FirstMaximumFrom ==
  ASSUME NEW a \in Int, NEW b \in Int, a <= b, NEW f, \A k \in a..b : f[k] \in Int
  PROVE  \E j \in a..b : Tops(f, j, a, b)
<1> DEFINE n == b - a + 1
<1> DEFINE g == [k \in 1..n |-> f[k + a - 1]]
<1>1. n \in Nat \ {0} /\ \A k \in 1..n : k + a - 1 \in a..b OBVIOUS
<1>2. \A k \in 1..n : g[k] \in Int BY <1>1
<1>3. PICK l \in 1..n : \A k \in 1..n : g[k] <= g[l] /\ (g[k] = g[l] => l <= k)
  <2> HIDE DEF g, n
  <2> QED BY <1>1, <1>2, FirstMaximum
<1> DEFINE j == l + a - 1
<1>4. j \in a..b /\ g[l] = f[j] BY <1>1
<1>5. ASSUME NEW k \in a..b PROVE f[k] <= f[j] /\ (f[k] = f[j] => j <= k)
  <2> DEFINE i == k - a + 1
  <2>1. i \in 1..n /\ i + a - 1 = k OBVIOUS
  <2>2. g[i] = f[k] BY <2>1
  <2>3. g[i] <= g[l] /\ (g[i] = g[l] => l <= i)
    <3> HIDE DEF g, n, i
    <3> QED BY <1>3, <2>1
  <2> HIDE DEF g, n
  <2>4. l <= i => j <= k BY <1>1
  <2> QED BY <1>4, <2>2, <2>3, <2>4
<1> HIDE DEF j
<1> QED BY <1>4, <1>5 DEF Tops

LEMMA SamplesAre ==
  ASSUME NEW x \in Samples
  PROVE  x.ts \in Nat /\ x.equity \in Nat /\ x.equity > 0
<1>1. MaxTs \in Nat /\ \A e \in Equities : e \in Nat /\ e # 0 BY AnalyticsAssumption
<1>2. x.ts \in 1..MaxTs /\ x.equity \in Equities BY DEF Samples
<1>3. x.ts \in Nat BY <1>1, <1>2
<1>4. x.equity \in Nat /\ x.equity # 0 BY <1>1, <1>2
<1> QED BY <1>3, <1>4

LEMMA CurveIs ==
  ASSUME NEW s, Curve(s), NEW i \in 1..Len(s)
  PROVE  s[i] \in Samples /\ s[i].ts \in Nat /\ s[i].equity \in Nat /\ s[i].equity > 0
<1>1. s[i] \in Samples BY DEF Curve
<1> QED BY <1>1, SamplesAre

LEMMA AreaIs ==
  ASSUME NEW s, Curve(s), NEW lo \in Nat, NEW hi \in lo..(Len(s) - 1), NEW A \in Samples, NEW P \in Samples
  PROVE  Area(s, A, P, lo, hi) \in Int
<1> DEFINE f == [k \in lo..hi |-> s[k + 1].ts]
<1> DEFINE g == [k \in lo..hi |-> s[k + 1].equity]
<1> DEFINE r == hi - lo + 1
<1> DEFINE x == SumOver(f, lo, hi)
<1> DEFINE y == SumOver(g, lo, hi)
<1> DEFINE v == (r * A.ts - x) * (P.equity - A.equity) - (A.ts - P.ts) * (y - r * A.equity)
<1>0. Area(s, A, P, lo, hi) = IF v < 0 THEN -v ELSE v BY DEF Area
<1>1. \A k \in lo..hi : k + 1 \in 1..Len(s) BY DEF Curve
<1>2. \A k \in lo..hi : f[k] \in Int /\ g[k] \in Int BY <1>1, CurveIs
<1>3. lo \in Int /\ hi \in Int /\ lo - 1 <= hi OBVIOUS
<1> HIDE DEF f, g
<1>4. x \in Int
  <2>1. \A k \in lo..hi : f[k] \in Int BY <1>2
  <2> QED BY <1>3, <2>1, SumIsInt
<1>5. y \in Int
  <2>1. \A k \in lo..hi : g[k] \in Int BY <1>2
  <2> QED BY <1>3, <2>1, SumIsInt
<1>6. A.ts \in Int /\ A.equity \in Int /\ P.ts \in Int /\ P.equity \in Int /\ r \in Int
  BY SamplesAre
<1> HIDE DEF x, y, r
<1>7. r * A.ts - x \in Int /\ P.equity - A.equity \in Int /\ A.ts - P.ts \in Int
      /\ y - r * A.equity \in Int
  <2>1. r * A.ts \in Int /\ r * A.equity \in Int BY <1>6
  <2> DEFINE u == r * A.ts
  <2> DEFINE w == r * A.equity
  <2> HIDE DEF u, w
  <2>2. u - x \in Int /\ y - w \in Int BY <1>4, <1>5, <2>1 DEF u, w
  <2> QED BY <1>6, <2>2 DEF u, w
<1>8. v \in Int BY <1>7
<1> HIDE DEF v
<1> QED BY <1>0, <1>8

\* A bucket has a point of largest triangle.
LEMMA PointIs ==
  ASSUME NEW s, Curve(s), NEW lo \in Nat, NEW hi \in lo..(Len(s) - 1), NEW a \in 0..(Len(s) - 1)
  PROVE  PickPoint(s, a, lo, hi) \in lo..hi
<1> DEFINE A == s[a + 1]
<1> DEFINE f == [k \in lo..hi |-> Area(s, A, s[k + 1], lo, hi)]
<1> DEFINE Picked(j) == \A k \in lo..hi :
              /\ Area(s, A, s[k + 1], lo, hi) <= Area(s, A, s[j + 1], lo, hi)
              /\ Area(s, A, s[k + 1], lo, hi) = Area(s, A, s[j + 1], lo, hi) => j <= k
<1>1. Len(s) \in Nat /\ a + 1 \in 1..Len(s) /\ \A k \in lo..hi : k + 1 \in 1..Len(s) BY DEF Curve
<1>2. A \in Samples /\ \A k \in lo..hi : s[k + 1] \in Samples BY <1>1, CurveIs
<1> HIDE DEF A
<1>3. \A k \in lo..hi : f[k] \in Int
  <2> SUFFICES ASSUME NEW k \in lo..hi PROVE f[k] \in Int OBVIOUS
  <2>1. Area(s, A, s[k + 1], lo, hi) \in Int BY <1>2, AreaIs
  <2> QED BY <2>1
<1>4. PICK j \in lo..hi : Tops(f, j, lo, hi)
  <2>1. lo \in Int /\ hi \in Int /\ lo <= hi OBVIOUS
  <2> HIDE DEF f
  <2> QED BY <1>3, <2>1, FirstMaximumFrom
<1>5. Picked(j) BY <1>4 DEF Tops
<1>6. PickPoint(s, a, lo, hi) = CHOOSE l \in lo..hi : Picked(l) BY DEF PickPoint, A
<1> HIDE DEF Picked
<1> QED BY <1>5, <1>6

\* The points chosen of the first i buckets, after the point 0.
InBuckets(x, i, n, k) ==
  /\ x \in Seq(0..(n - 1)) /\ Len(x) = i + 1 /\ x[1] = 0
  /\ \A j \in 1..i : x[j + 1] \in FirstIn(n, k, j - 1)..LastIn(n, k, j - 1)

Picked(s, k, x, i) ==
  Append(x, PickPoint(s, x[i], FirstIn(Len(s), k, i - 1), LastIn(Len(s), k, i - 1)))

LEMMA ChosenNext ==
  ASSUME NEW s, Curve(s), NEW k \in 3..(Len(s) - 1), NEW i \in 1..(k - 2), NEW x,
         InBuckets(x, i - 1, Len(s), k)
  PROVE  InBuckets(Picked(s, k, x, i), i, Len(s), k)
<1> DEFINE n == Len(s)
<1> DEFINE lo == FirstIn(n, k, i - 1)
<1> DEFINE hi == LastIn(n, k, i - 1)
<1> DEFINE v == PickPoint(s, x[i], lo, hi)
<1>1. n \in Nat /\ k \in 3..(n - 1) BY DEF Curve
<1>2. i - 1 \in 0..(k - 3) /\ i \in Nat BY <1>1
<1>3. lo \in 1..(n - 1) /\ hi \in lo..(n - 1)
  <2> HIDE DEF n
  <2> QED BY <1>1, <1>2, BucketsFollow
<1>4. /\ x \in Seq(0..(n - 1)) /\ Len(x) = i - 1 + 1 /\ x[1] = 0
      /\ \A j \in 1..(i - 1) : x[j + 1] \in FirstIn(n, k, j - 1)..LastIn(n, k, j - 1)
  BY DEF InBuckets
<1>5. Len(x) = i /\ x[i] \in 0..(n - 1)
  <2> HIDE DEF n
  <2> QED BY <1>1, <1>2, <1>4
<1>6. v \in lo..hi
  <2> DEFINE p == x[i]
  <2>1. lo \in Nat /\ hi \in lo..(Len(s) - 1) /\ p \in 0..(Len(s) - 1) BY <1>3, <1>5
  <2> HIDE DEF lo, hi, p, n
  <2>2. PickPoint(s, p, lo, hi) \in lo..hi BY <2>1, PointIs
  <2> QED BY <2>2 DEF p
<1>7. Picked(s, k, x, i) = Append(x, v) BY DEF Picked
<1> DEFINE y == Append(x, v)
<1>8. v \in 0..(n - 1)
  <2> HIDE DEF v, n, lo, hi
  <2> QED BY <1>1, <1>3, <1>6
<1>9. y \in Seq(0..(n - 1)) /\ Len(y) = i + 1 /\ y[i + 1] = v /\ \A j \in 1..i : y[j] = x[j]
  <2> HIDE DEF v, n
  <2> QED BY <1>2, <1>4, <1>5, <1>8
<1> HIDE DEF y, v
<1>10. ASSUME NEW j \in 1..i PROVE y[j + 1] \in FirstIn(n, k, j - 1)..LastIn(n, k, j - 1)
  <2>1. CASE j = i BY <1>6, <1>9, <2>1
  <2>2. CASE j # i
    <3>1. j \in 1..(i - 1) /\ j + 1 \in 1..i BY <1>2, <2>2
    <3> QED BY <1>4, <1>9, <3>1
  <2> QED BY <2>1, <2>2
<1>11. y[1] = 0 BY <1>2, <1>4, <1>9
<1> QED BY <1>7, <1>9, <1>10, <1>11 DEF InBuckets, y

LEMMA LttbPicks ==
  ASSUME NEW s, Curve(s), NEW k \in 3..(Len(s) - 1)
  PROVE  \E x : /\ InBuckets(x, k - 2, Len(s), k)
                /\ Lttb(s, k) = [i \in DOMAIN Append(x, Len(s) - 1) |-> s[Append(x, Len(s) - 1)[i] + 1]]
<1> DEFINE n == Len(s)
<1> DEFINE m == k - 2
<1> DEFINE V == Seq(0..(n - 1))
<1> DEFINE Takes(i, x) == Picked(s, k, x, i)
<1> DEFINE step == [p \in Int \X V |-> IF Takes(p[1], p[2]) \in V THEN Takes(p[1], p[2]) ELSE p[2]]
<1> DEFINE Goes(h) == h = [i \in 0..m |-> IF i = 0 THEN <<0>> ELSE Takes(i, h[i - 1])]
<1>1. n \in Nat /\ k \in 3..(n - 1) /\ m \in Nat /\ 0 \in Int /\ m \in Int /\ 0 <= m BY DEF Curve
<1>2. <<0>> \in V /\ InBuckets(<<0>>, 0, n, k)
  <2>1. 0 \in 0..(n - 1) /\ n - 1 \in Int BY <1>1
  <2> HIDE DEF n
  <2>2. <<0>> \in V BY <2>1
  <2> QED BY <2>2 DEF InBuckets
<1>3. step \in [Int \X V -> V]
  <2> HIDE DEF Takes, V
  <2> QED OBVIOUS
<1>4. PICK g : Recurs(g, 0, m, V, <<0>>, step)
  <2> HIDE DEF step, V, m
  <2> QED BY <1>1, <1>2, <1>3, Recursion
<1>5. \A i \in 0..m : InBuckets(g[i], i, n, k)
  <2> DEFINE R == {i \in 0..m : InBuckets(g[i], i, n, k)}
  <2>1. 0 \in R
    <3> DEFINE base == <<0>>
    <3>0. Recurs(g, 0, m, V, base, step) /\ InBuckets(base, 0, n, k) BY <1>2, <1>4
    <3> HIDE DEF step, V, m, base
    <3>1. 0 \in 0..m BY <1>1
    <3>2. g[0] = base BY <3>0, <3>1 DEF Recurs
    <3> QED BY <3>0, <3>1, <3>2
  <2>2. ASSUME NEW i \in 0..m, i # 0, i - 1 \in R PROVE i \in R
    <3> DEFINE x == g[i - 1]
    <3>1. i \in 1..(k - 2) /\ i - 1 \in 0..m /\ InBuckets(x, i - 1, n, k) BY <1>1, <2>2
    <3>2. x \in V BY <1>4, <3>1 DEF Recurs
    <3>3. g[i] = step[<<i, x>>]
      <4> HIDE DEF step, V, m
      <4> QED BY <1>4, <2>2 DEF Recurs
    <3> HIDE DEF x
    <3>4. InBuckets(Takes(i, x), i, n, k) BY <1>1, <3>1, ChosenNext
    <3>5. Takes(i, x) \in V BY <3>4 DEF InBuckets
    <3>6. step[<<i, x>>] = Takes(i, x)
      <4> HIDE DEF Takes, V
      <4> QED BY <3>2, <3>5
    <3> HIDE DEF step, Takes
    <3> QED BY <2>2, <3>3, <3>4, <3>6
  <2> HIDE DEF R, m
  <2>3. \A i \in 0..m : i \in R BY <1>1, <2>1, <2>2, UpTo
  <2> QED BY <2>3 DEF R
<1>6. Goes(g)
  <2>1. ASSUME NEW i \in 0..m PROVE g[i] = IF i = 0 THEN <<0>> ELSE Takes(i, g[i - 1])
    <3>1. g[i] = IF i = 0 THEN <<0>> ELSE step[<<i, g[i - 1]>>]
      <4> HIDE DEF step, V, m
      <4> QED BY <1>4 DEF Recurs
    <3>2. CASE i # 0
      <4> DEFINE x == g[i - 1]
      <4>1. i \in 1..(k - 2) /\ i - 1 \in 0..m BY <1>1, <3>2
      <4>2. InBuckets(x, i - 1, n, k) BY <1>5, <4>1
      <4>3. x \in V BY <4>2 DEF InBuckets
      <4>4. InBuckets(Takes(i, x), i, n, k)
        <5> HIDE DEF x
        <5> QED BY <1>1, <4>1, <4>2, ChosenNext
      <4>5. Takes(i, x) \in V BY <4>4 DEF InBuckets
      <4> HIDE DEF x
      <4>6. step[<<i, x>>] = Takes(i, x)
        <5> HIDE DEF Takes, V
        <5> QED BY <4>3, <4>5
      <4> HIDE DEF step, Takes
      <4> QED BY <3>1, <3>2, <4>6 DEF x
    <3> HIDE DEF Takes, step
    <3> QED BY <3>1, <3>2
  <2>2. g = [i \in 0..m |-> g[i]] BY <1>4 DEF Recurs
  <2> HIDE DEF Takes, m
  <2> QED BY <2>1, <2>2
<1> DEFINE all == CHOOSE h : Goes(h)
<1>7. Goes(all)
  <2> HIDE DEF Goes
  <2> QED BY <1>6
<1> DEFINE at == Append(all[m], n - 1)
<1>8. Lttb(s, k) = [i \in DOMAIN at |-> s[at[i] + 1]]
  <2>1. ~(k >= n \/ k <= 0) /\ ~(k < 3) BY <1>1
  <2> QED BY <2>1 DEF Lttb, Picked
<1> HIDE DEF all
<1>9. InBuckets(all[m], m, n, k)
  <2> DEFINE R == {i \in 0..m : InBuckets(all[i], i, n, k)}
  <2>1. 0 \in R
    <3>1. 0 \in 0..m BY <1>1
    <3>2. all[0] = <<0>> BY <1>7, <3>1
    <3> QED BY <1>2, <3>1, <3>2
  <2>2. ASSUME NEW i \in 0..m, i # 0, i - 1 \in R PROVE i \in R
    <3> DEFINE x == all[i - 1]
    <3>1. i \in 1..(k - 2) /\ InBuckets(x, i - 1, n, k) BY <1>1, <2>2
    <3>2. all[i] = Takes(i, x)
      <4> HIDE DEF Takes, m
      <4> QED BY <1>7, <2>2
    <3> HIDE DEF x
    <3>3. InBuckets(Takes(i, x), i, n, k) BY <1>1, <3>1, ChosenNext
    <3> QED BY <2>2, <3>2, <3>3
  <2> HIDE DEF R, m
  <2>3. \A i \in 0..m : i \in R BY <1>1, <2>1, <2>2, UpTo
  <2>4. m \in R BY <1>1, <2>3
  <2> QED BY <2>4 DEF R
<1> QED BY <1>8, <1>9

\* r is s at places that do not go back.
Along(r, h, m, s) ==
  /\ h \in [1..m -> 1..Len(s)] /\ DOMAIN r = 1..m /\ \A i \in 1..m : r[i] = s[h[i]]
  /\ \A i \in 1..m : i > 1 => h[i - 1] <= h[i]

LEMMA SubsequenceIs ==
  ASSUME NEW s, Curve(s), NEW m \in Nat, NEW r, NEW h, Along(r, h, m, s)
  PROVE  Subsequence(r, s)
<1> SUFFICES ASSUME NEW i \in 1..m PROVE r[i] \in Range(s) /\ (i > 1 => r[i - 1].ts <= r[i].ts)
  BY DEF Along, Subsequence
<1>1. Len(s) \in Nat /\ DOMAIN s = 1..Len(s) BY DEF Curve
<1>2. r[i] = s[h[i]] /\ h[i] \in 1..Len(s) BY DEF Along
<1>3. r[i] \in Range(s) BY <1>1, <1>2 DEF Range
<1>4. ASSUME i > 1 PROVE r[i - 1].ts <= r[i].ts
  <2>1. i - 1 \in 1..m BY <1>4
  <2>2. r[i - 1] = s[h[i - 1]] /\ h[i - 1] \in 1..Len(s) /\ h[i - 1] <= h[i]
    BY <1>4, <2>1 DEF Along
  <2>3. s[h[i - 1]].ts \in Nat /\ s[h[i]].ts \in Nat BY <1>2, <2>2, CurveIs
  <2>4. CASE h[i - 1] = h[i] BY <1>2, <2>2, <2>3, <2>4
  <2>5. CASE h[i - 1] # h[i]
    <3>1. h[i - 1] < h[i] BY <1>1, <1>2, <2>2, <2>5
    <3>2. s[h[i - 1]].ts < s[h[i]].ts BY <1>2, <2>2, <3>1 DEF Curve, Rises
    <3> QED BY <1>2, <2>2, <2>3, <3>2
  <2> QED BY <2>4, <2>5
<1> QED BY <1>3, <1>4

\* What lttb keeps.
LttbKeeps(r, s, k) ==
  /\ Len(r) = k /\ r[1] = s[1] /\ r[k] = s[Len(s)] /\ Subsequence(r, s)
  /\ \A i \in 2..k : r[i - 1] # r[i] \/ i = k

LEMMA LttbKeepsShape ==
  ASSUME NEW s, Curve(s), NEW k \in 2..(Len(s) - 1)
  PROVE  LttbKeeps(Lttb(s, k), s, k)
<1> DEFINE n == Len(s)
<1> DEFINE r == Lttb(s, k)
<1>1. n \in Nat /\ k \in 2..(n - 1) /\ 1 \in 1..n /\ n \in 1..n /\ n > 2 BY DEF Curve
<1>2. CASE k = 2
  <2> DEFINE h == [i \in 1..2 |-> IF i = 1 THEN 1 ELSE n]
  <2>1. r = <<s[1], s[n]>> BY <1>1, <1>2 DEF Lttb
  <2>2. DOMAIN r = 1..2 /\ Len(r) = 2 /\ r[1] = s[1] /\ r[2] = s[n] BY <2>1
  <2>3. h \in [1..2 -> 1..n] /\ h[1] = 1 /\ h[2] = n /\ \A i \in 1..2 : i = 1 \/ i = 2 BY <1>1
  <2> HIDE DEF r, h
  <2>4. \A i \in 1..2 : r[i] = s[h[i]] /\ (i > 1 => h[i - 1] <= h[i])
    <3> SUFFICES ASSUME NEW i \in 1..2 PROVE r[i] = s[h[i]] /\ (i > 1 => h[i - 1] <= h[i]) OBVIOUS
    <3>1. CASE i = 1 BY <2>2, <2>3, <3>1
    <3>2. CASE i = 2
      <4>1. i - 1 = 1 BY <3>2
      <4> QED BY <1>1, <2>2, <2>3, <3>2, <4>1
    <3> QED BY <2>3, <3>1, <3>2
  <2>5. Along(r, h, 2, s) BY <2>2, <2>3, <2>4 DEF Along
  <2>6. Subsequence(r, s) BY <2>5, SubsequenceIs
  <2>7. \A i \in 2..k : i = k BY <1>2
  <2> QED BY <1>2, <2>2, <2>6, <2>7 DEF LttbKeeps, r
<1>3. CASE k # 2
  <2>1. k \in 3..(Len(s) - 1) BY <1>1, <1>3
  <2>2. PICK x : /\ InBuckets(x, k - 2, n, k)
                 /\ r = [i \in DOMAIN Append(x, n - 1) |-> s[Append(x, n - 1)[i] + 1]]
    BY <2>1, LttbPicks
  <2> DEFINE at == Append(x, n - 1)
  <2> DEFINE h == [i \in 1..k |-> at[i] + 1]
  <2>3. /\ x \in Seq(0..(n - 1)) /\ Len(x) = k - 1 /\ x[1] = 0
        /\ \A j \in 1..(k - 2) : x[j + 1] \in FirstIn(n, k, j - 1)..LastIn(n, k, j - 1)
    <3>1. k - 2 + 1 = k - 1 BY <1>1
    <3> QED BY <2>2, <3>1 DEF InBuckets
  <2>4. /\ DOMAIN at = 1..k /\ at[k] = n - 1 /\ at[1] = 0
        /\ \A i \in 1..k : at[i] \in 0..(n - 1)
        /\ \A i \in 1..(k - 1) : at[i] = x[i]
    <3>1. n - 1 \in 0..(n - 1) BY <1>1
    <3>2. at \in Seq(0..(n - 1)) /\ Len(at) = k BY <1>1, <2>3, <3>1
    <3>3. at[k] = n - 1 /\ \A i \in 1..(k - 1) : at[i] = x[i] BY <1>1, <2>3
    <3>4. DOMAIN at = 1..k /\ \A i \in 1..k : at[i] \in 0..(n - 1)
      <4> DEFINE S == 0..(n - 1)
      <4>1. at \in Seq(S) /\ Len(at) = k BY <3>2
      <4> HIDE DEF at, n, S
      <4>2. DOMAIN at = 1..k /\ \A i \in 1..k : at[i] \in S BY <4>1
      <4> QED BY <4>2 DEF S
    <3>5. at[1] = 0 BY <1>1, <2>1, <2>3, <3>3
    <3> QED BY <3>3, <3>4, <3>5
  <2>5. r = [i \in 1..k |-> s[at[i] + 1]] BY <2>2, <2>4
  <2>6. \A j \in 1..(k - 2) : x[j] < x[j + 1] /\ x[j] \in Int /\ x[j + 1] \in Int
    <3> SUFFICES ASSUME NEW j \in 1..(k - 2)
                 PROVE  x[j] < x[j + 1] /\ x[j] \in Int /\ x[j + 1] \in Int
      OBVIOUS
    <3>1. n \in Nat /\ k \in 3..(n - 1) BY <1>1, <2>1
    <3>2. j - 1 \in 0..(k - 3) BY <3>1
    <3>3. FirstIn(n, k, j - 1) \in 1..(n - 1) /\ LastIn(n, k, j - 1) \in FirstIn(n, k, j - 1)..(n - 1)
      <4> HIDE DEF n
      <4> QED BY <3>1, <3>2, BucketsFollow
    <3>4. x[j + 1] \in FirstIn(n, k, j - 1)..LastIn(n, k, j - 1) BY <2>3
    <3>5. CASE j = 1 BY <2>3, <3>3, <3>4, <3>5
    <3>6. CASE j # 1
      <4> DEFINE i == j - 2
      <4>1. i \in 0..(k - 4) /\ i \in 0..(k - 3) /\ i + 1 = j - 1 /\ j - 1 \in 1..(k - 2) BY <3>1, <3>6
      <4>2. LastIn(n, k, i) < FirstIn(n, k, i + 1) /\ LastIn(n, k, i) \in FirstIn(n, k, i)..(n - 1)
            /\ FirstIn(n, k, i) \in 1..(n - 1)
        <5> HIDE DEF n, i
        <5> QED BY <3>1, <4>1, BucketsFollow
      <4>3. x[j] \in FirstIn(n, k, i)..LastIn(n, k, i)
        <5>1. (j - 1) + 1 = j /\ (j - 1) - 1 = i BY <3>1
        <5>2. x[(j - 1) + 1] \in FirstIn(n, k, (j - 1) - 1)..LastIn(n, k, (j - 1) - 1) BY <2>3, <4>1
        <5> QED BY <5>1, <5>2
      <4> HIDE DEF n
      <4> QED BY <3>3, <3>4, <4>1, <4>2, <4>3
    <3> QED BY <3>5, <3>6
  <2>7. h \in [1..k -> 1..n]
    <3> HIDE DEF at, n
    <3> QED BY <1>1, <2>4
  <2>8. ASSUME NEW i \in 1..k, i > 1 PROVE h[i - 1] <= h[i] /\ (i # k => h[i - 1] < h[i])
    <3>1. i - 1 \in 1..(k - 1) /\ i - 1 \in 1..k BY <1>1, <2>8
    <3>2. h[i - 1] = at[i - 1] + 1 /\ h[i] = at[i] + 1 BY <3>1
    <3>3. CASE i = k
      <4>1. at[i - 1] \in 0..(n - 1) /\ at[i] = n - 1 BY <2>4, <3>1, <3>3
      <4> HIDE DEF at, n, h
      <4> QED BY <1>1, <3>2, <3>3, <4>1
    <3>4. CASE i # k
      <4>1. i - 1 \in 1..(k - 2) /\ i \in 1..(k - 1) /\ (i - 1) + 1 = i BY <1>1, <2>8, <3>4
      <4>2. at[i - 1] = x[i - 1] /\ at[i] = x[i] BY <2>4, <3>1, <4>1
      <4>3. x[i - 1] < x[i] /\ x[i - 1] \in Int /\ x[i] \in Int BY <2>6, <4>1
      <4> HIDE DEF at, n, h
      <4> QED BY <3>2, <4>2, <4>3
    <3> QED BY <3>3, <3>4
  <2>9. Len(r) = k /\ DOMAIN r = 1..k /\ \A i \in 1..k : r[i] = s[h[i]]
    <3>1. DOMAIN r = 1..k /\ \A i \in 1..k : r[i] = s[h[i]] BY <2>5
    <3>2. r \in Seq(Range(r))
      <4>1. r \in [1..k -> Range(r)] /\ k \in Nat
        <5> HIDE DEF at
        <5> QED BY <1>1, <2>5 DEF Range
      <4> HIDE DEF r
      <4> QED BY <4>1
    <3>3. Len(r) = k
      <4> HIDE DEF r
      <4> QED BY <1>1, <3>1, <3>2
    <3> QED BY <3>1, <3>3
  <2>10. h[1] = 1 /\ h[k] = n
    <3>1. 1 \in 1..k /\ k \in 1..k BY <1>1
    <3>2. h[1] = at[1] + 1 /\ h[k] = at[k] + 1 BY <3>1
    <3> HIDE DEF h, at
    <3> QED BY <1>1, <2>4, <3>2
  <2> HIDE DEF r, h, at
  <2>11. Along(r, h, k, s) BY <2>7, <2>8, <2>9 DEF Along
  <2>12. Subsequence(r, s) BY <1>1, <2>11, SubsequenceIs
  <2>13. r[1] = s[1] /\ r[k] = s[n] BY <1>1, <2>9, <2>10
  <2>14. ASSUME NEW i \in 2..k, i # k PROVE r[i - 1] # r[i]
    <3>1. i \in 1..k /\ i - 1 \in 1..k /\ i > 1 BY <1>1
    <3>2. h[i - 1] < h[i] /\ h[i - 1] \in 1..Len(s) /\ h[i] \in 1..Len(s) BY <2>7, <2>8, <2>14, <3>1
    <3>3. s[h[i - 1]].ts < s[h[i]].ts BY <3>2 DEF Curve, Rises
    <3>4. s[h[i - 1]].ts \in Nat /\ s[h[i]].ts \in Nat BY <3>2, CurveIs
    <3> QED BY <2>9, <3>1, <3>3, <3>4
  <2> QED BY <2>9, <2>12, <2>13, <2>14 DEF LttbKeeps, r
<1> QED BY <1>2, <1>3

-----------------------------------------------------------------------------
(* Douglas-Peucker: the recursion ends, at ever shorter spans.              *)

LEMMA DistanceIs ==
  ASSUME NEW A \in Samples, NEW B \in Samples, NEW P \in Samples
  PROVE  SegmentDistance(A, B, P) \in Int /\ SegmentLength(A, B) \in Int
<1> DEFINE dx == B.ts - A.ts
<1> DEFINE dy == B.equity - A.equity
<1> DEFINE px == P.ts - A.ts
<1> DEFINE py == P.equity - A.equity
<1> DEFINE length == dx * dx + dy * dy
<1> DEFINE along == px * dx + py * dy
<1> DEFINE cross == px * dy - py * dx
<1>1. dx \in Int /\ dy \in Int /\ px \in Int /\ py \in Int BY SamplesAre
<1>2. SegmentDistance(A, B, P) =
        IF along <= 0 THEN (px * px + py * py) * length
        ELSE IF along >= length
             THEN ((px - dx) * (px - dx) + (py - dy) * (py - dy)) * length
             ELSE cross * cross
  BY DEF SegmentDistance
<1>3. SegmentLength(A, B) = length BY DEF SegmentLength
<1> HIDE DEF dx, dy, px, py
<1>4. length \in Int /\ cross \in Int BY <1>1
<1>5. px * px + py * py \in Int /\ (px - dx) * (px - dx) + (py - dy) * (py - dy) \in Int
  BY <1>1
<1> DEFINE u == px * px + py * py
<1> DEFINE v == (px - dx) * (px - dx) + (py - dy) * (py - dy)
<1> HIDE DEF length, along, cross, u, v
<1>6. u * length \in Int /\ v * length \in Int /\ cross * cross \in Int BY <1>4, <1>5 DEF u, v
<1> QED BY <1>2, <1>3, <1>4, <1>6 DEF u, v

\* The farthest of the points between a and b is between them, and none is farther.
LEMMA FarthestIs ==
  ASSUME NEW s, Curve(s), NEW a \in 1..Len(s), NEW b \in 1..Len(s), a + 1 < b
  PROVE  /\ Farthest(s, a, b) \in (a + 1)..(b - 1)
         /\ \A k \in (a + 1)..(b - 1) :
              SegmentDistance(s[a], s[b], s[k]) <= SegmentDistance(s[a], s[b], s[Farthest(s, a, b)])
<1> DEFINE lo == a + 1
<1> DEFINE hi == b - 1
<1> DEFINE f == [k \in lo..hi |-> SegmentDistance(s[a], s[b], s[k])]
<1> DEFINE Far(i) == \A k \in lo..hi :
              /\ SegmentDistance(s[a], s[b], s[k]) <= SegmentDistance(s[a], s[b], s[i])
              /\ SegmentDistance(s[a], s[b], s[k]) = SegmentDistance(s[a], s[b], s[i]) => i <= k
<1>1. Len(s) \in Nat BY DEF Curve
<1>2. lo \in Int /\ hi \in Int /\ lo <= hi /\ \A k \in lo..hi : k \in 1..Len(s) BY <1>1
<1>3. \A k \in lo..hi : f[k] \in Int
  <2> SUFFICES ASSUME NEW k \in lo..hi PROVE f[k] \in Int OBVIOUS
  <2>1. s[a] \in Samples /\ s[b] \in Samples /\ s[k] \in Samples BY <1>2, CurveIs
  <2>2. SegmentDistance(s[a], s[b], s[k]) \in Int BY <2>1, DistanceIs
  <2> QED BY <2>2
<1>4. PICK j \in lo..hi : Tops(f, j, lo, hi)
  <2> HIDE DEF f, lo, hi
  <2> QED BY <1>2, <1>3, FirstMaximumFrom
<1>5. Far(j)
  <2> HIDE DEF lo, hi
  <2> QED BY <1>4 DEF Tops
<1>6. Farthest(s, a, b) = CHOOSE i \in lo..hi : Far(i) BY DEF Farthest
<1>7. Farthest(s, a, b) \in lo..hi /\ Far(Farthest(s, a, b))
  <2> HIDE DEF Far
  <2> QED BY <1>4, <1>5, <1>6
<1> QED BY <1>7

\* One step of the recursion, of what it gives of shorter spans.
Span(s, eps, h, p) ==
  LET far == Farthest(s, p[1], p[2])
  IN IF Splits(s, p[1], p[2], eps) THEN h[<<p[1], far>>] \o h[<<far, p[2]>>]
     ELSE <<s[p[1]]>> \o Ending(s, p[2])

Pairs(s) == (1..Len(s)) \X (1..Len(s))

SpansUp(h, s, eps) ==
  h \in [Pairs(s) -> Seq(Samples)] /\ \A p \in Pairs(s) : h[p] = Span(s, eps, h, p)

LEMMA PairIs ==
  ASSUME NEW s, Curve(s), NEW p \in Pairs(s)
  PROVE  /\ p[1] \in 1..Len(s) /\ p[2] \in 1..Len(s) /\ p = <<p[1], p[2]>>
         /\ p[1] \in Int /\ p[2] \in Int
BY DEF Pairs, Curve

LEMMA SplitIs ==
  ASSUME NEW s, Curve(s), NEW eps, NEW p \in Pairs(s), Splits(s, p[1], p[2], eps)
  PROVE  LET far == Farthest(s, p[1], p[2])
         IN far \in (p[1] + 1)..(p[2] - 1) /\ <<p[1], far>> \in Pairs(s) /\ <<far, p[2]>> \in Pairs(s)
<1> DEFINE a == p[1]
<1> DEFINE b == p[2]
<1> DEFINE far == Farthest(s, a, b)
<1>1. a \in 1..Len(s) /\ b \in 1..Len(s) /\ Len(s) \in Nat BY PairIs DEF Curve
<1>2. a + 1 < b BY DEF Splits
<1> HIDE DEF a, b
<1>3. far \in (a + 1)..(b - 1) BY <1>1, <1>2, FarthestIs
<1> HIDE DEF far
<1>4. far \in 1..Len(s) BY <1>1, <1>3
<1> QED BY <1>1, <1>3, <1>4 DEF Pairs, far, a, b

LEMMA SpanIs ==
  ASSUME NEW s, Curve(s), NEW eps, NEW h \in [Pairs(s) -> Seq(Samples)], NEW p \in Pairs(s)
  PROVE  Span(s, eps, h, p) \in Seq(Samples)
<1> DEFINE far == Farthest(s, p[1], p[2])
<1>1. p[1] \in 1..Len(s) /\ p[2] \in 1..Len(s) BY PairIs
<1>2. CASE Splits(s, p[1], p[2], eps)
  <2>1. <<p[1], far>> \in Pairs(s) /\ <<far, p[2]>> \in Pairs(s) BY <1>2, SplitIs
  <2> HIDE DEF far
  <2>2. h[<<p[1], far>>] \in Seq(Samples) /\ h[<<far, p[2]>>] \in Seq(Samples) BY <2>1
  <2>3. Span(s, eps, h, p) = h[<<p[1], far>>] \o h[<<far, p[2]>>] BY <1>2 DEF Span, far
  <2> QED BY <2>2, <2>3
<1>3. CASE ~Splits(s, p[1], p[2], eps)
  <2>1. s[p[1]] \in Samples /\ s[p[2]] \in Samples BY <1>1, CurveIs
  <2>2. Ending(s, p[2]) \in Seq(Samples) BY <2>1 DEF Ending
  <2>3. Span(s, eps, h, p) = <<s[p[1]]>> \o Ending(s, p[2]) BY <1>3 DEF Span
  <2>4. <<s[p[1]]>> \in Seq(Samples) BY <2>1
  <2> HIDE DEF far
  <2> QED BY <2>2, <2>3, <2>4
<1> QED BY <1>2, <1>3

LEMMA SimplifyUnfolds ==
  ASSUME NEW s, Curve(s), NEW eps
  PROVE  \E h : SpansUp(h, s, eps) /\ Simplify(s, eps) = IF Len(s) <= 2 THEN s ELSE h[<<1, Len(s)>>]
<1> DEFINE n == Len(s)
<1> DEFINE D == Pairs(s)
<1> DEFINE V == [D -> Seq(Samples)]
<1> DEFINE Next1(h) == [p \in D |-> Span(s, eps, h, p)]
<1> DEFINE step == [q \in Int \X V |-> Next1(q[2])]
<1> DEFINE none == [p \in D |-> <<>>]
<1> DEFINE m == n + 1
<1>1. n \in Nat /\ 0 \in Int /\ m \in Int /\ 0 <= m BY DEF Curve
<1>2. none \in V /\ \A h \in V : Next1(h) \in V
  <2>1. none \in V
    <3> HIDE DEF D
    <3> QED OBVIOUS
  <2>2. ASSUME NEW h \in V PROVE Next1(h) \in V
    <3>1. \A p \in D : Span(s, eps, h, p) \in Seq(Samples) BY <2>2, SpanIs
    <3> HIDE DEF D
    <3> QED BY <3>1
  <2> QED BY <2>1, <2>2
<1>3. step \in [Int \X V -> V]
  <2> HIDE DEF V, Next1
  <2> QED BY <1>2
<1>4. PICK F : Recurs(F, 0, m, V, none, step)
  <2> HIDE DEF step, V, none, m
  <2> QED BY <1>1, <1>2, <1>3, Recursion
<1>5. ASSUME NEW w \in 1..m PROVE F[w] = Next1(F[w - 1]) /\ F[w - 1] \in V /\ F[w] \in V
  <2>1. w \in 0..m /\ w - 1 \in 0..m /\ w # 0 BY <1>1
  <2>2. F[w] = step[<<w, F[w - 1]>>] /\ F[w - 1] \in V /\ F[w] \in V
    <3> HIDE DEF step, V, none, m
    <3> QED BY <1>4, <2>1 DEF Recurs
  <2>3. step[<<w, F[w - 1]>>] = Next1(F[w - 1])
    <3> HIDE DEF V, Next1
    <3> QED BY <2>1, <2>2
  <2> QED BY <2>2, <2>3
<1> DEFINE Same(w) == \A p \in D : p[2] - p[1] <= w => F[w + 1][p] = F[w][p]
<1>6. Same(n)
  <2> DEFINE R == {w \in 1..n : Same(w)}
  <2>0. CASE n = 0
    <3>1. D = {} BY <2>0 DEF Pairs
    <3> QED BY <3>1
  <2>1. CASE n # 0
    <3>1. 1 \in R
      <4>1. 1 \in 1..n /\ 1 \in 1..m /\ 1 + 1 \in 1..m BY <1>1, <2>1
      <4>2. ASSUME NEW p \in D, p[2] - p[1] <= 1 PROVE F[1 + 1][p] = F[1][p]
        <5>1. p[1] \in Int /\ p[2] \in Int BY PairIs
        <5>2. ~Splits(s, p[1], p[2], eps) BY <4>2, <5>1 DEF Splits
        <5>3. \A h : Span(s, eps, h, p) = <<s[p[1]]>> \o Ending(s, p[2]) BY <5>2 DEF Span
        <5>4. F[1] = Next1(F[1 - 1]) /\ F[1 + 1] = Next1(F[1 + 1 - 1])
          <6> HIDE DEF Next1, m
          <6> QED BY <1>5, <4>1
        <5>5. F[1][p] = Span(s, eps, F[1 - 1], p) /\ F[1 + 1][p] = Span(s, eps, F[1 + 1 - 1], p)
          <6> HIDE DEF D
          <6> QED BY <5>4
        <5> QED BY <5>3, <5>5
      <4> QED BY <4>1, <4>2
    <3>2. ASSUME NEW w \in 1..n, w # 1, w - 1 \in R PROVE w \in R
      <4>1. w \in 1..m /\ w + 1 \in 1..m /\ w \in Int /\ (w - 1) + 1 = w /\ (w + 1) - 1 = w BY <1>1
      <4>2. ASSUME NEW p \in D, p[2] - p[1] <= w PROVE F[w + 1][p] = F[w][p]
        <5> DEFINE far == Farthest(s, p[1], p[2])
        <5>1. F[w] = Next1(F[w - 1]) /\ F[w + 1] = Next1(F[(w + 1) - 1])
          <6> HIDE DEF Next1, m
          <6> QED BY <1>5, <4>1
        <5>2. F[w][p] = Span(s, eps, F[w - 1], p) /\ F[w + 1][p] = Span(s, eps, F[w], p)
          <6> HIDE DEF D
          <6> QED BY <4>1, <5>1
        <5>3. CASE Splits(s, p[1], p[2], eps)
          <6>1. far \in (p[1] + 1)..(p[2] - 1) /\ <<p[1], far>> \in D /\ <<far, p[2]>> \in D
            BY <5>3, SplitIs
          <6>2. p[1] \in Int /\ p[2] \in Int BY PairIs
          <6> HIDE DEF far
          <6>3. far - p[1] <= w - 1 /\ p[2] - far <= w - 1 BY <4>1, <4>2, <6>1, <6>2
          <6>4. Same(w - 1) BY <3>2
          <6>5. /\ <<p[1], far>>[2] = far /\ <<p[1], far>>[1] = p[1]
                /\ <<far, p[2]>>[2] = p[2] /\ <<far, p[2]>>[1] = far
            OBVIOUS
          <6>6. F[w][<<p[1], far>>] = F[w - 1][<<p[1], far>>]
                /\ F[w][<<far, p[2]>>] = F[w - 1][<<far, p[2]>>]
            <7> DEFINE x == <<p[1], far>>
            <7> DEFINE y == <<far, p[2]>>
            <7>1. x \in D /\ y \in D /\ x[2] - x[1] <= w - 1 /\ y[2] - y[1] <= w - 1
              BY <6>1, <6>3, <6>5
            <7> HIDE DEF x, y, D
            <7>2. F[w][x] = F[w - 1][x] /\ F[w][y] = F[w - 1][y] BY <4>1, <6>4, <7>1
            <7> QED BY <7>2 DEF x, y
          <6>7. \A h : Span(s, eps, h, p) = h[<<p[1], far>>] \o h[<<far, p[2]>>] BY <5>3 DEF Span, far
          <6> QED BY <5>2, <6>6, <6>7
        <5>4. CASE ~Splits(s, p[1], p[2], eps)
          <6>1. \A h : Span(s, eps, h, p) = <<s[p[1]]>> \o Ending(s, p[2]) BY <5>4 DEF Span
          <6> QED BY <5>2, <6>1
        <5> QED BY <5>3, <5>4
      <4> QED BY <4>1, <4>2
    <3>3. \A w \in 1..n : w \in R
      <4>1. 1 \in Int /\ n \in Int BY <1>1
      <4> HIDE DEF R, n
      <4> QED BY <3>1, <3>2, <4>1, UpTo
    <3>4. n \in R
      <4> HIDE DEF R
      <4> QED BY <1>1, <2>1, <3>3
    <3> QED BY <3>4
  <2> QED BY <2>0, <2>1
<1> DEFINE g == F[n]
<1> DEFINE Goes(h) == h = [p \in (1..n) \X (1..n) |->
              LET far == Farthest(s, p[1], p[2])
              IN IF Splits(s, p[1], p[2], eps) THEN h[<<p[1], far>>] \o h[<<far, p[2]>>]
                 ELSE <<s[p[1]]>> \o Ending(s, p[2])]
<1>7. ASSUME NEW h PROVE Goes(h) <=> h = Next1(h) BY DEF Span, Pairs
<1>8. g \in V /\ g = Next1(g)
  <2>1. m \in 1..m /\ m - 1 = n BY <1>1
  <2>2. F[m] = Next1(g) /\ g \in V /\ F[m] \in V
    <3> HIDE DEF Next1, V, m
    <3> QED BY <1>5, <2>1
  <2>3. \A p \in D : p[2] - p[1] <= n
    <3> SUFFICES ASSUME NEW p \in D PROVE p[2] - p[1] <= n OBVIOUS
    <3>1. p[1] \in 1..n /\ p[2] \in 1..n BY PairIs
    <3> HIDE DEF n
    <3> QED BY <1>1, <3>1
  <2>4. \A p \in D : F[m][p] = g[p] BY <1>6, <2>3
  <2>5. F[m] = g
    <3> HIDE DEF D, m, g
    <3> QED BY <2>2, <2>4
  <2> QED BY <2>2, <2>5
<1> DEFINE rec == CHOOSE h : Goes(h)
<1>9. Goes(rec)
  <2>1. Goes(g)
    <3> HIDE DEF Goes, g, Next1
    <3> QED BY <1>7, <1>8
  <2> HIDE DEF Goes
  <2> QED BY <2>1
<1>10. Simplify(s, eps) = IF n <= 2 THEN s ELSE rec[<<1, n>>] BY DEF Simplify
<1> HIDE DEF rec
<1>11. rec = Next1(rec) BY <1>7, <1>9
<1>12. \A p \in D : rec[p] = Span(s, eps, rec, p)
  <2> HIDE DEF D
  <2> QED BY <1>11
<1>13. \A w \in 0..n : \A p \in D : p[2] - p[1] <= w => rec[p] \in Seq(Samples)
  <2> DEFINE Typed(w) == \A p \in D : p[2] - p[1] <= w => rec[p] \in Seq(Samples)
  <2> DEFINE R == {w \in 0..n : Typed(w)}
  <2>1. ASSUME NEW w \in 0..n, w = 0 \/ w - 1 \in R, NEW p \in D, p[2] - p[1] <= w
        PROVE  rec[p] \in Seq(Samples)
    <3> DEFINE far == Farthest(s, p[1], p[2])
    <3>0. rec[p] = Span(s, eps, rec, p) BY <1>12
    <3>1. p[1] \in Int /\ p[2] \in Int /\ p[1] \in 1..n /\ p[2] \in 1..n BY PairIs
    <3>2. CASE Splits(s, p[1], p[2], eps)
      <4>1. far \in (p[1] + 1)..(p[2] - 1) /\ <<p[1], far>> \in D /\ <<far, p[2]>> \in D
        BY <3>2, SplitIs
      <4> HIDE DEF far
      <4>2. far - p[1] <= w - 1 /\ p[2] - far <= w - 1 /\ w # 0 BY <1>1, <2>1, <3>1, <4>1
      <4>3. Typed(w - 1) BY <2>1, <4>2
      <4> DEFINE x == <<p[1], far>>
      <4> DEFINE y == <<far, p[2]>>
      <4>4. x \in D /\ y \in D /\ x[2] - x[1] <= w - 1 /\ y[2] - y[1] <= w - 1 BY <4>1, <4>2
      <4>5. rec[p] = rec[x] \o rec[y] BY <3>0, <3>2 DEF Span, far
      <4> HIDE DEF x, y, D
      <4>6. rec[x] \in Seq(Samples) /\ rec[y] \in Seq(Samples) BY <4>3, <4>4
      <4> QED BY <4>5, <4>6
    <3>3. CASE ~Splits(s, p[1], p[2], eps)
      <4>1. s[p[1]] \in Samples /\ s[p[2]] \in Samples BY <3>1, CurveIs
      <4>2. Ending(s, p[2]) \in Seq(Samples) /\ <<s[p[1]]>> \in Seq(Samples) BY <4>1 DEF Ending
      <4>3. rec[p] = <<s[p[1]]>> \o Ending(s, p[2]) BY <3>0, <3>3 DEF Span
      <4> HIDE DEF far
      <4> QED BY <4>2, <4>3
    <3> QED BY <3>2, <3>3
  <2>2. 0 \in R
    <3>1. 0 \in 0..n BY <1>1
    <3> QED BY <2>1, <3>1
  <2>3. ASSUME NEW w \in 0..n, w # 0, w - 1 \in R PROVE w \in R BY <2>1, <2>3
  <2>4. \A w \in 0..n : w \in R
    <3>1. 0 \in Int /\ n \in Int BY <1>1
    <3> HIDE DEF R, n
    <3> QED BY <2>2, <2>3, <3>1, UpTo
  <2> QED BY <2>4
<1>14. \A p \in D : rec[p] \in Seq(Samples)
  <2> SUFFICES ASSUME NEW p \in D PROVE rec[p] \in Seq(Samples) OBVIOUS
  <2>1. p[1] \in 1..n /\ p[2] \in 1..n BY PairIs
  <2>2. n \in 0..n BY <1>1
  <2>3. p[2] - p[1] <= n
    <3> HIDE DEF n
    <3> QED BY <1>1, <2>1
  <2> QED BY <1>13, <2>2, <2>3
<1>15. rec \in [D -> Seq(Samples)]
  <2>1. rec = [p \in D |-> rec[p]]
    <3> HIDE DEF D
    <3> QED BY <1>11
  <2> HIDE DEF D
  <2> QED BY <1>14, <2>1
<1> QED BY <1>10, <1>12, <1>15 DEF SpansUp

\* What simplify keeps of the points from a to b: the places h ascend, and no point between
\* two of them is farther than eps from the line that is drawn instead.
Chain(h, m, a, b, s, eps) ==
  /\ m \in Nat /\ m >= 2 /\ h \in [1..m -> a..b] /\ h[1] = a /\ h[m] = b
  /\ \A i \in 2..m :
       /\ h[i - 1] < h[i]
       /\ \A k \in (h[i - 1] + 1)..(h[i] - 1) :
            SegmentDistance(s[h[i - 1]], s[h[i]], s[k])
              <= eps * eps * SegmentLength(s[h[i - 1]], s[h[i]])

\* r is s along the chain, without its end unless that is the end of s.
Draws(r, h, m, a, b, s, eps) ==
  /\ Chain(h, m, a, b, s, eps) /\ r \in Seq(Samples)
  /\ Len(r) = (IF b = Len(s) THEN m ELSE m - 1)
  /\ \A i \in 1..Len(r) : r[i] = s[h[i]]

LEMMA ChainsJoin ==
  ASSUME NEW s, Curve(s), NEW eps \in Nat, NEW a \in 1..Len(s), NEW c \in 1..Len(s), NEW b \in 1..Len(s),
         a < c, c < b, NEW f, NEW l, NEW x, Draws(x, f, l, a, c, s, eps),
         NEW g, NEW m, NEW y, Draws(y, g, m, c, b, s, eps)
  PROVE  \E h : Draws(x \o y, h, (l + m) - 1, a, b, s, eps)
<1> DEFINE n == (l + m) - 1
<1> DEFINE o == l - 1
<1> DEFINE h == [i \in 1..n |-> IF i <= o THEN f[i] ELSE g[i - o]]
<1>1. /\ l \in Nat /\ l >= 2 /\ m \in Nat /\ m >= 2 /\ a \in Int /\ b \in Int /\ c \in Int
      /\ Len(s) \in Nat
  BY DEF Draws, Chain, Curve
<1>2. n \in Nat /\ n >= 2 /\ n = o + m /\ o \in Nat /\ o >= 1 BY <1>1
<1>3. f \in [1..l -> a..c] /\ f[1] = a /\ f[l] = c /\ g \in [1..m -> c..b] /\ g[1] = c /\ g[m] = b
  BY DEF Draws, Chain
<1>4. \A i \in 1..l : h[i] = f[i]
  <2> SUFFICES ASSUME NEW i \in 1..l PROVE h[i] = f[i] OBVIOUS
  <2>1. i \in 1..n BY <1>1
  <2>2. CASE i <= o BY <2>1, <2>2
  <2>3. CASE ~(i <= o)
    <3>1. i = l /\ i - o = 1 BY <1>1, <2>3
    <3> HIDE DEF n, o
    <3> QED BY <1>3, <2>1, <2>3, <3>1
  <2> QED BY <2>2, <2>3
<1>5. \A i \in 1..m : h[i + o] = g[i]
  <2> SUFFICES ASSUME NEW i \in 1..m PROVE h[i + o] = g[i] OBVIOUS
  <2>1. i + o \in 1..n /\ ~(i + o <= o) /\ (i + o) - o = i BY <1>1, <1>2
  <2> HIDE DEF n, o
  <2> QED BY <2>1
<1>6. \A i \in 1..n : i \in 1..l \/ i - o \in 1..m
  <2> HIDE DEF n
  <2> QED BY <1>1, <1>2
<1> HIDE DEF h, n
<1>7. h \in [1..n -> a..b]
  <2>1. ASSUME NEW i \in 1..n PROVE h[i] \in a..b
    <3>1. CASE i \in 1..l
      <4>1. h[i] = f[i] /\ f[i] \in a..c BY <1>3, <1>4, <3>1
      <4> QED BY <1>1, <4>1
    <3>2. CASE i - o \in 1..m
      <4>1. (i - o) + o = i BY <1>2
      <4>2. h[i] = g[i - o] /\ g[i - o] \in c..b BY <1>3, <1>5, <3>2, <4>1
      <4> QED BY <1>1, <4>2
    <3> QED BY <1>6, <3>1, <3>2
  <2>2. h = [i \in 1..n |-> h[i]] BY DEF h
  <2> QED BY <2>1, <2>2
<1>8. h[1] = a /\ h[n] = b
  <2>1. 1 \in 1..l /\ m \in 1..m /\ m + o = n BY <1>1, <1>2
  <2>2. h[1] = f[1] /\ h[m + o] = g[m] BY <1>4, <1>5, <2>1
  <2> QED BY <1>3, <2>1, <2>2
<1> DEFINE Close(z, i) ==
       /\ z[i - 1] < z[i]
       /\ \A k \in (z[i - 1] + 1)..(z[i] - 1) :
            SegmentDistance(s[z[i - 1]], s[z[i]], s[k])
              <= eps * eps * SegmentLength(s[z[i - 1]], s[z[i]])
<1>9. ASSUME NEW i \in 2..n PROVE Close(h, i)
  <2>1. CASE i \in 1..l
    <3>1. i \in 2..l /\ i - 1 \in 1..l BY <1>1, <2>1
    <3>2. h[i] = f[i] /\ h[i - 1] = f[i - 1] BY <1>4, <3>1, <2>1
    <3>3. Close(f, i) BY <3>1 DEF Draws, Chain
    <3> QED BY <3>2, <3>3
  <2>2. CASE i \notin 1..l
    <3> DEFINE j == i - o
    <3>1. j \in 2..m /\ j - 1 \in 1..m /\ j \in 1..m /\ j + o = i /\ (j - 1) + o = i - 1
      BY <1>1, <1>2, <2>2
    <3>2. h[i] = g[j] /\ h[i - 1] = g[j - 1]
      <4> HIDE DEF j
      <4>1. h[j + o] = g[j] /\ h[(j - 1) + o] = g[j - 1] BY <1>5, <3>1
      <4> QED BY <3>1, <4>1
    <3>3. Close(g, j)
      <4> HIDE DEF j
      <4> QED BY <3>1 DEF Draws, Chain
    <3> HIDE DEF j
    <3> QED BY <3>2, <3>3
  <2> QED BY <2>1, <2>2
<1>10. Chain(h, n, a, b, s, eps) BY <1>2, <1>7, <1>8, <1>9 DEF Chain
<1>11. /\ x \in Seq(Samples) /\ y \in Seq(Samples) /\ Len(x) = o
       /\ \A i \in 1..o : x[i] = s[f[i]]
       /\ Len(y) = (IF b = Len(s) THEN m ELSE m - 1) /\ \A i \in 1..Len(y) : y[i] = s[g[i]]
  <2>1. c # Len(s) BY <1>1
  <2> QED BY <2>1 DEF Draws
<1> DEFINE r == x \o y
<1>12. /\ r \in Seq(Samples) /\ Len(r) = o + Len(y) /\ \A i \in 1..o : r[i] = x[i]
       /\ \A i \in 1..Len(y) : r[i + o] = y[i]
  <2> HIDE DEF o
  <2>1. r \in Seq(Samples) /\ Len(r) = o + Len(y)
    <3>1. x \in Seq(Samples) /\ y \in Seq(Samples) /\ Len(x) = o BY <1>11
    <3>2. r \in Seq(Samples) /\ Len(r) = Len(x) + Len(y) BY <3>1, ConcatProperties
    <3> QED BY <3>1, <3>2
  <2>2. \A i \in 1..Len(r) : r[i] = IF i <= Len(x) THEN x[i] ELSE y[i - Len(x)] BY <1>11, ConcatProperties
  <2>3. Len(y) \in Nat BY <1>11
  <2>4. \A i \in 1..o : r[i] = x[i]
    <3> SUFFICES ASSUME NEW i \in 1..o PROVE r[i] = x[i] OBVIOUS
    <3>1. i \in 1..Len(r) /\ i <= Len(x) BY <1>2, <1>11, <2>1, <2>3
    <3> QED BY <2>2, <3>1
  <2>5. ASSUME NEW i \in 1..Len(y) PROVE r[i + o] = y[i]
    <3>1. i + o \in 1..Len(r) /\ ~(i + o <= Len(x)) /\ (i + o) - Len(x) = i BY <1>2, <1>11, <2>1, <2>3
    <3> HIDE DEF r
    <3> QED BY <2>2, <3>1
  <2> QED BY <2>1, <2>4, <2>5
<1> HIDE DEF r
<1>13. Len(y) \in Nat /\ Len(y) <= m BY <1>1, <1>11
<1>14. Len(r) = (IF b = Len(s) THEN n ELSE n - 1) BY <1>1, <1>2, <1>11, <1>12
<1>15. ASSUME NEW i \in 1..Len(r) PROVE r[i] = s[h[i]]
  <2>1. CASE i <= o
    <3>1. i \in 1..o /\ i \in 1..l BY <1>1, <1>2, <2>1
    <3> QED BY <1>4, <1>11, <1>12, <3>1
  <2>2. CASE ~(i <= o)
    <3> DEFINE j == i - o
    <3>1. j \in 1..Len(y) /\ j \in 1..m /\ j + o = i BY <1>1, <1>2, <1>12, <1>13, <2>2
    <3> HIDE DEF j
    <3>2. r[j + o] = y[j] /\ h[j + o] = g[j] /\ y[j] = s[g[j]] BY <1>5, <1>11, <1>12, <3>1
    <3> QED BY <3>1, <3>2
  <2> QED BY <2>1, <2>2
<1>16. Draws(r, h, n, a, b, s, eps) BY <1>10, <1>12, <1>14, <1>15 DEF Draws
<1> QED BY <1>16 DEF r, n

LEMMA SpanDraws ==
  ASSUME NEW s, Curve(s), NEW eps \in Nat, NEW rec, SpansUp(rec, s, eps),
         NEW a \in 1..Len(s), NEW b \in 1..Len(s), a < b
  PROVE  \E h, m : Draws(rec[<<a, b>>], h, m, a, b, s, eps)
<1> DEFINE n == Len(s)
<1> DEFINE Drawn(p) == \E h, m : Draws(rec[p], h, m, p[1], p[2], s, eps)
<1> DEFINE Good(w) == \A p \in Pairs(s) : p[1] < p[2] /\ p[2] - p[1] <= w => Drawn(p)
<1> DEFINE R == {w \in 0..n : Good(w)}
<1>0. n \in Nat BY DEF Curve
<1>1. 0 \in R
  <2>1. ASSUME NEW p \in Pairs(s), p[1] < p[2], p[2] - p[1] <= 0 PROVE FALSE
    <3>1. p[1] \in Int /\ p[2] \in Int BY PairIs
    <3> QED BY <2>1, <3>1
  <2>2. 0 \in 0..n BY <1>0
  <2> HIDE DEF Drawn, n
  <2> QED BY <2>1, <2>2
<1>2. ASSUME NEW w \in 0..n, w # 0, w - 1 \in R PROVE w \in R
  <2> SUFFICES ASSUME NEW p \in Pairs(s), p[1] < p[2], p[2] - p[1] <= w PROVE Drawn(p) BY <1>2
  <2> DEFINE c == p[1]
  <2> DEFINE d == p[2]
  <2> DEFINE far == Farthest(s, c, d)
  <2>0. c \in 1..Len(s) /\ d \in 1..Len(s) /\ c \in Int /\ d \in Int /\ p = <<c, d>> /\ c < d BY PairIs
  <2>1. rec[p] = Span(s, eps, rec, p) /\ rec[p] \in Seq(Samples) BY DEF SpansUp
  <2>2. CASE Splits(s, c, d, eps)
    <3> DEFINE x == <<c, far>>
    <3> DEFINE y == <<far, d>>
    <3>1. far \in (c + 1)..(d - 1) /\ x \in Pairs(s) /\ y \in Pairs(s) BY <2>2, SplitIs
    <3>2. rec[p] = rec[x] \o rec[y] BY <2>1, <2>2 DEF Span
    <3> HIDE DEF far, c, d
    <3>3. far - c <= w - 1 /\ d - far <= w - 1 /\ c < far /\ far < d BY <1>0, <2>0, <3>1 DEF c, d
    <3>4. x[1] = c /\ x[2] = far /\ y[1] = far /\ y[2] = d OBVIOUS
    <3>5. Good(w - 1) BY <1>2
    <3>6. Drawn(x) /\ Drawn(y)
      <4> HIDE DEF Drawn, x, y
      <4> QED BY <3>1, <3>3, <3>4, <3>5
    <3>7. PICK f, l : Draws(rec[x], f, l, c, far, s, eps) BY <3>4, <3>6
    <3>8. PICK g, m : Draws(rec[y], g, m, far, d, s, eps) BY <3>4, <3>6
    <3>9. far \in 1..Len(s) BY <1>0, <2>0, <3>1
    <3>10. \E h : Draws(rec[x] \o rec[y], h, (l + m) - 1, c, d, s, eps)
      <4> HIDE DEF x, y
      <4> QED BY <2>0, <3>3, <3>7, <3>8, <3>9, ChainsJoin
    <3> QED BY <3>2, <3>10 DEF c, d
  <2>3. CASE ~Splits(s, c, d, eps)
    <3> DEFINE h == [i \in 1..2 |-> IF i = 1 THEN c ELSE d]
    <3> DEFINE r == <<s[c]>> \o Ending(s, d)
    <3>1. rec[p] = r BY <2>1, <2>3 DEF Span
    <3> HIDE DEF c, d
    <3>2. h \in [1..2 -> c..d] /\ h[1] = c /\ h[2] = d BY <2>0
    <3>3. \A i \in 2..2 : i = 2 /\ i - 1 = 1 OBVIOUS
    <3>4. ASSUME NEW k \in (c + 1)..(d - 1)
          PROVE  SegmentDistance(s[c], s[d], s[k]) <= eps * eps * SegmentLength(s[c], s[d])
      <4>1. c + 1 < d BY <2>0
      <4> DEFINE e == Farthest(s, c, d)
      <4> DEFINE top == SegmentDistance(s[c], s[d], s[e])
      <4> DEFINE bound == eps * eps * SegmentLength(s[c], s[d])
      <4>2. e \in (c + 1)..(d - 1) /\ SegmentDistance(s[c], s[d], s[k]) <= top
        BY <2>0, <4>1, FarthestIs
      <4>3. ~(top > bound) BY <2>3, <4>1 DEF Splits
      <4> HIDE DEF e
      <4>4. s[c] \in Samples /\ s[d] \in Samples /\ s[k] \in Samples /\ s[e] \in Samples
        <5>1. k \in 1..Len(s) /\ e \in 1..Len(s) BY <1>0, <2>0, <4>2
        <5> QED BY <2>0, <5>1, CurveIs
      <4>5. /\ SegmentDistance(s[c], s[d], s[k]) \in Int /\ top \in Int
            /\ SegmentLength(s[c], s[d]) \in Int
        BY <4>4, DistanceIs
      <4>6. bound \in Int
        <5> DEFINE q == eps * eps
        <5> DEFINE v == SegmentLength(s[c], s[d])
        <5>1. q \in Int OBVIOUS
        <5>2. v \in Int BY <4>5
        <5> HIDE DEF q, v
        <5>3. q * v \in Int BY <5>1, <5>2
        <5> QED BY <5>3 DEF q, v
      <4> HIDE DEF bound, top
      <4>7. SegmentDistance(s[c], s[d], s[k]) <= bound BY <4>2, <4>3, <4>5, <4>6
      <4> QED BY <4>7 DEF bound
    <3>5. Chain(h, 2, c, d, s, eps)
      <4> HIDE DEF h
      <4>1. \A i \in 2..2 :
              /\ h[i - 1] < h[i]
              /\ \A k \in (h[i - 1] + 1)..(h[i] - 1) :
                   SegmentDistance(s[h[i - 1]], s[h[i]], s[k])
                     <= eps * eps * SegmentLength(s[h[i - 1]], s[h[i]])
        <5> SUFFICES ASSUME NEW i \in 2..2
                     PROVE /\ h[i - 1] < h[i]
                           /\ \A k \in (h[i - 1] + 1)..(h[i] - 1) :
                                SegmentDistance(s[h[i - 1]], s[h[i]], s[k])
                                  <= eps * eps * SegmentLength(s[h[i - 1]], s[h[i]])
          OBVIOUS
        <5>1. h[i - 1] = c /\ h[i] = d BY <3>2, <3>3
        <5> QED BY <2>0, <3>4, <5>1 DEF c, d
      <4> QED BY <3>2, <4>1 DEF Chain
    <3>6. s[c] \in Samples /\ s[d] \in Samples BY <2>0, CurveIs
    <3>7. r \in Seq(Samples) BY <2>1, <3>1
    <3> DEFINE x == s[c]
    <3> DEFINE y == s[d]
    <3> DEFINE z == <<x>>
    <3>8. z \in Seq(Samples) /\ Len(z) = 1 /\ z[1] = x BY <3>6
    <3>9. Len(r) = (IF d = n THEN 2 ELSE 2 - 1) /\ \A i \in 1..Len(r) : r[i] = s[h[i]]
      <4>1. CASE d = n
        <5> DEFINE ending == <<y>>
        <5>1. r = z \o ending BY <4>1 DEF Ending
        <5>2. ending \in Seq(Samples) /\ Len(ending) = 1 /\ ending[1] = y BY <3>6
        <5> HIDE DEF x, y, z, ending, r, h
        <5>3. Len(r) = 2 /\ r[1] = x /\ r[2] = y BY <3>8, <5>1, <5>2, ConcatProperties
        <5>4. \A i \in 1..2 : i = 1 \/ i = 2 OBVIOUS
        <5> QED BY <3>2, <4>1, <5>3, <5>4 DEF x, y
      <4>2. CASE d # n
        <5>1. r = z \o <<>> BY <4>2 DEF Ending
        <5> HIDE DEF x, y, z, r, h
        <5>2. r = z BY <3>8, <5>1, ConcatEmptySeq
        <5>3. Len(r) = 1 /\ r[1] = s[h[1]] BY <3>2, <3>8, <5>2 DEF x
        <5>4. \A i \in 1..1 : i = 1 OBVIOUS
        <5>5. \A i \in 1..Len(r) : r[i] = s[h[i]] BY <5>3, <5>4
        <5>6. 2 - 1 = 1 OBVIOUS
        <5> QED BY <4>2, <5>3, <5>5, <5>6
      <4> QED BY <4>1, <4>2
    <3> HIDE DEF h, r
    <3>10. Draws(r, h, 2, c, d, s, eps) BY <3>5, <3>7, <3>9 DEF Draws
    <3> QED BY <3>1, <3>10 DEF c, d
  <2> QED BY <2>2, <2>3
<1>3. \A w \in 0..n : w \in R
  <2>1. 0 \in Int /\ n \in Int BY <1>0
  <2> HIDE DEF R, n
  <2> QED BY <1>1, <1>2, <2>1, UpTo
<1>4. Good(n)
  <2>1. n \in R
    <3> HIDE DEF R
    <3> QED BY <1>0, <1>3
  <2> QED BY <2>1
<1> DEFINE p == <<a, b>>
<1>5. p \in Pairs(s) /\ p[1] = a /\ p[2] = b BY DEF Pairs
<1>6. a < b /\ b - a <= n
  <2> HIDE DEF n
  <2>1. a \in 1..n /\ b \in 1..n BY DEF n
  <2> QED BY <1>0, <2>1
<1>7. Drawn(p)
  <2> HIDE DEF Drawn, p, n
  <2> QED BY <1>4, <1>5, <1>6
<1> HIDE DEF p
<1> QED BY <1>5, <1>7 DEF p

\* What simplify keeps.
SimplifyKeeps(r, s, eps) ==
  /\ r[1] = s[1] /\ r[Len(r)] = s[Len(s)] /\ Subsequence(r, s)
  /\ \A i \in 2..Len(r), p \in Range(s) :
       r[i - 1].ts < p.ts /\ p.ts < r[i].ts =>
         SegmentDistance(r[i - 1], r[i], p) <= eps * eps * SegmentLength(r[i - 1], r[i])

LEMMA BetweenIs ==
  ASSUME NEW s, Curve(s), NEW i \in 1..Len(s), NEW j \in 1..Len(s), NEW p \in Range(s),
         s[i].ts < p.ts, p.ts < s[j].ts
  PROVE  \E k \in (i + 1)..(j - 1) : p = s[k]
<1>1. Len(s) \in Nat /\ DOMAIN s = 1..Len(s) BY DEF Curve
<1>2. PICK k \in 1..Len(s) : p = s[k] BY <1>1 DEF Range
<1>3. s[i].ts \in Nat /\ s[k].ts \in Nat /\ s[j].ts \in Nat BY CurveIs
<1>4. i < k
  <2>1. CASE k = i BY <1>2, <1>3, <2>1
  <2>2. CASE k < i
    <3>1. s[k].ts < s[i].ts BY <2>2 DEF Curve, Rises
    <3> QED BY <1>2, <1>3, <3>1
  <2> QED BY <1>1, <2>1, <2>2
<1>5. k < j
  <2>1. CASE k = j BY <1>2, <1>3, <2>1
  <2>2. CASE j < k
    <3>1. s[j].ts < s[k].ts BY <2>2 DEF Curve, Rises
    <3> QED BY <1>2, <1>3, <3>1
  <2> QED BY <1>1, <2>1, <2>2
<1> QED BY <1>1, <1>2, <1>4, <1>5

LEMMA SimplifyKeepsShape ==
  ASSUME NEW s, Curve(s), s # <<>>, NEW eps \in Nat
  PROVE  SimplifyKeeps(Simplify(s, eps), s, eps)
<1> DEFINE n == Len(s)
<1>1. n \in Nat /\ n >= 1 /\ DOMAIN s = 1..n
  <2>1. s \in Seq(Samples) BY DEF Curve
  <2> QED BY <2>1, EmptySeq
<1>2. PICK rec : SpansUp(rec, s, eps) /\ Simplify(s, eps) = IF n <= 2 THEN s ELSE rec[<<1, n>>]
  BY SimplifyUnfolds
<1>3. CASE n <= 2
  <2> DEFINE h == [i \in 1..n |-> i]
  <2>1. Simplify(s, eps) = s BY <1>2, <1>3
  <2>2. Along(s, h, n, s)
    <3>1. h \in [1..n -> 1..Len(s)] /\ \A i \in 1..n : s[i] = s[h[i]] OBVIOUS
    <3>2. \A i \in 1..n : i > 1 => h[i - 1] <= h[i]
      <4> SUFFICES ASSUME NEW i \in 1..n, i > 1 PROVE h[i - 1] <= h[i] OBVIOUS
      <4>1. i - 1 \in 1..n BY <1>1
      <4>2. h[i - 1] = i - 1 /\ h[i] = i BY <4>1
      <4> QED BY <4>2
    <3> QED BY <1>1, <3>1, <3>2 DEF Along
  <2>3. Subsequence(s, s)
    <3> HIDE DEF h
    <3> QED BY <1>1, <2>2, SubsequenceIs
  <2>4. ASSUME NEW i \in 2..n, NEW p \in Range(s), s[i - 1].ts < p.ts, p.ts < s[i].ts PROVE FALSE
    <3>1. i - 1 \in 1..Len(s) /\ i \in 1..Len(s) BY <1>1
    <3> DEFINE j == i - 1
    <3>2. j \in 1..Len(s) /\ s[j].ts < p.ts BY <2>4, <3>1
    <3>3. \A k \in (j + 1)..(i - 1) : FALSE OBVIOUS
    <3> HIDE DEF j
    <3>4. \E k \in (j + 1)..(i - 1) : p = s[k] BY <2>4, <3>1, <3>2, BetweenIs
    <3> QED BY <3>3, <3>4
  <2>5. n = Len(s) OBVIOUS
  <2> QED BY <2>1, <2>3, <2>4 DEF SimplifyKeeps
<1>4. CASE ~(n <= 2)
  <2> DEFINE r == rec[<<1, n>>]
  <2>1. Simplify(s, eps) = r BY <1>2, <1>4
  <2>2. PICK h, m : Draws(r, h, m, 1, n, s, eps)
    <3>1. 1 \in 1..Len(s) /\ n \in 1..Len(s) /\ 1 < n BY <1>1, <1>4
    <3> HIDE DEF n
    <3> QED BY <1>2, <3>1, SpanDraws
  <2> HIDE DEF r
  <2>3. /\ m \in Nat /\ m >= 2 /\ h \in [1..m -> 1..n] /\ h[1] = 1 /\ h[m] = n
        /\ r \in Seq(Samples) /\ Len(r) = m /\ \A i \in 1..m : r[i] = s[h[i]]
    BY <2>2 DEF Draws, Chain
  <2>4. \A i \in 2..m :
          /\ h[i - 1] < h[i]
          /\ \A k \in (h[i - 1] + 1)..(h[i] - 1) :
               SegmentDistance(s[h[i - 1]], s[h[i]], s[k])
                 <= eps * eps * SegmentLength(s[h[i - 1]], s[h[i]])
    BY <2>2 DEF Draws, Chain
  <2>5. DOMAIN r = 1..m BY <2>3
  <2>6. Along(r, h, m, s)
    <3>1. \A i \in 1..m : i > 1 => h[i - 1] <= h[i]
      <4> SUFFICES ASSUME NEW i \in 1..m, i > 1 PROVE h[i - 1] <= h[i] OBVIOUS
      <4>1. i \in 2..m /\ i - 1 \in 1..m BY <2>3
      <4>2. h[i - 1] < h[i] /\ h[i - 1] \in 1..n /\ h[i] \in 1..n BY <2>3, <2>4, <4>1
      <4> QED BY <1>1, <4>2
    <3> QED BY <2>3, <2>5, <3>1 DEF Along
  <2>7. Subsequence(r, s) BY <2>3, <2>6, SubsequenceIs
  <2>8. r[1] = s[1] /\ r[Len(r)] = s[Len(s)]
    <3>1. 1 \in 1..m /\ m \in 1..m BY <2>3
    <3> QED BY <2>3, <3>1
  <2>9. ASSUME NEW i \in 2..m, NEW p \in Range(s), r[i - 1].ts < p.ts, p.ts < r[i].ts
        PROVE  SegmentDistance(r[i - 1], r[i], p) <= eps * eps * SegmentLength(r[i - 1], r[i])
    <3> DEFINE j == i - 1
    <3>1. j \in 1..m /\ i \in 1..m BY <2>3
    <3>2. r[j] = s[h[j]] /\ r[i] = s[h[i]] /\ h[j] \in 1..Len(s) /\ h[i] \in 1..Len(s)
      <4> HIDE DEF j
      <4> QED BY <2>3, <3>1
    <3>3. s[h[j]].ts < p.ts /\ p.ts < s[h[i]].ts BY <2>9, <3>2
    <3> DEFINE a == h[j]
    <3> DEFINE b == h[i]
    <3>4. a \in 1..Len(s) /\ b \in 1..Len(s) /\ s[a].ts < p.ts /\ p.ts < s[b].ts BY <3>2, <3>3
    <3> HIDE DEF a, b
    <3>5. PICK k \in (a + 1)..(b - 1) : p = s[k] BY <3>4, BetweenIs
    <3>6. SegmentDistance(s[a], s[b], s[k]) <= eps * eps * SegmentLength(s[a], s[b])
      BY <2>4, <3>5 DEF a, b
    <3> QED BY <3>2, <3>5, <3>6 DEF a, b
  <2> QED BY <2>1, <2>3, <2>7, <2>8, <2>9 DEF SimplifyKeeps
<1> QED BY <1>3, <1>4

(* Reductions keep the shape of a curve, whatever rows the files have: what *)
(* lttb and simplify give begins and ends as the curve, has only points of  *)
(* it, in order, and no point that simplify drops is far from what is drawn *)
(* (server.js and the overlay services that thin a curve for the page).     *)
THEOREM ReductionsKeep == CurveSpec => []ReductionsKeepShape
<1>1. CurveInv => ReductionsKeepShape
  <2> SUFFICES ASSUME CurveInv, NEW j \in JobIds, Equity(j) # <<>>
               PROVE  /\ \A k \in 2..(Len(Equity(j)) - 1) : LttbKeeps(Lttb(Equity(j), k), Equity(j), k)
                      /\ \A eps \in 0..2 : SimplifyKeeps(Simplify(Equity(j), eps), Equity(j), eps)
    BY DEF ReductionsKeepShape, LttbKeeps, SimplifyKeeps
  <2>1. Curve(Equity(j)) BY EquityIsCurve
  <2>2. \A k \in 2..(Len(Equity(j)) - 1) : LttbKeeps(Lttb(Equity(j), k), Equity(j), k)
    BY <2>1, LttbKeepsShape
  <2>3. \A eps \in 0..2 : SimplifyKeeps(Simplify(Equity(j), eps), Equity(j), eps)
    <3>1. \A eps \in 0..2 : eps \in Nat OBVIOUS
    <3> QED BY <2>1, <3>1, SimplifyKeepsShape
  <2> QED BY <2>2, <2>3
<1> QED BY <1>1, CurveInvHolds, PTL

-----------------------------------------------------------------------------
(* The largest fall, found in one pass.                                     *)

Depth == [peak : Nat, left : Int]

\* What comes of m at a point of value e.
FallsBy(f, m, e) ==
  /\ f \in Depth /\ f.peak = (IF m.peak >= e THEN m.peak ELSE e) /\ f.peak > 0
  /\ f.left = (IF m.left <= (1000 * e) \div f.peak THEN m.left ELSE (1000 * e) \div f.peak)

LEMMA FallingIs ==
  ASSUME NEW m, m.peak \in Nat, m.left \in Int, NEW e \in Int, m.peak > 0 \/ e > 0
  PROVE  FallsBy(Falling(m, e), m, e)
<1> DEFINE peak == IF m.peak >= e THEN m.peak ELSE e
<1> DEFINE q == (1000 * e) \div peak
<1> DEFINE left == IF m.left <= q THEN m.left ELSE q
<1> DEFINE x == m.peak
<1> DEFINE y == m.left
<1>1. HighestYet(m.peak, e) = peak
  <2>1. x \in Int BY DEF Depth
  <2> HIDE DEF x
  <2>2. Max({x, e}) = IF x >= e THEN x ELSE e BY <2>1, MaxOfTwo
  <2> QED BY <2>2 DEF HighestYet, x
<1>2. peak \in Nat /\ peak > 0 OBVIOUS
<1>3. q \in Int
  <2> HIDE DEF peak
  <2> QED BY <1>2, QuotientIs
<1>4. Min({m.left, q}) = left
  <2>1. y \in Int OBVIOUS
  <2> HIDE DEF y, q
  <2>2. Min({y, q}) = IF y <= q THEN y ELSE q BY <1>3, <2>1, MinOfTwo
  <2> QED BY <2>2 DEF y
<1>5. Falling(m, e) = [peak |-> peak, left |-> left]
  <2>1. Falling(m, e) = [peak |-> HighestYet(m.peak, e),
                         left |-> Min({m.left, (1000 * e) \div HighestYet(m.peak, e)})]
    BY DEF Falling
  <2> HIDE DEF peak, left
  <2> QED BY <1>1, <1>4, <2>1
<1>6. left \in Int
  <2> HIDE DEF q
  <2> QED BY <1>3
<1> DEFINE f == Falling(m, e)
<1>7. f.peak = peak /\ f.left = left BY <1>5
<1>8. f \in Depth
  <2> HIDE DEF left, peak
  <2> QED BY <1>2, <1>5, <1>6 DEF Depth
<1> HIDE DEF f
<1>9. f.left = (IF m.left <= (1000 * e) \div f.peak THEN m.left ELSE (1000 * e) \div f.peak)
  BY <1>7
<1>10. f.peak = (IF m.peak >= e THEN m.peak ELSE e) /\ f.peak > 0
  <2> HIDE DEF left
  <2> QED BY <1>2, <1>7
<1> HIDE DEF peak, left
<1> QED BY <1>8, <1>9, <1>10 DEF FallsBy, f

Dots == [ts : Int, equity : Int]

Positive(c) == \A i \in 1..Len(c) : c[i].equity > 0

\* How deep a curve has fallen, point by point.
Deepens(f, s) ==
  /\ f \in [0..Len(s) -> Depth]
  /\ f[0] = [peak |-> 0, left |-> 1000]
  /\ \A i \in 1..Len(s) :
       f[i] = Falling(f[i - 1], s[i].equity)

LEMMA MaxDDUnfolds ==
  ASSUME NEW s \in Seq(Dots), Positive(s)
  PROVE  \E f : Deepens(f, s) /\ CalcMaxDD(s) = f[Len(s)].left
<1> DEFINE W == Depth
<1> DEFINE a == 0
<1> DEFINE n == Len(s)
<1> DEFINE base == [peak |-> 0, left |-> 1000]
<1> DEFINE Takes(i, x) == Falling(x, s[i].equity)
<1> DEFINE step == [p \in Int \X W |-> IF p[1] \in (a + 1)..n THEN Takes(p[1], p[2]) ELSE p[2]]
<1> DEFINE Goes(h) == h = [i \in a..n |-> IF i = a THEN base ELSE Takes(i, h[i - 1])]
<1>0. a \in Int /\ n \in Int /\ a <= n /\ base \in W
  <2>1. Len(s) \in Nat OBVIOUS
  <2> QED BY <2>1 DEF Depth
<1>1. ASSUME NEW i \in (a + 1)..n, NEW x \in W PROVE Takes(i, x) \in W
  <2>1. i \in 1..Len(s) BY <1>0
  <2>2. s[i].equity \in Int /\ s[i].equity > 0
    <3>1. s[i] \in Dots BY <2>1
    <3>2. s[i].equity \in Int BY <3>1 DEF Dots
    <3> QED BY <2>1, <3>2 DEF Positive
  <2>3. x.peak \in Nat /\ x.left \in Int BY DEF Depth
  <2> DEFINE e == s[i].equity
  <2>4. e \in Int /\ e > 0 BY <2>2
  <2> HIDE DEF e
  <2>5. FallsBy(Falling(x, e), x, e) BY <2>3, <2>4, FallingIs
  <2> QED BY <2>5 DEF FallsBy, e
<1>2. step \in [Int \X W -> W]
  <2> HIDE DEF Takes, W, a, n
  <2> QED BY <1>1
<1>3. PICK g : Recurs(g, a, n, W, base, step)
  <2> HIDE DEF step, W, a, n, base
  <2> QED BY <1>0, <1>2, Recursion
<1>4. ASSUME NEW i \in a..n PROVE g[i] = IF i = a THEN base ELSE Takes(i, g[i - 1])
  <2>1. g[i] = IF i = a THEN base ELSE step[<<i, g[i - 1]>>]
    <3> HIDE DEF step, W, a, n, base
    <3> QED BY <1>3 DEF Recurs
  <2>2. CASE i # a
    <3> HIDE DEF Takes, W, a, n, base
    <3>1. i - 1 \in a..n /\ i \in (a + 1)..n /\ i \in Int BY <1>0, <2>2
    <3>2. g[i - 1] \in W BY <1>3, <3>1 DEF Recurs
    <3>3. step[<<i, g[i - 1]>>] = Takes(i, g[i - 1]) BY <3>1, <3>2
    <3> HIDE DEF step
    <3> QED BY <2>1, <2>2, <3>3
  <2> HIDE DEF Takes, step, W, a, n, base
  <2> QED BY <2>1, <2>2
<1>5. Goes(g)
  <2> HIDE DEF W, Takes, step, a, n, base
  <2> QED BY <1>3, <1>4 DEF Recurs
<1> DEFINE all == CHOOSE h : Goes(h)
<1>6. Goes(all)
  <2> HIDE DEF Goes
  <2> QED BY <1>5
<1>7. CalcMaxDD(s) = all[n].left BY DEF CalcMaxDD
<1> HIDE DEF all, a, n, W, base, Takes
<1>8. all[a] = base /\ \A i \in (a + 1)..n : all[i] = Takes(i, all[i - 1])
  <2>1. a \in a..n /\ \A i \in (a + 1)..n : i \in a..n /\ i # a BY <1>0
  <2> QED BY <1>6, <2>1
<1>9. \A i \in a..n : all[i] \in W
  <2> DEFINE S == {i \in a..n : all[i] \in W}
  <2>1. a \in S BY <1>0, <1>8
  <2>2. ASSUME NEW i \in a..n, i # a, i - 1 \in S PROVE i \in S
    <3>1. i \in (a + 1)..n /\ all[i - 1] \in W BY <1>0, <2>2
    <3> QED BY <1>1, <1>8, <3>1
  <2> HIDE DEF S
  <2>3. \A i \in a..n : i \in S BY <1>0, <2>1, <2>2, UpTo
  <2> QED BY <2>3 DEF S
<1>10. all \in [a..n -> W] BY <1>6, <1>9
<1>11. Deepens(all, s)
  <2>1. /\ all \in [0..Len(s) -> Depth]
        /\ all[0] = [peak |-> 0, left |-> 1000]
    BY <1>8, <1>10 DEF a, n, W, base
  <2>2. \A i \in 1..Len(s) :
          all[i] = Falling(all[i - 1], s[i].equity)
    BY <1>8 DEF a, n, Takes
  <2> QED BY <2>1, <2>2 DEF Deepens
<1> QED BY <1>7, <1>11 DEF n


LEMMA FallsAre ==
  ASSUME NEW T, NEW s \in Seq(T), NEW x
  PROVE  x \in Falls(s) <=> \E i, j \in 1..Len(s) : i <= j /\ x = (1000 * s[j].equity) \div s[i].equity
<1>1. DOMAIN s = 1..Len(s) /\ Len(s) \in Nat OBVIOUS
<1>2. x \in Falls(s) <=> \E i \in 1..Len(s) : \E j \in i..Len(s) : x = (1000 * s[j].equity) \div s[i].equity
  BY <1>1 DEF Falls
<1>3. ASSUME NEW i \in 1..Len(s), NEW j \in i..Len(s) PROVE j \in 1..Len(s) /\ i <= j BY <1>1
<1>4. ASSUME NEW i \in 1..Len(s), NEW j \in 1..Len(s), i <= j PROVE j \in i..Len(s)
  <2> DEFINE n == Len(s)
  <2>1. n \in Nat /\ i \in 1..n /\ j \in 1..n BY <1>1
  <2> HIDE DEF n
  <2>2. j \in i..n BY <1>4, <2>1
  <2> QED BY <2>2 DEF n
<1> QED BY <1>2, <1>3, <1>4


\* peak is above the curve, and left no more than what is left at any point of an earlier one.
Measured(c, peak, left) ==
  /\ peak \in Nat /\ left \in Int /\ left <= 1000
  /\ \A j \in 1..Len(c) : c[j].equity <= peak
  /\ \A i, j \in 1..Len(c) : i <= j /\ c[i].equity > 0 /\ c[j].equity > 0 =>
       left <= (1000 * c[j].equity) \div c[i].equity

\* What is left at the greater divisor is less.
LEMMA QuotientShrinks ==
  ASSUME NEW x \in Nat, NEW d \in Nat \ {0}, NEW e \in Nat \ {0}, d <= e
  PROVE  x \div e <= x \div d
<1> DEFINE p == x \div e
<1> DEFINE q == x \div d
<1>1. p \in Int /\ q \in Int /\ e * p <= x /\ x < d * q + d BY QuotientIs
<1>2. p >= 0 BY QuotientIsNat
<1> HIDE DEF p, q
<1>3. d * p <= e * p
  <2>1. p \in Nat BY <1>1, <1>2
  <2>2. p * d <= p * e BY <2>1, ProductGrows
  <2> QED BY <2>1, <2>2
<1>4. CASE q < p
  <2>1. q + 1 <= p /\ q + 1 \in Int BY <1>1, <1>4
  <2>2. d * (q + 1) <= d * p BY <1>1, <2>1, ProductGrows
  <2>3. d * (q + 1) = d * q + d /\ d * q \in Int /\ d * p \in Int /\ e * p \in Int BY <1>1
  <2> QED BY <1>1, <1>3, <2>2, <2>3
<1>5. p <= q BY <1>1, <1>4
<1> QED BY <1>5 DEF p, q

LEMMA FallingMeasures ==
  ASSUME NEW c \in Seq(Dots), NEW m, Measured(c, m.peak, m.left), NEW x \in Dots,
         m.peak > 0 \/ x.equity > 0
  PROVE  LET f == Falling(m, x.equity) IN
         /\ Measured(c, f.peak, f.left) /\ Measured(Append(c, x), f.peak, f.left)
<1> DEFINE f == Falling(m, x.equity)
<1> DEFINE n == Len(c)
<1> DEFINE t == Append(c, x)
<1> DEFINE e == x.equity
<1>0. n \in Nat /\ e \in Int /\ m.peak \in Nat /\ m.left \in Int /\ m.left <= 1000
      /\ \A j \in 1..n : c[j].equity \in Int
  <2>1. \A j \in 1..n : c[j] \in Dots OBVIOUS
  <2> QED BY <2>1 DEF Dots, Measured
<1>1. /\ f \in Depth /\ f.peak = (IF m.peak >= e THEN m.peak ELSE e) /\ f.peak > 0
      /\ f.left = (IF m.left <= (1000 * e) \div f.peak THEN m.left ELSE (1000 * e) \div f.peak)
  <2>1. (m.peak > 0 \/ e > 0) /\ f = Falling(m, e) OBVIOUS
  <2> HIDE DEF e, f
  <2>2. FallsBy(Falling(m, e), m, e) BY <1>0, <2>1, FallingIs
  <2> QED BY <2>1, <2>2 DEF FallsBy
<1> HIDE DEF f
<1>2. f.peak \in Nat /\ f.left \in Int BY <1>1 DEF Depth
<1>3. (1000 * e) \div f.peak \in Int
  <2> DEFINE p == f.peak
  <2> HIDE DEF p, e
  <2>1. p \in Nat \ {0} BY <1>1, <1>2 DEF p
  <2>2. (1000 * e) \div p \in Int BY <1>0, <2>1
  <2> QED BY <2>2 DEF p
<1> DEFINE q == (1000 * e) \div f.peak
<1>4. f.left <= m.left /\ f.left <= q /\ m.peak <= f.peak /\ e <= f.peak
  <2>1. q \in Int /\ f.left = IF m.left <= q THEN m.left ELSE q BY <1>1, <1>3
  <2> HIDE DEF q, e
  <2> QED BY <1>0, <1>1, <1>2, <2>1
<1> HIDE DEF e, n
<1>5. ASSUME NEW j \in 1..n PROVE c[j].equity <= f.peak
  <2>1. c[j].equity <= m.peak BY DEF Measured, n
  <2> QED BY <1>0, <1>2, <1>4, <2>1
<1>6. ASSUME NEW i \in 1..n, NEW j \in 1..n, i <= j, c[i].equity > 0, c[j].equity > 0
      PROVE  f.left <= (1000 * c[j].equity) \div c[i].equity
  <2> DEFINE u == c[i].equity
  <2> DEFINE v == c[j].equity
  <2>1. m.left <= (1000 * v) \div u BY <1>6 DEF Measured, n
  <2>2. u \in Nat \ {0} /\ v \in Nat BY <1>0, <1>6
  <2> HIDE DEF u, v
  <2>3. (1000 * v) \div u \in Int BY <2>2
  <2>4. f.left <= (1000 * v) \div u BY <1>0, <1>2, <1>4, <2>1, <2>3
  <2> QED BY <2>4 DEF u, v
<1>7. Measured(c, f.peak, f.left) BY <1>0, <1>2, <1>4, <1>5, <1>6 DEF Measured, n
<1>8. Len(t) = n + 1 /\ t[n + 1] = x /\ \A i \in 1..n : t[i] = c[i] BY DEF n
<1> HIDE DEF t, q
<1>9. \A j \in 1..(n + 1) : j = n + 1 \/ j \in 1..n BY <1>0
<1>10. ASSUME NEW j \in 1..(n + 1) PROVE t[j].equity <= f.peak
  <2>1. CASE j = n + 1 BY <1>4, <1>8, <2>1 DEF e
  <2>2. CASE j \in 1..n BY <1>5, <1>8, <2>2
  <2> QED BY <1>9, <2>1, <2>2
<1>11. ASSUME NEW i \in 1..(n + 1), NEW j \in 1..(n + 1), i <= j, t[i].equity > 0, t[j].equity > 0
       PROVE  f.left <= (1000 * t[j].equity) \div t[i].equity
  <2>1. CASE j = n + 1
    <3> DEFINE u == t[i].equity
    <3>1. u \in Int /\ u > 0 /\ u <= f.peak
      <4>1. CASE i = n + 1 BY <1>0, <1>8, <1>10, <1>11, <4>1 DEF e
      <4>2. CASE i \in 1..n BY <1>0, <1>5, <1>8, <1>11, <4>2
      <4> QED BY <1>9, <4>1, <4>2
    <3>2. t[j].equity = e /\ e > 0 BY <1>8, <1>11, <2>1 DEF e
    <3> HIDE DEF u
    <3> DEFINE p == f.peak
    <3>3. p \in Nat \ {0} /\ u \in Nat \ {0} /\ 1000 * e \in Nat /\ u <= p BY <1>0, <1>1, <1>2, <3>1, <3>2
    <3> DEFINE z == 1000 * e
    <3>a. q = z \div p BY DEF q
    <3> HIDE DEF p, z
    <3>4. z \div p <= z \div u /\ z \div p \in Int /\ z \div u \in Int
      <4>1. z \in Nat BY <3>3 DEF z
      <4>2. z \div p <= z \div u BY <3>3, <4>1, QuotientShrinks
      <4>3. z \div p \in Nat /\ z \div u \in Nat BY <3>3, <4>1, QuotientIsNat
      <4> QED BY <4>2, <4>3
    <3>5. f.left <= z \div u BY <1>2, <1>4, <3>4, <3>a
    <3> QED BY <3>2, <3>5 DEF u, z
  <2>2. CASE j \in 1..n
    <3>1. i \in 1..n BY <1>0, <1>11, <2>2
    <3>2. t[i] = c[i] /\ t[j] = c[j] BY <1>8, <2>2, <3>1
    <3> QED BY <1>6, <1>11, <2>2, <3>1, <3>2
  <2> QED BY <1>9, <2>1, <2>2
<1>12. f.left <= 1000 BY <1>0, <1>2, <1>4
<1>13. Measured(t, f.peak, f.left) BY <1>2, <1>8, <1>10, <1>11, <1>12 DEF Measured
<1> QED BY <1>7, <1>13 DEF f, t, e

\* The peak is on the curve, and what is left is left somewhere.
Exact(c, peak, left) ==
  /\ c # <<>> => \E i \in 1..Len(c) : c[i].equity = peak
  /\ (\A i \in 1..Len(c) : c[i].equity > 0) => left \in Falls(c) \cup {1000}

LEMMA FallingExact ==
  ASSUME NEW c \in Seq(Dots), NEW m, Measured(c, m.peak, m.left), Exact(c, m.peak, m.left),
         c = <<>> => m.peak = 0,
         NEW x \in Dots, m.peak > 0 \/ x.equity > 0
  PROVE  Exact(Append(c, x), Falling(m, x.equity).peak, Falling(m, x.equity).left)
<1> DEFINE f == Falling(m, x.equity)
<1> DEFINE n == Len(c)
<1> DEFINE t == Append(c, x)
<1> DEFINE e == x.equity
<1>0. n \in Nat /\ e \in Int /\ m.peak \in Nat /\ m.left \in Int
  BY DEF Dots, Measured
<1>1. /\ f.peak = (IF m.peak >= e THEN m.peak ELSE e) /\ f.peak > 0
      /\ f.left = (IF m.left <= (1000 * e) \div f.peak THEN m.left ELSE (1000 * e) \div f.peak)
  <2>1. (m.peak > 0 \/ e > 0) /\ f = Falling(m, e) OBVIOUS
  <2> HIDE DEF e, f
  <2>2. FallsBy(Falling(m, e), m, e) BY <1>0, <2>1, FallingIs
  <2> QED BY <2>1, <2>2 DEF FallsBy
<1>2. t \in Seq(Dots) /\ Len(t) = n + 1 /\ t[n + 1] = x /\ \A i \in 1..n : t[i] = c[i] OBVIOUS
<1>3. c = <<>> \/ n >= 1 BY EmptySeq
<1> HIDE DEF f, e, n, t
<1>4. PICK i \in 1..(n + 1) : t[i].equity = f.peak
  <2>1. CASE m.peak >= e
    <3>1. c # <<>> BY <1>0, <1>1, <2>1
    <3>2. PICK i \in 1..n : c[i].equity = m.peak BY <3>1 DEF Exact, n
    <3>3. i \in 1..(n + 1) /\ t[i].equity = f.peak BY <1>0, <1>1, <1>2, <2>1, <3>2
    <3> QED BY <3>3
  <2>2. CASE ~(m.peak >= e)
    <3>1. n + 1 \in 1..(n + 1) /\ f.peak = e /\ t[n + 1].equity = e BY <1>0, <1>1, <1>2, <2>2 DEF e
    <3> QED BY <3>1
  <2> QED BY <2>1, <2>2
<1>5. ASSUME \A k \in 1..(n + 1) : t[k].equity > 0 PROVE f.left \in Falls(t) \cup {1000}
  <2>1. CASE f.left = m.left
    <3>1. \A k \in 1..n : c[k].equity > 0
      <4> SUFFICES ASSUME NEW k \in 1..n PROVE c[k].equity > 0 OBVIOUS
      <4>1. k \in 1..(n + 1) BY <1>0
      <4> QED BY <1>2, <1>5, <4>1
    <3>2. m.left \in Falls(c) \cup {1000} BY <3>1 DEF Exact, n
    <3>3. CASE m.left \in Falls(c)
      <4>1. PICK k, j \in 1..n : k <= j /\ m.left = (1000 * c[j].equity) \div c[k].equity
        BY <3>3, FallsAre DEF n
      <4>2. k \in 1..(n + 1) /\ j \in 1..(n + 1) /\ t[k] = c[k] /\ t[j] = c[j] BY <1>0, <1>2
      <4>3. m.left \in Falls(t) BY <1>2, <4>1, <4>2, FallsAre
      <4> QED BY <2>1, <4>3
    <3> QED BY <2>1, <3>2, <3>3
  <2>2. CASE f.left = (1000 * e) \div f.peak
    <3>1. n + 1 \in 1..(n + 1) /\ t[n + 1].equity = e /\ i <= n + 1 BY <1>0, <1>2 DEF e
    <3>2. f.left = (1000 * t[n + 1].equity) \div t[i].equity BY <1>4, <2>2, <3>1
    <3>3. f.left \in Falls(t) BY <1>2, <3>1, <3>2, FallsAre
    <3> QED BY <3>3
  <2> QED BY <1>1, <2>1, <2>2
<1>6. Exact(t, f.peak, f.left) BY <1>2, <1>4, <1>5 DEF Exact
<1> QED BY <1>6 DEF f, t, e


Below(x, S) == \A y \in S : x <= y

\* What is measured and left somewhere is the least of what is left.
LEMMA LeastLeft ==
  ASSUME NEW c \in Seq(Dots), NEW peak, NEW left, Measured(c, peak, left), Positive(c)
  PROVE  /\ Falls(c) \in SUBSET Nat /\ Below(left, Falls(c) \cup {1000})
<1>1. \A i \in 1..Len(c) : c[i].equity \in Nat \ {0}
  <2>1. \A i \in 1..Len(c) : c[i] \in Dots OBVIOUS
  <2> QED BY <2>1 DEF Dots, Positive
<1>2. ASSUME NEW x \in Falls(c) PROVE x \in Nat /\ left <= x
  <2>1. PICK i, j \in 1..Len(c) : i <= j /\ x = (1000 * c[j].equity) \div c[i].equity BY FallsAre
  <2> DEFINE u == c[i].equity
  <2> DEFINE v == c[j].equity
  <2>2. u \in Nat \ {0} /\ v \in Nat \ {0} BY <1>1
  <2>3. left <= (1000 * v) \div u
    <3>1. u > 0 /\ v > 0 BY <2>2
    <3> QED BY <2>1, <3>1 DEF Measured
  <2> HIDE DEF u, v
  <2>4. 1000 * v \in Nat BY <2>2
  <2> DEFINE y == 1000 * v
  <2> HIDE DEF y
  <2>5. y \div u \in Nat BY <2>2, <2>4, QuotientIsNat DEF y
  <2> QED BY <2>1, <2>3, <2>5 DEF u, v, y
<1> QED BY <1>2 DEF Below, Measured

LEMMA LeastFound ==
  ASSUME NEW c \in Seq(Dots), NEW peak, NEW left, Measured(c, peak, left), Positive(c),
         Exact(c, peak, left)
  PROVE  left = Min(Falls(c) \cup {1000})
<1> DEFINE S == Falls(c) \cup {1000}
<1>1. Falls(c) \in SUBSET Nat /\ Below(left, S) BY LeastLeft
<1>2. S \in SUBSET Nat /\ S # {} BY <1>1
<1>3. left \in S BY DEF Exact, Positive
<1> HIDE DEF S
<1>4. Min(S) \in S /\ Min(S) <= left BY <1>2, <1>3, MinIs
<1>5. left <= Min(S) BY <1>1, <1>4 DEF Below
<1>6. left \in Nat /\ Min(S) \in Nat BY <1>2, <1>3, <1>4
<1>7. left = Min(S) BY <1>4, <1>5, <1>6
<1> QED BY <1>7 DEF S

LEMMA CurveDots == ASSUME NEW s, Curve(s) PROVE s \in Seq(Dots) /\ Positive(s)
<1>1. s \in Seq(Samples) BY DEF Curve
<1>2. Samples \subseteq Dots
  <2> SUFFICES ASSUME NEW x \in Samples PROVE x \in Dots OBVIOUS
  <2>1. x = [ts |-> x.ts, equity |-> x.equity] BY DEF Samples
  <2>2. x.ts \in Int /\ x.equity \in Int BY SamplesAre
  <2> QED BY <2>1, <2>2 DEF Dots
<1>3. s \in Seq(Dots)
  <2> HIDE DEF Dots
  <2> QED BY <1>1, <1>2
<1>4. Positive(s) BY CurveIs DEF Positive
<1> QED BY <1>3, <1>4

LEMMA MaxDDIs ==
  ASSUME NEW s \in Seq(Dots), Positive(s)
  PROVE  CalcMaxDD(s) = Min(Falls(s) \cup {1000})
<1> DEFINE n == Len(s)
<1> DEFINE P(k) == SubSeq(s, 1, k)
<1>1. PICK f : Deepens(f, s) /\ CalcMaxDD(s) = f[n].left BY MaxDDUnfolds
<1>2. n \in Nat /\ s \in Seq(Dots) /\ \A i \in 1..n : s[i].equity > 0 BY DEF Positive
<1> DEFINE Good(k) == /\ Measured(P(k), f[k].peak, f[k].left) /\ Exact(P(k), f[k].peak, f[k].left)
                      /\ P(k) = <<>> => f[k].peak = 0
<1> DEFINE R == {k \in 0..n : Good(k)}
<1>3. 0 \in R
  <2>1. P(0) = <<>> /\ f[0].peak = 0 /\ f[0].left = 1000 BY <1>1, <1>2, PrefixGrows DEF Deepens
  <2> HIDE DEF P
  <2>2. Good(0) BY <2>1 DEF Measured, Exact
  <2> QED BY <1>2, <2>2
<1>4. ASSUME NEW k \in 0..n, k # 0, k - 1 \in R PROVE k \in R
  <2> DEFINE c == P(k - 1)
  <2> DEFINE m == f[k - 1]
  <2> DEFINE x == s[k]
  <2>1. k \in 1..n BY <1>2, <1>4
  <2>2. P(k) = Append(c, x) /\ x \in Dots /\ c \in Seq(Dots) BY <1>2, <2>1, PrefixGrows
  <2>3. f[k] = Falling(m, x.equity) BY <1>1, <2>1 DEF Deepens
  <2>4. Measured(c, m.peak, m.left) /\ Exact(c, m.peak, m.left) /\ (c = <<>> => m.peak = 0) BY <1>4
  <2>5. x.equity > 0 BY <1>2, <2>1
  <2>6. P(k) # <<>>
    <3> HIDE DEF P, c, x
    <3> QED BY <2>2
  <2> HIDE DEF P, c, m, x
  <2>7. Measured(P(k), f[k].peak, f[k].left) BY <2>2, <2>3, <2>4, <2>5, FallingMeasures
  <2>8. Exact(P(k), f[k].peak, f[k].left) BY <2>2, <2>3, <2>4, <2>5, FallingExact
  <2> QED BY <2>6, <2>7, <2>8
<1>5. \A k \in 0..n : k \in R
  <2>1. 0 \in Int /\ n \in Int BY <1>2
  <2> HIDE DEF R, n
  <2> QED BY <1>3, <1>4, <2>1, UpTo
<1>6. n \in R
  <2> HIDE DEF R
  <2> QED BY <1>2, <1>5
<1>7. P(n) = s BY <1>2, PrefixGrows
<1>8. Measured(s, f[n].peak, f[n].left) /\ Exact(s, f[n].peak, f[n].left) BY <1>6, <1>7
<1>9. Positive(s) BY <1>2 DEF Positive
<1> DEFINE u == f[n].peak
<1> DEFINE v == f[n].left
<1>10. Measured(s, u, v) /\ Exact(s, u, v) /\ CalcMaxDD(s) = v BY <1>1, <1>8
<1> HIDE DEF n, u, v
<1>11. v = Min(Falls(s) \cup {1000}) BY <1>2, <1>9, <1>10, LeastFound
<1> QED BY <1>10, <1>11

-----------------------------------------------------------------------------
(* The figures of closed trades.                                            *)

Ledger == [equity : Seq(Dots), eq : Int, peak : Nat \ {0}, left : Int]

LEMMA ClosedIs ==
  ASSUME NEW t \in Closed
  PROVE  t.pnl \in Int /\ (t.at = Nothing \/ t.at \in Int) /\ (t.at # Nothing => t.at \in SnapTimes)
<1>1. Profits \subseteq Int /\ SnapTimes \subseteq 1..MaxTs /\ MaxTs \in Nat BY AnalyticsAssumption
<1>2. t.pnl \in Profits /\ t.at \in SnapTimes \cup {Nothing} BY DEF Closed
<1>3. \A u \in SnapTimes : u \in Int BY <1>1
<1>4. t.pnl \in Int BY <1>1, <1>2
<1> QED BY <1>2, <1>3, <1>4

LEMMA TradedIs ==
  ASSUME NEW m \in Ledger, NEW t \in Closed
  PROVE  LET e == m.eq + t.pnl
             f == Falling([peak |-> m.peak, left |-> m.left], e)
         IN /\ Traded(m, t) \in Ledger /\ e \in Int /\ FallsBy(f, m, e)
            /\ Traded(m, t).peak = f.peak /\ Traded(m, t).left = f.left
            /\ t.at = Nothing => Traded(m, t).equity = m.equity
            /\ t.at # Nothing => /\ [ts |-> t.at, equity |-> e] \in Dots
                                 /\ Traded(m, t).equity = Append(m.equity, [ts |-> t.at, equity |-> e])
<1> DEFINE e == m.eq + t.pnl
<1> DEFINE z == [peak |-> m.peak, left |-> m.left]
<1> DEFINE f == Falling(z, e)
<1> DEFINE dot == [ts |-> t.at, equity |-> e]
<1> DEFINE curve == IF t.at = Nothing THEN m.equity ELSE Append(m.equity, dot)
<1>1. /\ m.equity \in Seq(Dots) /\ m.eq \in Int /\ m.peak \in Nat \ {0} /\ m.left \in Int
  BY DEF Ledger
<1>2. t.pnl \in Int /\ (t.at = Nothing \/ t.at \in Int) BY ClosedIs
<1>3. e \in Int BY <1>1, <1>2
<1>4. z.peak = m.peak /\ z.left = m.left OBVIOUS
<1>5. Traded(m, t) = [equity |-> curve, eq |-> e, peak |-> f.peak, left |-> f.left] BY DEF Traded
<1> HIDE DEF e
<1>6. t.at # Nothing => dot \in Dots BY <1>2, <1>3 DEF Dots
<1> HIDE DEF z, dot
<1>7. FallsBy(f, z, e)
  <2>1. z.peak \in Nat /\ z.left \in Int /\ (z.peak > 0 \/ e > 0) BY <1>1, <1>4
  <2> QED BY <1>3, <2>1, FallingIs
<1> HIDE DEF f
<1>8. FallsBy(f, m, e) BY <1>4, <1>7 DEF FallsBy
<1>9. f.peak \in Nat \ {0} /\ f.left \in Int BY <1>8 DEF FallsBy, Depth
<1>10. curve \in Seq(Dots) BY <1>1, <1>6
<1>11. curve = IF t.at = Nothing THEN m.equity ELSE Append(m.equity, dot) OBVIOUS
<1> HIDE DEF curve
<1>12. Traded(m, t) \in Ledger BY <1>3, <1>5, <1>9, <1>10 DEF Ledger
<1>13. Traded(m, t).peak = f.peak /\ Traded(m, t).left = f.left /\ Traded(m, t).equity = curve
  BY <1>5
<1> QED BY <1>3, <1>6, <1>8, <1>11, <1>12, <1>13 DEF e, f, z, dot

\* The books, trade by trade.
Journal(f, ts) ==
  /\ f \in [0..Len(ts) -> Ledger]
  /\ f[0] = [equity |-> <<>>, eq |-> Capital, peak |-> Capital, left |-> 1000]
  /\ \A i \in 1..Len(ts) :
       f[i] = Traded(f[i - 1], ts[i])

LEMMA StatsUnfold ==
  ASSUME NEW ts \in Seq(Closed)
  PROVE  \E f : Journal(f, ts) /\ ComputeStatsFromTrades(ts) = f[Len(ts)]
<1> DEFINE W == Ledger
<1> DEFINE a == 0
<1> DEFINE n == Len(ts)
<1> DEFINE base == [equity |-> <<>>, eq |-> Capital, peak |-> Capital, left |-> 1000]
<1> DEFINE Takes(i, x) == Traded(x, ts[i])
<1> DEFINE step == [p \in Int \X W |-> IF p[1] \in (a + 1)..n THEN Takes(p[1], p[2]) ELSE p[2]]
<1> DEFINE Goes(h) == h = [i \in a..n |-> IF i = a THEN base ELSE Takes(i, h[i - 1])]
<1>0. a \in Int /\ n \in Int /\ a <= n /\ base \in W
  <2>1. Capital \in Nat \ {0} BY AnalyticsAssumption
  <2> QED BY <2>1 DEF Ledger
<1>1. ASSUME NEW i \in (a + 1)..n, NEW x \in W PROVE Takes(i, x) \in W
  <2>1. i \in 1..Len(ts) BY <1>0
  <2>2. ts[i] \in Closed BY <2>1
  <2> QED BY <2>2, TradedIs
<1>2. step \in [Int \X W -> W]
  <2> HIDE DEF Takes, W, a, n
  <2> QED BY <1>1
<1>3. PICK g : Recurs(g, a, n, W, base, step)
  <2> HIDE DEF step, W, a, n, base
  <2> QED BY <1>0, <1>2, Recursion
<1>4. ASSUME NEW i \in a..n PROVE g[i] = IF i = a THEN base ELSE Takes(i, g[i - 1])
  <2>1. g[i] = IF i = a THEN base ELSE step[<<i, g[i - 1]>>]
    <3> HIDE DEF step, W, a, n, base
    <3> QED BY <1>3 DEF Recurs
  <2>2. CASE i # a
    <3> HIDE DEF Takes, W, a, n, base
    <3>1. i - 1 \in a..n /\ i \in (a + 1)..n /\ i \in Int BY <1>0, <2>2
    <3>2. g[i - 1] \in W BY <1>3, <3>1 DEF Recurs
    <3>3. step[<<i, g[i - 1]>>] = Takes(i, g[i - 1]) BY <3>1, <3>2
    <3> HIDE DEF step
    <3> QED BY <2>1, <2>2, <3>3
  <2> HIDE DEF Takes, step, W, a, n, base
  <2> QED BY <2>1, <2>2
<1>5. Goes(g)
  <2> HIDE DEF W, Takes, step, a, n, base
  <2> QED BY <1>3, <1>4 DEF Recurs
<1> DEFINE all == CHOOSE h : Goes(h)
<1>6. Goes(all)
  <2> HIDE DEF Goes
  <2> QED BY <1>5
<1>7. ComputeStatsFromTrades(ts) = all[n] BY DEF ComputeStatsFromTrades
<1> HIDE DEF all, a, n, W, base, Takes
<1>8. all[a] = base /\ \A i \in (a + 1)..n : all[i] = Takes(i, all[i - 1])
  <2>1. a \in a..n /\ \A i \in (a + 1)..n : i \in a..n /\ i # a BY <1>0
  <2> QED BY <1>6, <2>1
<1>9. \A i \in a..n : all[i] \in W
  <2> DEFINE S == {i \in a..n : all[i] \in W}
  <2>1. a \in S BY <1>0, <1>8
  <2>2. ASSUME NEW i \in a..n, i # a, i - 1 \in S PROVE i \in S
    <3>1. i \in (a + 1)..n /\ all[i - 1] \in W BY <1>0, <2>2
    <3> QED BY <1>1, <1>8, <3>1
  <2> HIDE DEF S
  <2>3. \A i \in a..n : i \in S BY <1>0, <2>1, <2>2, UpTo
  <2> QED BY <2>3 DEF S
<1>10. all \in [a..n -> W] BY <1>6, <1>9
<1>11. Journal(all, ts)
  <2>1. /\ all \in [0..Len(ts) -> Ledger]
        /\ all[0] = [equity |-> <<>>, eq |-> Capital, peak |-> Capital, left |-> 1000]
    BY <1>8, <1>10 DEF a, n, W, base
  <2>2. \A i \in 1..Len(ts) :
          all[i] = Traded(all[i - 1], ts[i])
    BY <1>8 DEF a, n, Takes
  <2> QED BY <2>1, <2>2 DEF Journal
<1> QED BY <1>7, <1>11 DEF n

LEMMA ConcatAppend ==
  ASSUME NEW T, NEW a \in Seq(T), NEW b \in Seq(T), NEW x \in T
  PROVE  a \o Append(b, x) = Append(a \o b, x)
<1> DEFINE u == <<x>>
<1>1. u \in Seq(T) OBVIOUS
<1>2. Append(b, x) = b \o u BY AppendIsConcat
<1> DEFINE c == a \o b
<1>3. c \in Seq(T) BY ConcatProperties
<1>4. Append(c, x) = c \o u
  <2> HIDE DEF c
  <2> QED BY <1>3, AppendIsConcat
<1>5. c \o u = a \o (b \o u)
  <2> HIDE DEF u
  <2> QED BY <1>1, ConcatAssociative
<1> QED BY <1>2, <1>4, <1>5

\* What was there to begin with, and the curve of the trades.
Start == [ts |-> 0, equity |-> Capital]
FromCapital(m) == <<Start>> \o m.equity

LEMMA WholeIs ==
  ASSUME NEW m \in Ledger
  PROVE  /\ Start \in Dots /\ m.equity \in Seq(Dots) /\ FromCapital(m) \in Seq(Dots)
         /\ Len(FromCapital(m)) = Len(m.equity) + 1 /\ FromCapital(m)[1] = Start
         /\ \A i \in 1..Len(m.equity) : FromCapital(m)[i + 1] = m.equity[i]
<1> DEFINE a == <<Start>>
<1> DEFINE b == m.equity
<1>1. Capital \in Nat \ {0} BY AnalyticsAssumption
<1>2. Start \in Dots BY <1>1 DEF Start, Dots
<1>3. a \in Seq(Dots) /\ Len(a) = 1 /\ a[1] = Start /\ b \in Seq(Dots) BY <1>2 DEF Ledger
<1>4. FromCapital(m) = a \o b BY DEF FromCapital
<1> HIDE DEF a, b
<1>5. /\ a \o b \in Seq(Dots) /\ Len(a \o b) = Len(a) + Len(b)
      /\ \A i \in 1..(Len(a) + Len(b)) : (a \o b)[i] = IF i <= Len(a) THEN a[i] ELSE b[i - Len(a)]
  BY <1>3, ConcatProperties
<1>6. Len(b) \in Nat BY <1>3
<1> DEFINE w == a \o b
<1>7. /\ w \in Seq(Dots) /\ Len(w) = Len(b) + 1
      /\ \A i \in 1..(Len(b) + 1) : w[i] = IF i <= 1 THEN a[i] ELSE b[i - 1]
  <2>1. Len(a) + Len(b) = Len(b) + 1 BY <1>3, <1>6
  <2> QED BY <1>3, <1>5, <2>1
<1> HIDE DEF w
<1>8. w[1] = Start BY <1>3, <1>6, <1>7
<1>9. \A i \in 1..Len(b) : w[i + 1] = b[i]
  <2> SUFFICES ASSUME NEW i \in 1..Len(b) PROVE w[i + 1] = b[i] OBVIOUS
  <2>1. i + 1 \in 1..(Len(b) + 1) /\ ~(i + 1 <= 1) /\ (i + 1) - 1 = i BY <1>6
  <2> QED BY <1>7, <2>1
<1> QED BY <1>2, <1>3, <1>4, <1>7, <1>8, <1>9 DEF w, b

\* The books of k trades.
FallKept(m, dated) ==
  /\ m \in Ledger /\ Measured(FromCapital(m), m.peak, m.left) /\ Measured(m.equity, m.peak, m.left)
  /\ dated => Exact(FromCapital(m), m.peak, m.left)

LEMMA KeptOn ==
  ASSUME NEW m, NEW dated \in BOOLEAN, FallKept(m, dated), NEW t \in Closed
  PROVE  FallKept(Traded(m, t), dated /\ t.at # Nothing)
<1> DEFINE e == m.eq + t.pnl
<1> DEFINE z == [peak |-> m.peak, left |-> m.left]
<1> DEFINE f == Falling(z, e)
<1> DEFINE x == [ts |-> t.at, equity |-> e]
<1> DEFINE y == [ts |-> 0, equity |-> e]
<1> DEFINE n == Traded(m, t)
<1>1. m \in Ledger /\ Measured(FromCapital(m), m.peak, m.left) /\ Measured(m.equity, m.peak, m.left)
  BY DEF FallKept
<1>2. /\ n \in Ledger /\ e \in Int /\ n.peak = f.peak /\ n.left = f.left
      /\ t.at = Nothing => n.equity = m.equity
      /\ t.at # Nothing => x \in Dots /\ n.equity = Append(m.equity, x)
  BY <1>1, TradedIs
<1>3. y \in Dots /\ y.equity = e /\ x.equity = e BY <1>2 DEF Dots
<1>4. z.peak = m.peak /\ z.left = m.left /\ z.peak > 0 BY <1>1 DEF Ledger
<1>5. FromCapital(m) \in Seq(Dots) /\ m.equity \in Seq(Dots) /\ Start \in Dots /\ FromCapital(m) # <<>>
  <2>1. FromCapital(m) \in Seq(Dots) /\ m.equity \in Seq(Dots) /\ Start \in Dots
        /\ Len(FromCapital(m)) = Len(m.equity) + 1
    BY <1>1, WholeIs
  <2>2. Len(m.equity) \in Nat BY <2>1
  <2> QED BY <2>1, <2>2, EmptySeq
<1> DEFINE c == FromCapital(m)
<1> DEFINE d == m.equity
<1>6. /\ Measured(c, z.peak, z.left) /\ Measured(d, z.peak, z.left) /\ (dated => Exact(c, z.peak, z.left))
      /\ f = Falling(z, y.equity) /\ f = Falling(z, x.equity)
  BY <1>1, <1>3, <1>4 DEF FallKept
<1>7. t.at # Nothing => FromCapital(n) = Append(c, x)
  <2> SUFFICES ASSUME t.at # Nothing PROVE FromCapital(n) = Append(c, x) OBVIOUS
  <2>1. x \in Dots /\ n.equity = Append(d, x) BY <1>2
  <2> DEFINE a == <<Start>>
  <2>2. a \in Seq(Dots) BY <1>5
  <2>3. FromCapital(n) = a \o n.equity /\ c = a \o d BY DEF FromCapital
  <2> HIDE DEF a, d, n, x, c
  <2>4. a \o Append(d, x) = Append(a \o d, x) BY <1>5, <2>1, <2>2, ConcatAppend DEF d
  <2> QED BY <2>1, <2>3, <2>4
<1>8. t.at = Nothing => FromCapital(n) = c BY <1>2 DEF FromCapital
<1> HIDE DEF e, z, f, x, y, n, c, d
<1>9. Measured(c, f.peak, f.left) /\ Measured(d, f.peak, f.left)
  BY <1>3, <1>4, <1>5, <1>6, FallingMeasures DEF c, d
<1>10. CASE t.at = Nothing
  <2>1. Measured(FromCapital(n), n.peak, n.left) /\ Measured(n.equity, n.peak, n.left)
    BY <1>2, <1>8, <1>9, <1>10 DEF d
  <2> QED BY <1>2, <1>10, <2>1 DEF FallKept, n
<1>11. CASE t.at # Nothing
  <2>1. x \in Dots /\ FromCapital(n) = Append(c, x) /\ n.equity = Append(d, x) BY <1>2, <1>7, <1>11 DEF d
  <2>2. c \in Seq(Dots) /\ d \in Seq(Dots) BY <1>5 DEF c, d
  <2>3. Measured(Append(c, x), f.peak, f.left) BY <1>4, <1>6, <2>1, <2>2, FallingMeasures
  <2>4. Measured(Append(d, x), f.peak, f.left) BY <1>4, <1>6, <2>1, <2>2, FallingMeasures
  <2>5. dated => Exact(Append(c, x), f.peak, f.left)
    <3> SUFFICES ASSUME dated PROVE Exact(Append(c, x), f.peak, f.left) OBVIOUS
    <3>1. Exact(c, z.peak, z.left) /\ c # <<>> BY <1>5, <1>6 DEF c
    <3> QED BY <1>4, <1>6, <2>1, <2>2, <3>1, FallingExact
  <2> QED BY <1>2, <1>11, <2>1, <2>3, <2>4, <2>5 DEF FallKept, n
<1> QED BY <1>10, <1>11

LEMMA StatsKept ==
  ASSUME NEW ts \in Seq(Closed)
  PROVE  FallKept(ComputeStatsFromTrades(ts), \A i \in 1..Len(ts) : ts[i].at # Nothing)
<1> DEFINE n == Len(ts)
<1> DEFINE Dated(k) == \A i \in 1..k : ts[i].at # Nothing
<1>1. PICK f : Journal(f, ts) /\ ComputeStatsFromTrades(ts) = f[n] BY StatsUnfold
<1> DEFINE A == {k \in 0..n : FallKept(f[k], Dated(k))}
<1>2. n \in Nat OBVIOUS
<1>3. 0 \in A
  <2> DEFINE m == f[0]
  <2>1. m = [equity |-> <<>>, eq |-> Capital, peak |-> Capital, left |-> 1000] BY <1>1 DEF Journal
  <2>2. Capital \in Nat \ {0} BY AnalyticsAssumption
  <2>3. m.equity = <<>> /\ m.peak = Capital /\ m.left = 1000 /\ m.eq = Capital BY <2>1
  <2>4. m \in Ledger BY <2>1, <2>2 DEF Ledger
  <2> HIDE DEF m
  <2> DEFINE w == FromCapital(m)
  <2>5. Len(w) = 1 /\ w[1].equity = Capital /\ \A i \in 1..Len(w) : i = 1
    <3>1. Len(w) = Len(m.equity) + 1 /\ w[1] = Start BY <2>4, WholeIs
    <3>2. Len(m.equity) = 0 BY <2>3
    <3> QED BY <3>1, <3>2 DEF Start
  <2>6. w \in Seq(Dots) BY <2>4, WholeIs
  <2> HIDE DEF w
  <2>7. (1000 * Capital) \div Capital = 1000
    <3>1. 1000 * Capital \in Int /\ Capital * 1000 <= 1000 * Capital
          /\ 1000 * Capital < Capital * 1000 + Capital
      BY <2>2
    <3> QED BY <2>2, <3>1, QuotientUnique
  <2>8. Measured(w, m.peak, m.left) BY <2>2, <2>3, <2>5, <2>7 DEF Measured
  <2>9. Measured(m.equity, m.peak, m.left) BY <2>2, <2>3 DEF Measured
  <2>10. Exact(w, m.peak, m.left)
    <3>1. \E i \in 1..Len(w) : w[i].equity = m.peak
      <4>1. 1 \in 1..Len(w) BY <2>5
      <4> QED BY <2>3, <2>5, <4>1
    <3> QED BY <2>3, <3>1 DEF Exact
  <2> QED BY <1>2, <2>4, <2>8, <2>9, <2>10 DEF FallKept, w, m
<1>4. ASSUME NEW k \in 0..n, k # 0, k - 1 \in A PROVE k \in A
  <2>1. k \in 1..n /\ k - 1 \in Nat BY <1>2, <1>4
  <2> DEFINE m == f[k - 1]
  <2> DEFINE t == ts[k]
  <2> DEFINE before == Dated(k - 1)
  <2>2. f[k] = Traded(m, t) BY <1>1, <2>1 DEF Journal
  <2>3. t \in Closed BY <2>1
  <2>a. before \in BOOLEAN OBVIOUS
  <2>b. FallKept(m, before)
    <3> HIDE DEF Dated
    <3> QED BY <1>4
  <2>4. (before /\ t.at # Nothing) <=> Dated(k)
    <3>1. \A i \in 1..k : i = k \/ i \in 1..(k - 1) BY <2>1
    <3>2. k \in 1..k /\ \A i \in 1..(k - 1) : i \in 1..k BY <2>1
    <3> QED BY <3>1, <3>2
  <2> HIDE DEF before, m, t, Dated
  <2>5. FallKept(Traded(m, t), before /\ t.at # Nothing) BY <2>3, <2>a, <2>b, KeptOn
  <2>6. FallKept(f[k], Dated(k)) BY <2>2, <2>4, <2>5 DEF FallKept
  <2> QED BY <2>6
<1>5. \A k \in 0..n : k \in A
  <2>1. 0 \in Int /\ n \in Int BY <1>2
  <2> HIDE DEF A, n
  <2> QED BY <1>3, <1>4, <2>1, UpTo
<1>6. n \in A
  <2> HIDE DEF A
  <2> QED BY <1>2, <1>5
<1> QED BY <1>1, <1>6

LEMMA TradesFallHolds == ASSUME NEW ts \in Seq(Closed) PROVE TradesFall(ts)
<1> DEFINE m == ComputeStatsFromTrades(ts)
<1> DEFINE full == FromCapital(m)
<1> DEFINE dated == \A i \in 1..Len(ts) : ts[i].at # Nothing
<1>2. FallKept(m, dated) BY StatsKept
<1>3. DOMAIN ts = 1..Len(ts) OBVIOUS
<1> HIDE DEF m
<1>4. /\ m \in Ledger /\ Measured(full, m.peak, m.left) /\ Measured(m.equity, m.peak, m.left)
      /\ dated => Exact(full, m.peak, m.left)
  BY <1>2 DEF FallKept
<1>5. /\ m.equity \in Seq(Dots) /\ full \in Seq(Dots)
      /\ Len(full) = Len(m.equity) + 1 /\ full[1] = Start
      /\ \A i \in 1..Len(m.equity) : full[i + 1] = m.equity[i]
  BY <1>4, WholeIs
<1> HIDE DEF dated
<1> SUFFICES ASSUME \A p \in Range(full) : p.equity > 0
             PROVE  /\ m.left <= Min(Falls(full)) /\ m.left <= Min(Falls(m.equity) \cup {1000})
                    /\ dated => m.left = Min(Falls(full))
  BY <1>3 DEF TradesFall, FromCapital, Start, m, dated
<1> HIDE DEF full
<1> DEFINE n == Len(m.equity)
<1>6. n \in Nat /\ Len(full) = n + 1 /\ DOMAIN full = 1..(n + 1) BY <1>5
<1>7. Positive(full) BY <1>6 DEF Range, Positive
<1>8. Positive(m.equity)
  <2> SUFFICES ASSUME NEW i \in 1..n PROVE m.equity[i].equity > 0 BY DEF Positive
  <2>1. i + 1 \in 1..Len(full) BY <1>6
  <2> QED BY <1>5, <1>7, <2>1 DEF Positive
<1>9. /\ Falls(full) \in SUBSET Nat /\ Below(m.left, Falls(full) \cup {1000})
      /\ Exact(full, m.peak, m.left) => m.left = Min(Falls(full) \cup {1000})
  <2> DEFINE u == m.peak
  <2> DEFINE v == m.left
  <2>1. full \in Seq(Dots) /\ Measured(full, u, v) BY <1>4, <1>5
  <2> HIDE DEF u, v
  <2>2. Falls(full) \in SUBSET Nat /\ Below(v, Falls(full) \cup {1000})
    <3>1. full \in Seq(Dots) BY <2>1
    <3>2. Measured(full, u, v) BY <2>1
    <3> QED BY <1>7, <3>1, <3>2, LeastLeft, ZenonT(60)
  <2>3. Exact(full, u, v) => v = Min(Falls(full) \cup {1000})
    BY <1>7, <2>1, LeastFound
  <2> QED BY <2>2, <2>3 DEF u, v
<1>10. /\ Falls(m.equity) \in SUBSET Nat /\ Below(m.left, Falls(m.equity) \cup {1000})
  <2> DEFINE u == m.peak
  <2> DEFINE v == m.left
  <2> DEFINE c == m.equity
  <2>1. c \in Seq(Dots) /\ Measured(c, u, v) /\ Positive(c)
    BY <1>4, <1>5, <1>8
  <2> HIDE DEF u, v, c
  <2>2. /\ Falls(c) \in SUBSET Nat /\ Below(v, Falls(c) \cup {1000})
    <3>1. c \in Seq(Dots) BY <2>1
    <3>2. Measured(c, u, v) BY <2>1
    <3>3. Positive(c) BY <2>1
    <3> QED BY <3>1, <3>2, <3>3, LeastLeft, ZenonT(60)
  <2> QED BY <2>2 DEF c, v
<1>11. 1000 \in Falls(full)
  <2>1. Capital \in Nat \ {0} BY AnalyticsAssumption
  <2>2. (1000 * Capital) \div Capital = 1000
    <3>1. 1000 * Capital \in Int /\ Capital * 1000 <= 1000 * Capital
          /\ 1000 * Capital < Capital * 1000 + Capital
      BY <2>1
    <3> QED BY <2>1, <3>1, QuotientUnique
  <2>3. 1 \in 1..Len(full) /\ full[1].equity = Capital /\ 1 <= 1 BY <1>5, <1>6 DEF Start
  <2>4. 1000 = (1000 * full[1].equity) \div full[1].equity BY <2>2, <2>3
  <2> QED BY <1>5, <2>3, <2>4, FallsAre
<1>12. Falls(full) \cup {1000} = Falls(full) BY <1>11
<1>13. Min(Falls(full)) \in Falls(full) BY <1>9, <1>11, MinIs
<1>14. Min(Falls(m.equity) \cup {1000}) \in Falls(m.equity) \cup {1000}
  <2> DEFINE S == Falls(m.equity) \cup {1000}
  <2>1. S \in SUBSET Nat /\ S # {} BY <1>10
  <2> HIDE DEF S
  <2>2. Min(S) \in S BY <2>1, MinIs
  <2> QED BY <2>2 DEF S
<1>15. m.left <= Min(Falls(full)) BY <1>9, <1>13 DEF Below
<1>16. m.left <= Min(Falls(m.equity) \cup {1000})
  <2> DEFINE S == Falls(m.equity) \cup {1000}
  <2> HIDE DEF S
  <2>1. Min(S) \in S /\ \A x \in S : m.left <= x BY <1>10, <1>14 DEF S, Below
  <2>2. m.left <= Min(S) BY <2>1
  <2> QED BY <2>2 DEF S
<1>17. dated => m.left = Min(Falls(full)) BY <1>4, <1>9, <1>12
<1> QED BY <1>15, <1>16, <1>17

-----------------------------------------------------------------------------
(* The snapshots read for a baseline.                                       *)

\* What readSeries has read: no more than the limit.
Windows == {x \in Seq(Samples) : Len(x) <= DefaultLimit}

\* The snapshots of a window, time by time.
Reads(f, from, to) ==
  /\ f \in [0..MaxTs -> Windows]
  /\ f[0] = <<>>
  /\ \A i \in 1..MaxTs :
       f[i] = IF i \in DOMAIN live \cap from..to /\ Len(f[i - 1]) < DefaultLimit
       THEN Append(f[i - 1], [ts |-> i, equity |-> live[i]]) ELSE f[i - 1]

LEMMA ReadUnfolds ==
  ASSUME CurveInv, NEW from, NEW to
  PROVE  \E f : Reads(f, from, to) /\ ReadSeries(from, to, FALSE) = f[MaxTs]
<1> DEFINE W == Windows
<1> DEFINE a == 0
<1> DEFINE n == MaxTs
<1> DEFINE base == <<>>
<1> DEFINE Takes(i, x) == IF i \in DOMAIN live \cap from..to /\ Len(x) < DefaultLimit
       THEN Append(x, [ts |-> i, equity |-> live[i]]) ELSE x
<1> DEFINE step == [p \in Int \X W |-> IF p[1] \in (a + 1)..n THEN Takes(p[1], p[2]) ELSE p[2]]
<1> DEFINE Goes(h) == h = [i \in a..n |-> IF i = a THEN base ELSE Takes(i, h[i - 1])]
<1>0. a \in Int /\ n \in Int /\ a <= n /\ base \in W
  <2>1. MaxTs \in Nat /\ DefaultLimit \in 1..MinTarget BY AnalyticsAssumption
  <2>2. <<>> \in Seq(Samples) /\ Len(<<>>) = 0 OBVIOUS
  <2> QED BY <2>1, <2>2 DEF Windows
<1>1. ASSUME NEW i \in (a + 1)..n, NEW x \in W PROVE Takes(i, x) \in W
  <2>1. CASE i \in DOMAIN live \cap from..to /\ Len(x) < DefaultLimit
    <3> DEFINE dot == [ts |-> i, equity |-> live[i]]
    <3>1. live[i] \in Equities BY <2>1 DEF CurveInv
    <3>2. i \in 1..MaxTs BY <1>0
    <3>3. dot \in Samples BY <3>1, <3>2 DEF Samples
    <3>4. x \in Seq(Samples) /\ Len(x) \in Nat /\ DefaultLimit \in Int
      BY AnalyticsAssumption DEF Windows
    <3>5. Takes(i, x) = Append(x, dot) BY <2>1
    <3> HIDE DEF dot, Takes
    <3>6. Append(x, dot) \in Seq(Samples) /\ Len(Append(x, dot)) = Len(x) + 1 BY <3>3, <3>4
    <3>7. Len(x) + 1 <= DefaultLimit BY <2>1, <3>4
    <3> QED BY <3>5, <3>6, <3>7 DEF Windows
  <2>2. CASE ~(i \in DOMAIN live \cap from..to /\ Len(x) < DefaultLimit) BY <2>2
  <2> QED BY <2>1, <2>2
<1>2. step \in [Int \X W -> W]
  <2> HIDE DEF Takes, W, a, n
  <2> QED BY <1>1
<1>3. PICK g : Recurs(g, a, n, W, base, step)
  <2> HIDE DEF step, W, a, n, base
  <2> QED BY <1>0, <1>2, Recursion
<1>4. ASSUME NEW i \in a..n PROVE g[i] = IF i = a THEN base ELSE Takes(i, g[i - 1])
  <2>1. g[i] = IF i = a THEN base ELSE step[<<i, g[i - 1]>>]
    <3> HIDE DEF step, W, a, n, base
    <3> QED BY <1>3 DEF Recurs
  <2>2. CASE i # a
    <3> HIDE DEF Takes, W, a, n, base
    <3>1. i - 1 \in a..n /\ i \in (a + 1)..n /\ i \in Int BY <1>0, <2>2
    <3>2. g[i - 1] \in W BY <1>3, <3>1 DEF Recurs
    <3>3. step[<<i, g[i - 1]>>] = Takes(i, g[i - 1]) BY <3>1, <3>2
    <3> HIDE DEF step
    <3> QED BY <2>1, <2>2, <3>3
  <2> HIDE DEF Takes, step, W, a, n, base
  <2> QED BY <2>1, <2>2
<1>5. Goes(g)
  <2> HIDE DEF W, Takes, step, a, n, base
  <2> QED BY <1>3, <1>4 DEF Recurs
<1> DEFINE all == CHOOSE h : Goes(h)
<1>6. Goes(all)
  <2> HIDE DEF Goes
  <2> QED BY <1>5
<1>7. ReadSeries(from, to, FALSE) = all[n] BY DEF ReadSeries
<1> HIDE DEF all, a, n, W, base, Takes
<1>8. all[a] = base /\ \A i \in (a + 1)..n : all[i] = Takes(i, all[i - 1])
  <2>1. a \in a..n /\ \A i \in (a + 1)..n : i \in a..n /\ i # a BY <1>0
  <2> QED BY <1>6, <2>1
<1>9. \A i \in a..n : all[i] \in W
  <2> DEFINE S == {i \in a..n : all[i] \in W}
  <2>1. a \in S BY <1>0, <1>8
  <2>2. ASSUME NEW i \in a..n, i # a, i - 1 \in S PROVE i \in S
    <3>1. i \in (a + 1)..n /\ all[i - 1] \in W BY <1>0, <2>2
    <3> QED BY <1>1, <1>8, <3>1
  <2> HIDE DEF S
  <2>3. \A i \in a..n : i \in S BY <1>0, <2>1, <2>2, UpTo
  <2> QED BY <2>3 DEF S
<1>10. all \in [a..n -> W] BY <1>6, <1>9
<1>11. Reads(all, from, to)
  <2>1. /\ all \in [0..MaxTs -> Windows]
        /\ all[0] = <<>>
    BY <1>8, <1>10 DEF a, n, W, base
  <2>2. \A i \in 1..MaxTs :
          all[i] = IF i \in DOMAIN live \cap from..to /\ Len(all[i - 1]) < DefaultLimit
       THEN Append(all[i - 1], [ts |-> i, equity |-> live[i]]) ELSE all[i - 1]
    BY <1>8 DEF a, n, Takes
  <2> QED BY <2>1, <2>2 DEF Reads
<1> QED BY <1>7, <1>11 DEF n

LEMMA ReadIs ==
  ASSUME CurveInv, NEW from, NEW to
  PROVE  /\ Curve(ReadSeries(from, to, FALSE))
         /\ Len(ReadSeries(from, to, FALSE)) \in Nat /\ Len(ReadSeries(from, to, FALSE)) <= DefaultLimit
<1>1. PICK f : Reads(f, from, to) /\ ReadSeries(from, to, FALSE) = f[MaxTs] BY ReadUnfolds
<1> DEFINE n == MaxTs
<1> DEFINE Early(x, t) == \A i \in 1..Len(x) : x[i].ts <= t
<1> DEFINE R == {t \in 0..n : Rises(f[t]) /\ Early(f[t], t)}
<1>2. n \in Nat BY AnalyticsAssumption
<1>3. 0 \in R
  <2>1. f[0] = <<>> BY <1>1 DEF Reads
  <2> QED BY <1>2, <2>1 DEF Rises
<1>4. ASSUME NEW t \in 0..n, t # 0, t - 1 \in R PROVE t \in R
  <2> DEFINE x == f[t - 1]
  <2>1. t \in 1..n /\ t - 1 \in 0..n BY <1>2, <1>4
  <2>2. x \in Seq(Samples) BY <1>1, <2>1 DEF Reads, Windows
  <2>3. Rises(x) /\ Early(x, t - 1) BY <1>4
  <2>4. \A i \in 1..Len(x) : x[i].ts \in Nat
    <3> HIDE DEF x
    <3>1. \A i \in 1..Len(x) : x[i] \in Samples BY <2>2
    <3> QED BY <3>1, SamplesAre
  <2>5. CASE f[t] = x
    <3>1. Early(x, t)
      <4> HIDE DEF x
      <4> QED BY <2>1, <2>3, <2>4
    <3> QED BY <2>3, <2>5, <3>1
  <2>6. CASE f[t] = Append(x, [ts |-> t, equity |-> live[t]])
    <3> DEFINE dot == [ts |-> t, equity |-> live[t]]
    <3> DEFINE y == Append(x, dot)
    <3> DEFINE m == Len(x)
    <3>1. m \in Nat /\ Len(y) = m + 1 /\ y[m + 1] = dot /\ dot.ts = t /\ \A i \in 1..m : y[i] = x[i]
      BY <2>2
    <3>2. f[t] = y BY <2>6
    <3>3. \A i \in 1..m : x[i].ts < t /\ x[i].ts \in Nat
      <4> HIDE DEF x
      <4> QED BY <2>1, <2>3, <2>4
    <3> HIDE DEF dot, y, m, x
    <3>4. \A i \in 1..(m + 1) : i = m + 1 \/ i \in 1..m BY <3>1
    <3>5. \A i \in 1..Len(y) : y[i].ts <= t
      <4> SUFFICES ASSUME NEW i \in 1..(m + 1) PROVE y[i].ts <= t BY <3>1
      <4>1. CASE i = m + 1 BY <2>1, <3>1, <4>1
      <4>2. CASE i \in 1..m BY <2>1, <3>1, <3>3, <4>2
      <4> QED BY <3>4, <4>1, <4>2
    <3>6. \A i, j \in 1..Len(y) : i < j => y[i].ts < y[j].ts
      <4> SUFFICES ASSUME NEW i \in 1..(m + 1), NEW j \in 1..(m + 1), i < j PROVE y[i].ts < y[j].ts
        BY <3>1
      <4>1. i \in 1..m BY <3>1
      <4>2. CASE j = m + 1 BY <3>1, <3>3, <4>1, <4>2
      <4>3. CASE j \in 1..m BY <2>3, <3>1, <4>1, <4>3 DEF Rises, m
      <4> QED BY <3>4, <4>2, <4>3
    <3>7. Rises(y) BY <3>6 DEF Rises
    <3> QED BY <3>2, <3>5, <3>7
  <2>7. f[t] = x \/ f[t] = Append(x, [ts |-> t, equity |-> live[t]]) BY <1>1, <2>1 DEF Reads
  <2> QED BY <2>5, <2>6, <2>7
<1>5. \A t \in 0..n : t \in R
  <2>1. 0 \in Int /\ n \in Int BY <1>2
  <2> HIDE DEF R, n
  <2> QED BY <1>3, <1>4, <2>1, UpTo
<1>6. Rises(f[n])
  <2>1. n \in R BY <1>2, <1>5
  <2> QED BY <2>1
<1>7. f[n] \in Windows BY <1>1, <1>2 DEF Reads
<1>8. f[n] \in Seq(Samples) /\ Len(f[n]) <= DefaultLimit /\ Len(f[n]) \in Nat BY <1>7 DEF Windows
<1> QED BY <1>1, <1>6, <1>8 DEF Curve

LEMMA BaselineIs ==
  ASSUME CurveInv, NEW ids
  PROVE  /\ Curve(Baseline(ids, FALSE))
         /\ Len(Baseline(ids, FALSE)) \in Nat /\ Len(Baseline(ids, FALSE)) <= DefaultLimit
BY ReadIs DEF Baseline

-----------------------------------------------------------------------------
(* The jobs that are shown, and what is answered of them.                   *)

LEMMA SelectionIs ==
  ASSUME NEW ids \in Selections
  PROVE  ids \in Seq(JobIds) /\ Len(ids) \in 1..5
<1>1. PICK n \in 1..5 : ids \in [1..n -> JobIds] BY DEF Selections
<1> QED BY <1>1

LEMMA ShownIs ==
  ASSUME NEW ids \in Selections
  PROVE  /\ LoadOverlaySeries(ids, 12) = LoadOverlaySeries(ids, 5)
         /\ LoadOverlaySeries(ids, 5) \in Seq(JobIds)
         /\ \A i \in 1..Len(LoadOverlaySeries(ids, 5)) : Equity(LoadOverlaySeries(ids, 5)[i]) # <<>>
<1> DEFINE n == Len(ids)
<1> DEFINE S == {j \in JobIds : Equity(j) # <<>>}
<1>1. ids \in Seq(JobIds) /\ n \in 1..5 BY SelectionIs
<1>2. SubSeq(ids, 1, n) = ids BY <1>1, PrefixGrows
<1>3. LoadOverlaySeries(ids, 5) = Only(SubSeq(ids, 1, Min({5, n})), S)
      /\ LoadOverlaySeries(ids, 12) = Only(SubSeq(ids, 1, Min({12, n})), S)
  BY DEF LoadOverlaySeries
<1> HIDE DEF n
<1>4. Min({5, n}) = n /\ Min({12, n}) = n
  <2>1. Min({5, n}) = (IF 5 <= n THEN 5 ELSE n) /\ Min({12, n}) = (IF 12 <= n THEN 12 ELSE n)
    BY <1>1, MinOfTwo
  <2> QED BY <1>1, <2>1
<1>5. LoadOverlaySeries(ids, 5) = Only(ids, S) /\ LoadOverlaySeries(ids, 12) = Only(ids, S)
  BY <1>2, <1>3, <1>4
<1>6. Only(ids, S) \in Seq(JobIds) /\ \A i \in 1..Len(Only(ids, S)) : Only(ids, S)[i] \in S
  <2> HIDE DEF S
  <2> QED BY <1>1, OnlyHas
<1> QED BY <1>5, <1>6

\* A cell of the CSV is the point of that time, or nothing.
LEMMA CellIs ==
  ASSUME CurveInv, NEW j \in JobIds, NEW t \in Times(Equity(j))
  PROVE  [ts |-> t, equity |-> Last(Only(Equity(j), {p \in Range(Equity(j)) : p.ts = t})).equity]
           \in Range(Equity(j))
<1> DEFINE s == Equity(j)
<1> DEFINE S == {p \in Range(s) : p.ts = t}
<1> DEFINE r == Only(s, S)
<1>1. s \in Seq(Samples) BY EquityIsCurve DEF Curve
<1> HIDE DEF s
<1>2. DOMAIN s = 1..Len(s) /\ Len(s) \in Nat /\ Range(s) \subseteq Samples BY <1>1 DEF Range
<1>3. PICK k \in 1..Len(s) : s[k].ts = t BY <1>2 DEF Times, s
<1>4. s[k] \in S BY <1>2, <1>3 DEF Range
<1> HIDE DEF S
<1>5. /\ r \in Seq(Samples) /\ \A i \in 1..Len(r) : r[i] \in S
      /\ \E i \in 1..Len(r) : r[i] = s[k]
  BY <1>1, <1>4, OnlyHas
<1> HIDE DEF r
<1>6. Len(r) \in Nat /\ Len(r) \in 1..Len(r)
  <2>1. PICK i \in 1..Len(r) : r[i] = s[k] BY <1>5
  <2>2. Len(r) \in Nat BY <1>5
  <2> QED BY <2>1, <2>2
<1>7. Last(r) = r[Len(r)] BY DEF Last
<1> DEFINE p == r[Len(r)]
<1>8. p \in Range(s) /\ p.ts = t /\ p \in Samples BY <1>2, <1>5, <1>6 DEF S
<1> HIDE DEF p
<1>9. p = [ts |-> t, equity |-> p.equity] BY <1>8 DEF Samples
<1>10. [ts |-> t, equity |-> p.equity] \in Range(s) BY <1>8, <1>9
<1>11. Last(r).equity = p.equity BY <1>7 DEF p
<1>12. Last(Only(Equity(j), {q \in Range(Equity(j)) : q.ts = t})).equity = p.equity
  BY <1>11 DEF r, S, s
<1> QED BY <1>10, <1>12 DEF s

LEMMA ReportIs ==
  ASSUME CurveInv, NEW ids \in Selections, NEW baseline \in BOOLEAN
  PROVE  ReportIsPage(GetReport(ids, baseline), GetAnalytics(ids, baseline, FALSE))
<1> DEFINE shown == LoadOverlaySeries(ids, 5)
<1> DEFINE curves == Curves(shown)
<1> DEFINE base == BaseOf(shown, baseline)
<1> DEFINE page == Answered(curves, base, baseline, FALSE)
<1> DEFINE report == Reported(curves, base, OverlaysCsv(shown))
<1>1. shown \in Seq(JobIds) /\ LoadOverlaySeries(ids, 12) = shown BY ShownIs
<1>2. GetAnalytics(ids, baseline, FALSE) = page BY DEF GetAnalytics
<1>3. GetReport(ids, baseline) = report
  <2>1. GetReport(ids, baseline) =
          Reported(Curves(LoadOverlaySeries(ids, 12)), BaseOf(LoadOverlaySeries(ids, 12), baseline),
                   OverlaysCsv(LoadOverlaySeries(ids, 12)))
    BY DEF GetReport
  <2> HIDE DEF shown
  <2> QED BY <1>1, <2>1
<1> HIDE DEF shown
<1>4. report.stats = page.stats /\ report.delta = page.delta /\ report.csv = OverlaysCsv(shown)
      /\ page.items = curves /\ page.baseline = base
  BY DEF Reported, Answered
<1>5. DOMAIN shown = 1..Len(shown) /\ DOMAIN curves = 1..Len(shown)
      /\ \A i \in 1..Len(shown) : shown[i] \in JobIds /\ curves[i] = Equity(shown[i])
  BY <1>1 DEF Curves
<1>6. Len(base) <= DefaultLimit
  <2>1. CASE baseline
    <3>1. base = Baseline(shown, FALSE) BY <2>1 DEF BaseOf
    <3> HIDE DEF base
    <3> QED BY <3>1, BaselineIs
  <2>2. CASE ~baseline
    <3>1. base = <<>> BY <2>2 DEF BaseOf
    <3>2. 0 <= DefaultLimit BY AnalyticsAssumption
    <3> HIDE DEF base
    <3> QED BY <3>1, <3>2
  <2> QED BY <2>1, <2>2
<1> HIDE DEF curves, base
<1>7. ASSUME NEW i \in DOMAIN curves, NEW t \in DOMAIN OverlaysCsv(shown)
      PROVE  IF t \in Times(curves[i])
             THEN [ts |-> t, equity |-> OverlaysCsv(shown)[t][i]] \in Range(curves[i])
             ELSE OverlaysCsv(shown)[t][i] = Nothing
  <2> DEFINE j == shown[i]
  <2>1. i \in DOMAIN shown /\ j \in JobIds /\ curves[i] = Equity(j) BY <1>5
  <2>2. OverlaysCsv(shown)[t][i] =
          IF t \notin Times(Equity(j)) THEN Nothing
          ELSE Last(Only(Equity(j), {p \in Range(Equity(j)) : p.ts = t})).equity
    BY <1>7, <2>1 DEF OverlaysCsv
  <2> HIDE DEF j
  <2>3. CASE t \in Times(Equity(j)) BY <2>1, <2>2, <2>3, CellIs
  <2>4. CASE t \notin Times(Equity(j)) BY <2>1, <2>2, <2>4
  <2> QED BY <2>3, <2>4
<1> HIDE DEF page, report
<1>8. ReportIsPage(report, page) BY <1>4, <1>6, <1>7 DEF ReportIsPage
<1> QED BY <1>2, <1>3, <1>8

-----------------------------------------------------------------------------
(* Closed trades, listed and attributed.                                    *)

\* A selection of two parts is the selection of each.
LEMMA OnlyConcat ==
  ASSUME NEW T, NEW u \in Seq(T), NEW v \in Seq(T), NEW S
  PROVE  Only(u \o v, S) = Only(u, S) \o Only(v, S)
<1> DEFINE P(k) == SubSeq(v, 1, k)
<1> DEFINE n == Len(v)
<1> DEFINE A == {k \in 0..n : Only(u \o P(k), S) = Only(u, S) \o Only(P(k), S)}
<1>1. n \in Nat /\ Only(u, S) \in Seq(T)
  <2>1. Only(u, S) \in Seq(T) BY OnlyHas
  <2> QED BY <2>1
<1>2. 0 \in A
  <2>1. P(0) = <<>> BY PrefixGrows
  <2> HIDE DEF P
  <2>2. Only(P(0), S) = <<>> BY <2>1, OnlyOfNone
  <2>3. u \o P(0) = u BY <2>1
  <2>4. Only(u, S) \o <<>> = Only(u, S) BY <1>1
  <2>5. Only(u \o P(0), S) = Only(u, S) \o Only(P(0), S) BY <2>2, <2>3, <2>4
  <2>6. 0 \in 0..n BY <1>1
  <2> QED BY <2>5, <2>6
<1>3. ASSUME NEW k \in 0..n, k # 0, k - 1 \in A PROVE k \in A
  <2>1. k \in 1..n BY <1>1, <1>3
  <2> DEFINE q == P(k - 1)
  <2> DEFINE x == v[k]
  <2>2. P(k) = Append(q, x) /\ x \in T /\ q \in Seq(T) BY <2>1, PrefixGrows
  <2>3. Only(u \o q, S) = Only(u, S) \o Only(q, S) BY <1>3
  <2> HIDE DEF P, q, x
  <2>4. u \o Append(q, x) = Append(u \o q, x) /\ u \o q \in Seq(T)
    <3>1. u \o Append(q, x) = Append(u \o q, x) BY <2>2, ConcatAppend
    <3>2. u \o q \in Seq(T) BY <2>2
    <3> QED BY <3>1, <3>2
  <2>5. Only(Append(q, x), S) = IF x \in S THEN Append(Only(q, S), x) ELSE Only(q, S)
    BY <2>2, OnlyAppend
  <2>6. Only(Append(u \o q, x), S)
          = IF x \in S THEN Append(Only(u \o q, S), x) ELSE Only(u \o q, S)
    <3>1. u \o q \in Seq(T) BY <2>4
    <3>2. x \in T BY <2>2
    <3> QED BY <3>1, <3>2, OnlyAppend
  <2> DEFINE a == Only(u, S)
  <2> DEFINE b == Only(q, S)
  <2>7. a \in Seq(T) /\ b \in Seq(T)
    <3>1. b \in Seq(T) BY <2>2, OnlyHas
    <3> QED BY <1>1, <3>1
  <2>8. Only(Append(q, x), S) = (IF x \in S THEN Append(b, x) ELSE b) BY <2>5
  <2>9. Only(Append(u \o q, x), S) = (IF x \in S THEN Append(a \o b, x) ELSE a \o b)
    BY <2>3, <2>6
  <2>10. Only(u \o P(k), S) = a \o Only(P(k), S)
    <3> HIDE DEF a, b
    <3>1. a \o Append(b, x) = Append(a \o b, x) BY <2>2, <2>7, ConcatAppend
    <3> QED BY <2>2, <2>4, <2>8, <2>9, <3>1
  <2> QED BY <2>10 DEF a
<1>4. \A k \in 0..n : k \in A
  <2>1. 0 \in Int /\ n \in Int BY <1>1
  <2> HIDE DEF A, n
  <2> QED BY <1>2, <1>3, <2>1, UpTo
<1>5. n \in A
  <2> HIDE DEF A
  <2> QED BY <1>1, <1>4
<1> QED BY <1>5, PrefixGrows

\* The first of a list read backwards are its last.
LEMMA ReversedEnd ==
  ASSUME NEW T, NEW s \in Seq(T), NEW l \in 0..Len(s)
  PROVE  /\ s = SubSeq(s, 1, Len(s) - l) \o Reverse(SubSeq(Reverse(s), 1, l))
         /\ Len(SubSeq(Reverse(s), 1, l)) = l /\ SubSeq(Reverse(s), 1, l) \in Seq(T)
<1> DEFINE n == Len(s)
<1> DEFINE r == Reverse(s)
<1> DEFINE e == SubSeq(r, 1, l)
<1> DEFINE b == SubSeq(s, 1, n - l)
<1>1. /\ n \in Nat /\ l \in Nat /\ l <= n /\ n - l \in 0..n
      /\ r \in Seq(T) /\ Len(r) = n /\ \A i \in 1..n : r[i] = s[n - i + 1]
  BY ReverseIs
<1> HIDE DEF r
<1>2. e \in Seq(T) /\ Len(e) = l /\ \A i \in 1..l : e[i] = r[i] BY <1>1
<1>3. b \in Seq(T) /\ Len(b) = n - l /\ \A i \in 1..(n - l) : b[i] = s[i] BY <1>1
<1> DEFINE z == Reverse(e)
<1>4. z \in Seq(T) /\ Len(z) = l /\ \A i \in 1..l : z[i] = e[l - i + 1]
  <2> HIDE DEF e
  <2>1. z \in Seq(T) /\ Len(z) = Len(e) /\ \A i \in 1..Len(e) : z[i] = e[Len(e) - i + 1]
    BY <1>2, ReverseIs
  <2> QED BY <1>2, <2>1
<1> HIDE DEF e, b, z
<1>5. \A i \in 1..l : z[i] = s[(n - l) + i]
  <2> SUFFICES ASSUME NEW i \in 1..l PROVE z[i] = s[(n - l) + i] OBVIOUS
  <2>1. l - i + 1 \in 1..l /\ l - i + 1 \in 1..n BY <1>1
  <2>2. z[i] = r[l - i + 1] BY <1>2, <1>4, <2>1
  <2>3. r[l - i + 1] = s[n - (l - i + 1) + 1] BY <1>1, <2>1
  <2>4. n - (l - i + 1) + 1 = (n - l) + i BY <1>1
  <2> QED BY <2>2, <2>3, <2>4
<1> DEFINE w == b \o z
<1>6. /\ w \in Seq(T) /\ Len(w) = n
      /\ \A i \in 1..n : w[i] = IF i <= n - l THEN b[i] ELSE z[i - (n - l)]
  BY <1>1, <1>3, <1>4
<1> HIDE DEF w
<1>7. \A i \in 1..n : w[i] = s[i]
  <2> SUFFICES ASSUME NEW i \in 1..n PROVE w[i] = s[i] OBVIOUS
  <2>1. CASE i <= n - l
    <3>1. i \in 1..(n - l) BY <1>1, <2>1
    <3> QED BY <1>3, <1>6, <2>1, <3>1
  <2>2. CASE ~(i <= n - l)
    <3>1. i - (n - l) \in 1..l /\ (n - l) + (i - (n - l)) = i BY <1>1, <2>2
    <3> QED BY <1>5, <1>6, <2>2, <3>1
  <2> QED BY <2>1, <2>2
<1>8. w = s BY <1>6, <1>7, SeqEqual
<1> QED BY <1>2, <1>8 DEF w, b, z, e, r

\* What is behind the first part of a sequence are its last elements.
LEMMA ConcatEnd ==
  ASSUME NEW T, NEW u \in Seq(T), NEW v \in Seq(T), NEW s, s = u \o v
  PROVE  v = SubSeq(s, Len(s) - Len(v) + 1, Len(s))
<1> DEFINE a == Len(u)
<1> DEFINE b == Len(v)
<1> DEFINE w == SubSeq(s, a + 1, a + b)
<1>1. a \in Nat /\ b \in Nat /\ s \in Seq(T) /\ Len(s) = a + b
      /\ \A i \in 1..(a + b) : s[i] = IF i <= a THEN u[i] ELSE v[i - a]
  OBVIOUS
<1>2. \A i \in 1..b : s[a + i] = v[i]
  <2> SUFFICES ASSUME NEW i \in 1..b PROVE s[a + i] = v[i] OBVIOUS
  <2>1. a + i \in 1..(a + b) /\ ~(a + i <= a) /\ (a + i) - a = i BY <1>1
  <2> QED BY <1>1, <2>1
<1> HIDE DEF a, b
<1>3. w \in Seq(T) /\ Len(w) = b /\ \A i \in 1..b : w[i] = s[a + i]
  <2>1. \A i \in 1..b : a + i \in 1..Len(s) BY <1>1
  <2>2. \A i \in 1..b : s[a + i] \in T BY <1>1, <2>1
  <2>3. w = [i \in 1..((a + b) - (a + 1) + 1) |-> s[(i + (a + 1)) - 1]] BY <1>1
  <2>4. (a + b) - (a + 1) + 1 = b BY <1>1
  <2>5. w = [i \in 1..b |-> s[(i + (a + 1)) - 1]] BY <2>3, <2>4
  <2>6. \A i \in 1..b : (i + (a + 1)) - 1 = a + i BY <1>1
  <2>7. \A i \in 1..b : w[i] = s[a + i] BY <2>5, <2>6
  <2>8. w \in [1..b -> T] BY <2>2, <2>5, <2>6
  <2> HIDE DEF w
  <2> QED BY <1>1, <2>7, <2>8
<1> HIDE DEF w
<1>4. Len(v) = b /\ \A i \in 1..b : w[i] = v[i] BY <1>2, <1>3 DEF b
<1>5. w = v BY <1>3, <1>4, SeqEqual
<1>6. Len(s) - Len(v) + 1 = a + 1 BY <1>1 DEF b
<1> QED BY <1>1, <1>5, <1>6 DEF w

LEMMA ListsHold ==
  ASSUME CurveInv, NEW from \in SnapTimes \cup {Nothing}, NEW to \in SnapTimes \cup {Nothing}
  PROVE  ListsAgree(from, to)
<1> DEFINE A == {t \in Range(book) : Bounded(t, from, to) /\ (to # Nothing => t.at < to)}
<1> DEFINE H == {t \in Range(book) : Bounded(t, from, to) /\ (to # Nothing => t.at <= to)}
<1> DEFINE R == {t \in Range(book) : to = Nothing \/ t.at # to}
<1> DEFINE r == Only(book, H)
<1> DEFINE o == Only(r, R)
<1> DEFINE l == Min({HistoryLimit, Len(Reverse(r))})
<1> DEFINE h == SubSeq(Reverse(r), 1, l)
<1> DEFINE d == SubSeq(o, 1, Min({AnalyticsLimit, Len(o)}))
<1> DEFINE c == Only(Reverse(h), R)
<1>1. book \in Seq(Closed) BY DEF CurveInv
<1>3. \A i \in 1..Len(book) : book[i] \in Closed /\ book[i] \in Range(book)
  <2>1. DOMAIN book = 1..Len(book) BY <1>1
  <2> QED BY <1>1, <2>1 DEF Range
<1>4. (to = Nothing \/ to \in Int) /\ (from = Nothing \/ from \in Int)
  <2>1. \A u \in SnapTimes : u \in Int BY AnalyticsAssumption
  <2> QED BY <2>1
<1>5. \A i \in 1..Len(book) : book[i] \in A <=> book[i] \in H \cap R
  <2> SUFFICES ASSUME NEW i \in 1..Len(book) PROVE book[i] \in A <=> book[i] \in H \cap R OBVIOUS
  <2> DEFINE t == book[i]
  <2>1. t \in Range(book) /\ t \in Closed BY <1>3
  <2> HIDE DEF t
  <2>2. t.at = Nothing \/ t.at \in Int BY <2>1, ClosedIs
  <2>3. ASSUME to = Nothing PROVE t \in A <=> t \in H \cap R BY <2>1, <2>3
  <2>4. ASSUME to # Nothing PROVE t \in A <=> t \in H \cap R
    <3>1. Bounded(t, from, to) => t.at \in Int BY <2>2, <2>4 DEF Bounded
    <3>2. to \in Int BY <1>4, <2>4
    <3>3. Bounded(t, from, to) => (t.at < to <=> t.at <= to /\ t.at # to) BY <3>1, <3>2
    <3>4. t \in A <=> Bounded(t, from, to) /\ t.at < to BY <2>1, <2>4
    <3>5. t \in H <=> Bounded(t, from, to) /\ t.at <= to BY <2>1, <2>4
    <3>6. t \in R <=> t.at # to BY <2>1, <2>4
    <3> HIDE DEF A, H, R
    <3> QED BY <3>3, <3>4, <3>5, <3>6
  <2>5. t \in A <=> t \in H \cap R BY <2>3, <2>4
  <2> QED BY <2>5 DEF t
<1>6. r \in Seq(Closed)
  <2> HIDE DEF H
  <2> QED BY <1>1, OnlyHas
<1>7. Reverse(Reverse(r)) = r
  <2> HIDE DEF r
  <2> QED BY <1>6, ReverseIs
<1>8. Only(r, R) = Only(book, H \cap R)
  <2> HIDE DEF H, R
  <2> QED BY <1>1, OnlyOnly
<1>9. Only(book, A) = Only(book, H \cap R)
  <2> DEFINE B == H \cap R
  <2>1. \A i \in 1..Len(book) : book[i] \in A <=> book[i] \in B BY <1>5
  <2> HIDE DEF A, B
  <2>2. Only(book, A) = Only(book, B) BY <1>1, <2>1, OnlySame
  <2> QED BY <2>2 DEF B
<1>10. AnalyticsTrades(from, to) = d /\ LiveHistory(from, to) = h
  <2>1. Only(book, A) = o BY <1>8, <1>9
  <2>2. AnalyticsTrades(from, to) = FirstRows(Only(book, A), AnalyticsLimit) BY DEF AnalyticsTrades
  <2>3. LiveHistory(from, to) = FirstRows(Reverse(r), HistoryLimit) BY DEF LiveHistory
  <2> HIDE DEF A, o, r
  <2> QED BY <2>1, <2>2, <2>3 DEF FirstRows
<1>11. HistoryLimit \in Nat \ {0} /\ AnalyticsLimit \in Nat \ {0} BY AnalyticsAssumption
<1>12. o \in Seq(Closed) /\ Len(o) \in Nat
  <2> HIDE DEF r, R
  <2>1. o \in Seq(Closed) BY <1>6, OnlyHas
  <2> HIDE DEF o
  <2> QED BY <2>1
<1> DEFINE n == Len(r)
<1>13. n \in Nat /\ Len(Reverse(r)) = n
  <2> HIDE DEF r
  <2>1. Len(Reverse(r)) = Len(r) BY <1>6, ReverseIs
  <2> QED BY <1>6, <2>1
<1> HIDE DEF r, o, R
<1>14. l = (IF HistoryLimit <= n THEN HistoryLimit ELSE n)
  BY <1>11, <1>13, MinOfTwo
<1> HIDE DEF l
<1>15. l \in 0..n BY <1>11, <1>13, <1>14
<1> DEFINE u == SubSeq(r, 1, n - l)
<1>16. r = u \o Reverse(h) /\ Len(h) = l /\ h \in Seq(Closed) BY <1>6, <1>15, ReversedEnd
<1>17. u \in Seq(Closed)
  <2>1. n - l \in 0..Len(r) BY <1>13, <1>15
  <2> HIDE DEF u
  <2> QED BY <1>6, <2>1, PrefixGrows DEF u
<1> HIDE DEF h, u
<1>18. Reverse(h) \in Seq(Closed) BY <1>16, ReverseIs
<1>19. o = Only(u, R) \o c /\ Only(u, R) \in Seq(Closed) /\ c \in Seq(Closed)
  <2>1. Only(u \o Reverse(h), R) = Only(u, R) \o Only(Reverse(h), R) BY <1>17, <1>18, OnlyConcat
  <2>2. Only(u, R) \in Seq(Closed) BY <1>17, OnlyHas
  <2>3. Only(Reverse(h), R) \in Seq(Closed) BY <1>18, OnlyHas
  <2> QED BY <1>16, <2>1, <2>2, <2>3 DEF o
<1> HIDE DEF c
<1>20. c = SubSeq(o, Len(o) - Len(c) + 1, Len(o)) BY <1>19, ConcatEnd
<1>21. Min({AnalyticsLimit, Len(o)}) = IF AnalyticsLimit <= Len(o) THEN AnalyticsLimit ELSE Len(o)
  BY <1>11, <1>12, MinOfTwo
<1>22. Len(d) = Min({AnalyticsLimit, Len(o)})
  <2> DEFINE k == Min({AnalyticsLimit, Len(o)})
  <2>1. k \in 0..Len(o) BY <1>11, <1>12, <1>21
  <2> HIDE DEF k
  <2>2. Len(SubSeq(o, 1, k)) = k BY <1>12, <2>1, PrefixGrows
  <2> QED BY <2>2 DEF k
<1>23. Len(d) < AnalyticsLimit => c = SubSeq(d, Len(d) - Len(c) + 1, Len(d))
  <2> SUFFICES ASSUME Len(d) < AnalyticsLimit PROVE d = o BY <1>20
  <2>1. Min({AnalyticsLimit, Len(o)}) = Len(o) BY <1>11, <1>12, <1>21, <1>22
  <2> QED BY <1>12, <2>1, PrefixGrows
<1>24. ASSUME Len(h) < HistoryLimit PROVE r = Reverse(h) /\ c = o
  <2>1. l = n BY <1>11, <1>13, <1>14, <1>16, <1>24
  <2>2. n - l = 0 BY <1>13, <2>1
  <2>3. u = <<>> BY <1>6, <2>2, PrefixGrows DEF u
  <2>4. r = Reverse(h) BY <1>16, <1>18, <2>3
  <2> QED BY <2>4 DEF c, o
<1>25. Len(h) < HistoryLimit => d = SubSeq(c, 1, Len(d)) BY <1>22, <1>24
<1>26. ASSUME Len(h) < HistoryLimit, from # Nothing, to # Nothing
       PROVE Attribution(from, to) = PnlOf(h)
  <2> DEFINE f == [i \in DOMAIN book |->
                     IF book[i].at # Nothing /\ book[i].at \in from..to THEN book[i].pnl ELSE 0]
  <2>1. Attribution(from, to) = SumOver(f, 1, Len(book)) BY DEF Attribution
  <2>2. \A i \in 1..Len(book) : f[i] = IF book[i] \in H THEN book[i].pnl ELSE 0
    <3> SUFFICES ASSUME NEW i \in 1..Len(book)
                 PROVE f[i] = IF book[i] \in H THEN book[i].pnl ELSE 0
      OBVIOUS
    <3> DEFINE t == book[i]
    <3>1. i \in DOMAIN book /\ t \in Range(book) /\ t \in Closed BY <1>1, <1>3
    <3>2. f[i] = IF t.at # Nothing /\ t.at \in from..to THEN t.pnl ELSE 0 BY <3>1
    <3>3. t.at = Nothing \/ t.at \in Int BY <3>1, ClosedIs
    <3> HIDE DEF f, t
    <3>4. t \in H <=> t.at # Nothing /\ t.at \in from..to
      BY <1>4, <1>26, <3>1, <3>3 DEF Bounded
    <3> HIDE DEF H
    <3> QED BY <3>2, <3>4 DEF t
  <2>3. Earns(Closed) BY ClosedIs DEF Earns
  <2> HIDE DEF f, H
  <2>4. PnlOf(r) = SumOver(f, 1, Len(book)) BY <1>1, <2>2, <2>3, PnlOfOnly DEF r
  <2>5. PnlOf(Reverse(h)) = PnlOf(h) BY <1>16, <2>3, PnlReverse
  <2> QED BY <1>24, <1>26, <2>1, <2>4, <2>5
<1>27. Only(Reverse(LiveHistory(from, to)), {t \in Range(book) : to = Nothing \/ t.at # to}) = c
  BY <1>10 DEF c, R
<1> HIDE DEF d
<1> QED BY <1>10, <1>23, <1>25, <1>26, <1>27 DEF ListsAgree

LEMMA TradesAre ==
  ASSUME CurveInv, NEW from, NEW to
  PROVE  AnalyticsTrades(from, to) \in Seq(Closed)
<1> DEFINE A == {t \in Range(book) : Bounded(t, from, to) /\ (to # Nothing => t.at < to)}
<1> DEFINE s == Only(book, A)
<1> DEFINE k == Min({AnalyticsLimit, Len(s)})
<1>1. AnalyticsTrades(from, to) = SubSeq(s, 1, k) BY DEF AnalyticsTrades, FirstRows
<1> HIDE DEF A
<1>2. s \in Seq(Closed) BY OnlyHas DEF CurveInv
<1> HIDE DEF s
<1>3. AnalyticsLimit \in Nat /\ Len(s) \in Nat BY <1>2, AnalyticsAssumption
<1>4. k \in 0..Len(s)
  <2>1. k = IF AnalyticsLimit <= Len(s) THEN AnalyticsLimit ELSE Len(s) BY <1>3, MinOfTwo
  <2> QED BY <1>3, <2>1
<1> HIDE DEF k
<1> QED BY <1>1, <1>2, <1>4, PrefixGrows

(* The statistics agree, whatever rows, snapshots and trades there are and  *)
(* whatever the limits: the one pass finds the largest fall; the fall of    *)
(* closed trades counts from the capital; the report shows what the page    *)
(* shows; and as long as a list is shorter than its limit, the lists of     *)
(* trades differ by those closed at the window's end and those beyond the   *)
(* other's limit only (the analytics routes and services of src/src).       *)
THEOREM StatisticsHold == CurveSpec => []StatisticsAgree
<1>1. CurveInv => StatisticsAgree
  <2> SUFFICES ASSUME CurveInv PROVE StatisticsAgree OBVIOUS
  <2>1. \A j \in JobIds : CalcMaxDD(Equity(j)) = Min(Falls(Equity(j)) \cup {1000})
    BY EquityIsCurve, CurveDots, MaxDDIs
  <2>2. TradesFall(AnalyticsTrades(Nothing, Nothing)) BY TradesAre, TradesFallHolds
  <2>3. \A ids \in Selections, baseline \in BOOLEAN :
          ReportIsPage(GetReport(ids, baseline), GetAnalytics(ids, baseline, FALSE))
    BY ReportIs
  <2>4. \A from, to \in SnapTimes \cup {Nothing} : ListsAgree(from, to) BY ListsHold
  <2> QED BY <2>1, <2>2, <2>3, <2>4 DEF StatisticsAgree
<1> QED BY <1>1, CurveInvHolds, PTL

-----------------------------------------------------------------------------
(* What the page draws.                                                      *)

LEMMA QuotientScales ==
  ASSUME NEW k \in Nat \ {0}, NEW x \in Nat, NEW y \in Nat \ {0}
  PROVE  (1000 * (k * x)) \div (k * y) = (1000 * x) \div y
<1> DEFINE z == 1000 * x
<1> DEFINE q == z \div y
<1>1. z \in Nat /\ 1000 * (k * x) = k * z OBVIOUS
<1> HIDE DEF z
<1>2. q \in Int /\ y * q <= z /\ z < y * q + y BY <1>1, QuotientIs
<1> HIDE DEF q
<1>3. k * y \in Nat \ {0} /\ k * z \in Int BY <1>1
<1>4. (k * y) * q = k * (y * q) /\ k * (y * q + y) = (k * y) * q + k * y BY <1>2
<1>5. k * (y * q) <= k * z
  <2>1. y * q \in Int BY <1>2
  <2> QED BY <1>1, <1>2, <2>1, ProductGrows
<1>6. k * z < k * (y * q + y)
  <2> DEFINE w == (y * q + y) - z
  <2>1. w \in Nat \ {0} BY <1>1, <1>2
  <2>2. k * (y * q + y) = k * z + k * w BY <1>1, <1>2
  <2> HIDE DEF w
  <2>3. k * w \in Nat \ {0} BY <2>1
  <2> QED BY <1>3, <2>2, <2>3
<1> DEFINE d == k * y
<1> DEFINE u == k * z
<1>7. d \in Nat \ {0} /\ u \in Int /\ d * q <= u /\ u < d * q + d BY <1>3, <1>4, <1>5, <1>6
<1> HIDE DEF d, u
<1>8. u \div d = q BY <1>2, <1>7, QuotientUnique
<1> QED BY <1>1, <1>8 DEF d, u, q, z

\* A rebased curve is the curve times a whole number.
Multiple(r, s, k) ==
  /\ r \in Seq(Dots) /\ Len(r) = Len(s)
  /\ \A i \in 1..Len(s) : r[i].ts = s[i].ts /\ r[i].equity = k * s[i].equity

LEMMA RebaseIs ==
  ASSUME NEW s, Curve(s), s # <<>>
  PROVE  \E k \in Nat \ {0} : Multiple(RebaseCurve(s), s, k) /\ RebaseTo = k * s[1].equity
<1> DEFINE y == s[1].equity
<1> DEFINE k == RebaseTo \div y
<1> DEFINE r == RebaseCurve(s)
<1>1. s \in Seq(Samples) /\ DOMAIN s = 1..Len(s) /\ Len(s) \in Nat /\ 1 \in 1..Len(s) BY DEF Curve
<1>2. y \in Equities
  <2>1. s[1] \in Samples BY <1>1
  <2> QED BY <2>1 DEF Samples
<1>3. RebaseTo \in Nat \ {0} /\ RebaseTo % y = 0 BY <1>2, AnalyticsAssumption
<1>4. y \in Nat \ {0} BY <1>1, CurveIs
<1> HIDE DEF y
<1>5. k \in Nat \ {0} /\ RebaseTo = k * y BY <1>3, <1>4
<1> HIDE DEF k
<1>6. \A i \in 1..Len(s) : r[i] = [s[i] EXCEPT !.equity = (RebaseTo * s[i].equity) \div y]
  BY <1>1 DEF RebaseCurve, y
<1>7. DOMAIN r = 1..Len(s) BY <1>1 DEF RebaseCurve
<1>8. ASSUME NEW i \in 1..Len(s)
      PROVE  r[i] \in Dots /\ r[i].ts = s[i].ts /\ r[i].equity = k * s[i].equity
  <2> DEFINE x == s[i].equity
  <2>1. s[i] \in Samples /\ x \in Nat /\ s[i].ts \in Nat BY CurveIs
  <2> HIDE DEF x
  <2>2. (RebaseTo * x) \div y = k * x
    <3>1. RebaseTo * x = y * (k * x) BY <1>4, <1>5, <2>1
    <3>2. k * x \in Int BY <1>5, <2>1
    <3> DEFINE q == k * x
    <3> DEFINE u == RebaseTo * x
    <3>3. q \in Int /\ u \in Int /\ y * q <= u /\ u < y * q + y BY <1>4, <3>1, <3>2
    <3> HIDE DEF q, u
    <3>4. u \div y = q BY <1>4, <3>3, QuotientUnique
    <3> QED BY <3>4 DEF q, u
  <2>3. r[i] = [s[i] EXCEPT !.equity = k * x] BY <1>6, <2>2 DEF x
  <2>4. r[i] = [ts |-> s[i].ts, equity |-> k * x] BY <2>1, <2>3 DEF Samples
  <2>5. k * x \in Int BY <1>5, <2>1
  <2> QED BY <2>1, <2>4, <2>5 DEF Dots, x
<1>9. r \in Seq(Dots) /\ Len(r) = Len(s)
  <2>1. r = [i \in 1..Len(s) |-> r[i]] BY <1>1 DEF RebaseCurve
  <2> HIDE DEF r
  <2>2. r \in [1..Len(s) -> Dots] BY <1>8, <2>1
  <2> QED BY <1>1, <2>2
<1>10. Multiple(r, s, k)
  <2> HIDE DEF r
  <2> QED BY <1>8, <1>9 DEF Multiple
<1> QED BY <1>5, <1>10 DEF y

LEMMA FallsScale ==
  ASSUME NEW s, Curve(s), NEW r, NEW k \in Nat \ {0}, Multiple(r, s, k)
  PROVE  /\ Positive(r) /\ Falls(r) = Falls(s)
         /\ s # <<>> => (1000 * r[Len(r)].equity) \div r[1].equity = (1000 * s[Len(s)].equity) \div s[1].equity
<1>1. s \in Seq(Samples) /\ Len(s) \in Nat BY DEF Curve
<1>2. r \in Seq(Dots) /\ Len(r) = Len(s) BY DEF Multiple
<1>3. \A i \in 1..Len(s) : /\ s[i].equity \in Nat /\ s[i].equity > 0 /\ r[i].equity = k * s[i].equity
  BY CurveIs DEF Multiple
<1>4. ASSUME NEW i \in 1..Len(s), NEW j \in 1..Len(s)
      PROVE  (1000 * r[j].equity) \div r[i].equity = (1000 * s[j].equity) \div s[i].equity
  <2> DEFINE x == s[j].equity
  <2> DEFINE y == s[i].equity
  <2>1. x \in Nat /\ y \in Nat \ {0} /\ r[j].equity = k * x /\ r[i].equity = k * y BY <1>3
  <2> HIDE DEF x, y
  <2>2. (1000 * (k * x)) \div (k * y) = (1000 * x) \div y BY <2>1, QuotientScales
  <2> QED BY <2>1, <2>2 DEF x, y
<1>5. Positive(r)
  <2> SUFFICES ASSUME NEW i \in 1..Len(r) PROVE r[i].equity > 0 BY DEF Positive
  <2> DEFINE x == s[i].equity
  <2>1. x \in Nat /\ x > 0 /\ r[i].equity = k * x BY <1>2, <1>3
  <2> HIDE DEF x
  <2> QED BY <2>1
<1>6. ASSUME NEW x PROVE x \in Falls(r) <=> x \in Falls(s)
  <2>1. x \in Falls(r) <=> \E i, j \in 1..Len(s) : i <= j /\ x = (1000 * r[j].equity) \div r[i].equity
    BY <1>2, FallsAre
  <2>2. x \in Falls(s) <=> \E i, j \in 1..Len(s) : i <= j /\ x = (1000 * s[j].equity) \div s[i].equity
    BY <1>1, FallsAre
  <2> QED BY <1>4, <2>1, <2>2
<1>7. s # <<>> => 1 \in 1..Len(s) /\ Len(s) \in 1..Len(s) BY <1>1
<1>8. Falls(r) = Falls(s) BY <1>6
<1>9. s # <<>> => (1000 * r[Len(r)].equity) \div r[1].equity = (1000 * s[Len(s)].equity) \div s[1].equity
  <2>1. Len(r) = Len(s) BY <1>2
  <2> QED BY <1>4, <1>7, <2>1
<1> QED BY <1>5, <1>8, <1>9

LEMMA RebaseKeeps ==
  ASSUME NEW s, Curve(s)
  PROVE  /\ Len(RebaseCurve(s)) = Len(s) /\ Summary(RebaseCurve(s)) = Summary(s)
         /\ CalcReturn(RebaseCurve(s)) = CalcReturn(s) /\ CalcMaxDD(RebaseCurve(s)) = CalcMaxDD(s)
         /\ s # <<>> => /\ RebaseCurve(s) # <<>> /\ RebaseCurve(s)[1].ts = s[1].ts
                        /\ RebaseCurve(s)[1].equity = RebaseTo
<1> DEFINE r == RebaseCurve(s)
<1>1. s \in Seq(Samples) /\ DOMAIN s = 1..Len(s) /\ Len(s) \in Nat BY DEF Curve
<1>2. ASSUME s = <<>> PROVE r = s
  <2>1. DOMAIN r = DOMAIN s /\ r = [i \in DOMAIN s |-> r[i]] BY DEF RebaseCurve
  <2>2. DOMAIN s = {} BY <1>2
  <2> HIDE DEF r
  <2> QED BY <1>2, <2>1, <2>2
<1>3. ASSUME s # <<>>
      PROVE  /\ Len(r) = Len(s) /\ CalcReturn(r) = CalcReturn(s) /\ CalcMaxDD(r) = CalcMaxDD(s)
             /\ r # <<>> /\ r[1].ts = s[1].ts /\ r[1].equity = RebaseTo
  <2>1. PICK k \in Nat \ {0} : Multiple(r, s, k) /\ RebaseTo = k * s[1].equity BY <1>3, RebaseIs
  <2> HIDE DEF r
  <2>2. 1 \in 1..Len(s) BY <1>1, <1>3
  <2>3. r \in Seq(Dots) /\ Len(r) = Len(s) /\ r[1].ts = s[1].ts /\ r[1].equity = k * s[1].equity
    BY <2>1, <2>2 DEF Multiple
  <2>4. r # <<>> BY <1>1, <2>2, <2>3
  <2>5. Positive(r) /\ Falls(r) = Falls(s)
        /\ (1000 * r[Len(r)].equity) \div r[1].equity = (1000 * s[Len(s)].equity) \div s[1].equity
    BY <1>3, <2>1, FallsScale
  <2>6. CalcMaxDD(r) = Min(Falls(s) \cup {1000}) BY <2>3, <2>5, MaxDDIs
  <2>7. CalcMaxDD(s) = Min(Falls(s) \cup {1000}) BY CurveDots, MaxDDIs
  <2>8. CalcReturn(r) = CalcReturn(s) BY <1>3, <2>4, <2>5 DEF CalcReturn
  <2> QED BY <2>1, <2>3, <2>4, <2>6, <2>7, <2>8
<1> HIDE DEF r
<1>4. Len(r) = Len(s) /\ CalcReturn(r) = CalcReturn(s) /\ CalcMaxDD(r) = CalcMaxDD(s) BY <1>2, <1>3
<1>5. Summary(r) = Summary(s) BY <1>4 DEF Summary
<1> QED BY <1>3, <1>4, <1>5 DEF r

\* A curve cut at a time it has starts at that time.
LEMMA CutIs ==
  ASSUME NEW s, Curve(s), NEW start, start = Nothing \/ start \in Times(s)
  PROVE  /\ Curve(CutAt(s, start))
         /\ start # Nothing => CutAt(s, start) # <<>> /\ CutAt(s, start)[1].ts = start
<1>1. s \in Seq(Samples) /\ DOMAIN s = 1..Len(s) /\ Len(s) \in Nat /\ Rises(s) BY DEF Curve
<1>2. CASE start = Nothing BY <1>2 DEF CutAt
<1>3. CASE start # Nothing
  <2> DEFINE S == {p \in Range(s) : p.ts >= start}
  <2> DEFINE r == Only(s, S)
  <2>1. CutAt(s, start) = r BY <1>3 DEF CutAt
  <2>2. PICK k \in 1..Len(s) : s[k].ts = start BY <1>1, <1>3 DEF Times
  <2>3. start \in Int BY <2>2, CurveIs
  <2>4. s[k] \in S BY <1>1, <2>2, <2>3 DEF Range
  <2>5. \A p \in S : p.ts >= start OBVIOUS
  <2> HIDE DEF S
  <2>6. /\ r \in Seq(Samples) /\ \A i \in 1..Len(r) : r[i] \in S
        /\ \E i \in 1..Len(r) : r[i] = s[k]
    BY <1>1, <2>4, OnlyHas
  <2>7. \A x \in Samples : x.ts \in Int BY SamplesAre
  <2>8. Rises(r) BY <1>1, <2>7, SelectionRises
  <2> HIDE DEF r
  <2>9. PICK i \in 1..Len(r) : r[i] = s[k] BY <2>6
  <2>10. Len(r) \in Nat /\ 1 \in 1..Len(r) /\ r # <<>> BY <2>6, <2>9
  <2>11. r[1] \in Samples /\ r[i] \in Samples BY <2>6, <2>10
  <2>12. r[1].ts \in Int /\ r[i].ts = start BY <2>2, <2>7, <2>9, <2>11
  <2>13. r[1].ts >= start BY <2>5, <2>6, <2>10
  <2>14. i = 1 \/ r[1].ts < r[i].ts
    <3>1. i # 1 => 1 < i BY <2>10
    <3> QED BY <2>8, <2>10, <3>1 DEF Rises
  <2>15. r[1].ts = start BY <2>3, <2>12, <2>13, <2>14
  <2> QED BY <2>1, <2>6, <2>8, <2>10, <2>15 DEF Curve
<1> QED BY <1>2, <1>3

\* What all curves of a collection have in common does not depend on their order.
LEMMA CommonIs ==
  ASSUME NEW all, 1 \in DOMAIN all
  PROVE  \A t : t \in CommonTimes(all) <=> \A i \in DOMAIN all : t \in Times(all[i])
BY DEF CommonTimes

\* The curves in the order of the page, and in that of the server's hint.
OnPage(items, base, baseline) == items \o (IF baseline THEN <<base>> ELSE <<>>)
AtServer(items, base, baseline) == (IF baseline THEN <<base>> ELSE <<>>) \o items

LEMMA ShownAre ==
  ASSUME NEW T, NEW items \in Seq(T), NEW base \in T, NEW baseline \in BOOLEAN
  PROVE  LET all == OnPage(items, base, baseline)
             n == Len(items)
         IN /\ all \in Seq(T) /\ Len(all) = (IF baseline THEN n + 1 ELSE n)
            /\ \A i \in 1..n : all[i] = items[i]
            /\ baseline => all[n + 1] = base
<1> DEFINE one == <<base>>
<1>1. one \in Seq(T) /\ Len(one) = 1 /\ one[1] = base OBVIOUS
<1> HIDE DEF one
<1>2. CASE baseline
  <2> DEFINE z == items \o one
  <2>1. OnPage(items, base, baseline) = z BY <1>2 DEF OnPage, one
  <2>2. /\ z \in Seq(T) /\ Len(z) = Len(items) + Len(one)
        /\ \A i \in 1..Len(z) : z[i] = IF i <= Len(items) THEN items[i] ELSE one[i - Len(items)]
    BY <1>1, ConcatProperties
  <2> HIDE DEF z
  <2>3. Len(z) = Len(items) + 1 /\ Len(items) \in Nat BY <1>1, <2>2
  <2>4. \A i \in 1..Len(items) : z[i] = items[i] BY <2>2, <2>3
  <2>5. z[Len(items) + 1] = base BY <1>1, <2>2, <2>3
  <2> QED BY <1>2, <2>1, <2>2, <2>3, <2>4, <2>5
<1>3. CASE ~baseline
  <2>1. OnPage(items, base, baseline) = items \o <<>> BY <1>3 DEF OnPage
  <2>2. items \o <<>> = items BY ConcatEmptySeq
  <2> QED BY <1>3, <2>1, <2>2
<1> QED BY <1>2, <1>3

LEMMA AskedAre ==
  ASSUME NEW T, NEW items \in Seq(T), NEW base \in T, NEW baseline \in BOOLEAN
  PROVE  LET all == AtServer(items, base, baseline)
             n == Len(items)
         IN /\ all \in Seq(T) /\ Len(all) = (IF baseline THEN n + 1 ELSE n)
            /\ \A i \in 1..n : all[IF baseline THEN i + 1 ELSE i] = items[i]
            /\ baseline => all[1] = base
<1> DEFINE one == <<base>>
<1>1. one \in Seq(T) /\ Len(one) = 1 /\ one[1] = base OBVIOUS
<1> HIDE DEF one
<1>2. CASE baseline
  <2> DEFINE z == one \o items
  <2>1. AtServer(items, base, baseline) = z BY <1>2 DEF AtServer, one
  <2>2. /\ z \in Seq(T) /\ Len(z) = Len(one) + Len(items)
        /\ \A i \in 1..Len(z) : z[i] = IF i <= Len(one) THEN one[i] ELSE items[i - Len(one)]
    BY <1>1, ConcatProperties
  <2> HIDE DEF z
  <2>3. Len(z) = Len(items) + 1 /\ Len(items) \in Nat BY <1>1, <2>2
  <2>4. \A i \in 1..Len(items) : z[i + 1] = items[i] BY <1>1, <2>2, <2>3
  <2>5. z[1] = base BY <1>1, <2>2, <2>3
  <2> QED BY <1>2, <2>1, <2>2, <2>3, <2>4, <2>5
<1>3. CASE ~baseline
  <2>1. AtServer(items, base, baseline) = <<>> \o items BY <1>3 DEF AtServer
  <2>2. <<>> \o items = items BY ConcatEmptySeq
  <2> QED BY <1>3, <2>1, <2>2
<1> QED BY <1>2, <1>3

\* The server's list and the page's hold the same curves, so the same times.
LEMMA SameTimes ==
  ASSUME NEW T, NEW items \in Seq(T), NEW base \in T, NEW baseline \in BOOLEAN,
         OnPage(items, base, baseline) # <<>>
  PROVE  CommonTimes(AtServer(items, base, baseline)) = CommonTimes(OnPage(items, base, baseline))
<1> DEFINE n == Len(items)
<1> DEFINE p == OnPage(items, base, baseline)
<1> DEFINE q == AtServer(items, base, baseline)
<1>1. /\ p \in Seq(T) /\ Len(p) = (IF baseline THEN n + 1 ELSE n)
      /\ \A i \in 1..n : p[i] = items[i]
      /\ baseline => p[n + 1] = base
  BY ShownAre
<1>2. /\ q \in Seq(T) /\ Len(q) = (IF baseline THEN n + 1 ELSE n)
      /\ \A i \in 1..n : q[IF baseline THEN i + 1 ELSE i] = items[i]
      /\ baseline => q[1] = base
  BY AskedAre
<1>3. n \in Nat OBVIOUS
<1>4. p # <<>> OBVIOUS
<1> HIDE DEF p, q, n
<1>5. DOMAIN p = 1..Len(p) /\ DOMAIN q = 1..Len(p) /\ 1 \in DOMAIN p /\ 1 \in DOMAIN q BY <1>1, <1>2, <1>4
<1>6. ASSUME NEW t
      PROVE  (\A i \in DOMAIN p : t \in Times(p[i])) <=>
               (\A i \in 1..n : t \in Times(items[i])) /\ (baseline => t \in Times(base))
  <2>1. baseline => n + 1 \in DOMAIN p BY <1>1, <1>3, <1>5
  <2>2. \A i \in 1..n : i \in DOMAIN p BY <1>1, <1>3, <1>5
  <2>3. \A i \in DOMAIN p : i \in 1..n \/ (baseline /\ i = n + 1) BY <1>1, <1>3, <1>5
  <2> QED BY <1>1, <2>1, <2>2, <2>3
<1>7. ASSUME NEW t
      PROVE  (\A i \in DOMAIN q : t \in Times(q[i])) <=>
               (\A i \in 1..n : t \in Times(items[i])) /\ (baseline => t \in Times(base))
  <2> DEFINE At(i) == IF baseline THEN i + 1 ELSE i
  <2>1. \A i \in 1..n : At(i) \in DOMAIN q /\ q[At(i)] = items[i] BY <1>1, <1>2, <1>3, <1>5
  <2>2. \A i \in DOMAIN q : (\E j \in 1..n : i = At(j)) \/ (baseline /\ i = 1)
    <3> SUFFICES ASSUME NEW i \in DOMAIN q PROVE (\E j \in 1..n : i = At(j)) \/ (baseline /\ i = 1) OBVIOUS
    <3>1. i \in 1..Len(p) BY <1>5
    <3>2. CASE baseline /\ i # 1
      <4>1. i - 1 \in 1..n /\ i = At(i - 1) BY <1>1, <1>3, <3>1, <3>2
      <4> QED BY <4>1
    <3>3. CASE ~baseline
      <4>1. i \in 1..n /\ i = At(i) BY <1>1, <1>3, <3>1, <3>3
      <4> QED BY <4>1
    <3> QED BY <3>2, <3>3
  <2> HIDE DEF At
  <2> QED BY <1>2, <1>5, <2>1, <2>2
<1>8. \A t : t \in CommonTimes(p) <=> \A i \in DOMAIN p : t \in Times(p[i]) BY <1>5, CommonIs
<1>9. \A t : t \in CommonTimes(q) <=> \A i \in DOMAIN q : t \in Times(q[i]) BY <1>5, CommonIs
<1>10. \A t : t \in CommonTimes(p) <=> t \in CommonTimes(q) BY <1>6, <1>7, <1>8, <1>9
<1>11. CommonTimes(p) = CommonTimes(q) BY <1>10
<1> QED BY <1>11 DEF p, q

LEMMA CommonStart ==
  ASSUME NEW all, 1 \in DOMAIN all, Curve(all[1]), CommonTimes(all) # {}
  PROVE  /\ Min(CommonTimes(all)) \in Nat
         /\ \A i \in DOMAIN all : Min(CommonTimes(all)) \in Times(all[i])
<1> DEFINE S == CommonTimes(all)
<1>1. \A t : t \in S <=> \A i \in DOMAIN all : t \in Times(all[i]) BY CommonIs
<1>2. ASSUME NEW t \in S PROVE t \in Nat
  <2>1. t \in Times(all[1]) BY <1>1
  <2>2. DOMAIN all[1] = 1..Len(all[1]) BY DEF Curve
  <2>3. PICK i \in 1..Len(all[1]) : all[1][i].ts = t BY <2>1, <2>2 DEF Times
  <2> QED BY <2>3, CurveIs
<1> HIDE DEF S
<1>3. S \in SUBSET Nat /\ S # {} BY <1>2 DEF S
<1>4. Min(S) \in S BY <1>3, MinIs
<1> QED BY <1>1, <1>3, <1>4 DEF S

\* A curve, and the time where a collection of them is drawn from.
AnyCurve == {s \in Seq(Samples) : Rises(s)}
StartOf(all, align) == IF align /\ CommonTimes(all) # {} THEN Min(CommonTimes(all)) ELSE Nothing

LEMMA DrawingIs ==
  ASSUME NEW answer, NEW baseline \in BOOLEAN, NEW align \in BOOLEAN, NEW rebase \in BOOLEAN,
         OnPage(answer.items, answer.baseline, baseline) # <<>>
  PROVE  LET all == OnPage(answer.items, answer.baseline, baseline)
         IN Drawing(answer, baseline, align, rebase) =
              [i \in DOMAIN all |-> IF rebase THEN RebaseCurve(CutAt(all[i], StartOf(all, align)))
                                    ELSE CutAt(all[i], StartOf(all, align))]
<1> DEFINE all == OnPage(answer.items, answer.baseline, baseline)
<1>1. Drawing(answer, baseline, align, rebase) = AlignAndRebase(all, align, rebase)
  BY DEF Drawing, OnPage
<1> HIDE DEF all
<1>2. AlignAndRebase(all, align, rebase) =
        [i \in DOMAIN all |-> IF rebase THEN RebaseCurve(CutAt(all[i], StartOf(all, align)))
                              ELSE CutAt(all[i], StartOf(all, align))]
  BY DEF AlignAndRebase, StartOf
<1> QED BY <1>1, <1>2 DEF all

\* One curve as it is drawn, and as it would be drawn without rebasing.
DrawnFrom(d, p, s, start, rebase) ==
  /\ Summary(d) = Summary(p) /\ CalcReturn(d) = CalcReturn(p) /\ CalcMaxDD(d) = CalcMaxDD(p)
  /\ d = <<>> <=> p = <<>>
  /\ start # Nothing => d[1].ts = start
  /\ rebase /\ d # <<>> => d[1].equity = RebaseTo
  /\ start = Nothing => p = s

LEMMA DrawnIs ==
  ASSUME NEW s, Curve(s), NEW start, start = Nothing \/ start \in Times(s), NEW rebase \in BOOLEAN
  PROVE  DrawnFrom(IF rebase THEN RebaseCurve(CutAt(s, start)) ELSE CutAt(s, start),
                   CutAt(s, start), s, start, rebase)
<1> DEFINE c == CutAt(s, start)
<1>1. Curve(c) /\ (start # Nothing => c # <<>> /\ c[1].ts = start) BY CutIs
<1>2. start = Nothing => c = s BY DEF CutAt
<1> HIDE DEF c
<1>3. CASE ~rebase BY <1>1, <1>2, <1>3 DEF DrawnFrom, c
<1>4. CASE rebase
  <2> DEFINE r == RebaseCurve(c)
  <2>1. /\ Len(r) = Len(c) /\ Summary(r) = Summary(c) /\ CalcReturn(r) = CalcReturn(c)
        /\ CalcMaxDD(r) = CalcMaxDD(c)
        /\ c # <<>> => r # <<>> /\ r[1].ts = c[1].ts /\ r[1].equity = RebaseTo
    BY <1>1, RebaseKeeps
  <2>2. c = <<>> => r = <<>>
    <3>1. c = <<>> => DOMAIN c = {} OBVIOUS
    <3>2. r = [i \in DOMAIN c |-> r[i]] BY DEF RebaseCurve
    <3> HIDE DEF r
    <3> QED BY <3>1, <3>2
  <2> HIDE DEF r
  <2>3. DrawnFrom(r, c, s, start, rebase) BY <1>1, <1>2, <2>1, <2>2 DEF DrawnFrom
  <2> QED BY <1>4, <2>3 DEF r, c
<1> QED BY <1>3, <1>4

LEMMA StartIs ==
  ASSUME NEW all \in Seq(AnyCurve), all # <<>>, NEW align \in BOOLEAN, NEW i \in DOMAIN all
  PROVE  /\ Curve(all[i])
         /\ StartOf(all, align) = Nothing \/ StartOf(all, align) \in Times(all[i])
<1>1. DOMAIN all = 1..Len(all) /\ Len(all) \in Nat /\ 1 \in DOMAIN all OBVIOUS
<1>2. \A k \in DOMAIN all : Curve(all[k])
  <2> SUFFICES ASSUME NEW k \in DOMAIN all PROVE Curve(all[k]) OBVIOUS
  <2>1. all[k] \in AnyCurve BY <1>1
  <2> QED BY <2>1 DEF AnyCurve, Curve
<1>3. ASSUME CommonTimes(all) # {} PROVE Min(CommonTimes(all)) \in Times(all[i])
  BY <1>1, <1>2, <1>3, CommonStart
<1> QED BY <1>2, <1>3 DEF StartOf

\* The answer of the server, part by part.
LEMMA AnswerIs ==
  ASSUME CurveInv, NEW ids \in Selections, NEW baseline \in BOOLEAN, NEW align \in BOOLEAN
  PROVE  \E items \in Seq(AnyCurve), base \in AnyCurve :
           /\ GetAnalytics(ids, baseline, align) = Answered(items, base, baseline, align)
           /\ ~baseline => base = <<>>
<1> DEFINE shown == LoadOverlaySeries(ids, 5)
<1> DEFINE items == Curves(shown)
<1> DEFINE base == BaseOf(shown, baseline)
<1>1. GetAnalytics(ids, baseline, align) = Answered(items, base, baseline, align) BY DEF GetAnalytics
<1>2. shown \in Seq(JobIds) BY ShownIs
<1> HIDE DEF shown
<1>3. items \in Seq(AnyCurve)
  <2>1. DOMAIN shown = 1..Len(shown) /\ Len(shown) \in Nat BY <1>2
  <2>2. items = [i \in 1..Len(shown) |-> Equity(shown[i])] BY <2>1 DEF Curves
  <2>3. \A i \in 1..Len(shown) : Equity(shown[i]) \in AnyCurve
    <3> SUFFICES ASSUME NEW i \in 1..Len(shown) PROVE Equity(shown[i]) \in AnyCurve OBVIOUS
    <3>1. shown[i] \in JobIds BY <1>2
    <3>2. Curve(Equity(shown[i])) BY <3>1, EquityIsCurve
    <3> QED BY <3>2 DEF AnyCurve, Curve
  <2> HIDE DEF items
  <2> QED BY <2>1, <2>2, <2>3
<1>4. base \in AnyCurve /\ (~baseline => base = <<>>)
  <2>1. CASE baseline
    <3>1. base = Baseline(shown, FALSE) BY <2>1 DEF BaseOf
    <3> HIDE DEF base
    <3>2. Curve(base) BY <3>1, BaselineIs
    <3> QED BY <2>1, <3>2 DEF AnyCurve, Curve
  <2>2. CASE ~baseline
    <3>1. base = <<>> BY <2>2 DEF BaseOf
    <3>2. <<>> \in AnyCurve BY DEF AnyCurve, Rises
    <3> HIDE DEF base
    <3> QED BY <3>1, <3>2
  <2> QED BY <2>1, <2>2
<1> HIDE DEF items, base
<1> QED BY <1>1, <1>3, <1>4

LEMMA AnsweredHolds ==
  ASSUME NEW items \in Seq(AnyCurve), NEW base \in AnyCurve, NEW baseline \in BOOLEAN,
         NEW align \in BOOLEAN, NEW rebase \in BOOLEAN, ~baseline => base = <<>>,
         NEW answer, answer = Answered(items, base, baseline, align)
  PROVE  DrawnAsAnswered(answer, Drawing(answer, baseline, align, rebase),
                         Drawing(answer, baseline, align, FALSE), baseline, align, rebase)
<1> DEFINE all == OnPage(items, base, baseline)
<1> DEFINE n == Len(items)
<1> DEFINE d == Drawing(answer, baseline, align, rebase)
<1> DEFINE p == Drawing(answer, baseline, align, FALSE)
<1> DEFINE start == StartOf(all, align)
<1>1. /\ answer.items = items /\ answer.baseline = base
      /\ answer.stats = [i \in DOMAIN items |-> Summary(items[i])]
      /\ answer.delta = [i \in DOMAIN items |-> WithBaselineDelta(Summary(items[i]), base)]
      /\ answer.hint = IF align THEN AlignHint(AtServer(items, base, baseline)) ELSE Nothing
  BY DEF Answered, AtServer
<1>2. /\ all \in Seq(AnyCurve) /\ Len(all) = (IF baseline THEN n + 1 ELSE n)
      /\ \A i \in 1..n : all[i] = items[i]
      /\ baseline => all[n + 1] = base
  <2> DEFINE T == AnyCurve
  <2>1. items \in Seq(T) /\ base \in T OBVIOUS
  <2> HIDE DEF T, n, all
  <2>2. /\ all \in Seq(T) /\ Len(all) = (IF baseline THEN n + 1 ELSE n)
        /\ \A i \in 1..n : all[i] = items[i]
        /\ baseline => all[n + 1] = base
    BY <2>1, ShownAre DEF all, n
  <2> QED BY <2>2 DEF T
<1>3. n \in Nat /\ DOMAIN items = 1..n /\ DOMAIN all = 1..Len(all) BY <1>2
<1>4. CASE all = <<>>
  <2>1. n = 0 /\ DOMAIN items = {} BY <1>2, <1>3, <1>4
  <2>2. d = <<>>
    <3>1. d = IF all = <<>> THEN <<>> ELSE AlignAndRebase(all, align, rebase)
      BY <1>1 DEF Drawing, OnPage
    <3> HIDE DEF d, all
    <3> QED BY <1>4, <3>1
  <2> HIDE DEF d, p
  <2>3. DOMAIN d = {} BY <2>2
  <2> QED BY <1>1, <2>1, <2>3 DEF DrawnAsAnswered, d, p
<1>5. CASE all # <<>>
  <2>1. d = [i \in DOMAIN all |-> IF rebase THEN RebaseCurve(CutAt(all[i], start)) ELSE CutAt(all[i], start)]
    BY <1>1, <1>5, DrawingIs
  <2>2. p = [i \in DOMAIN all |-> CutAt(all[i], start)]
    <3>1. ASSUME NEW q \in BOOLEAN
          PROVE  Drawing(answer, baseline, align, q) =
                   [i \in DOMAIN all |-> IF q THEN RebaseCurve(CutAt(all[i], start))
                                         ELSE CutAt(all[i], start)]
      BY <1>1, <1>5, DrawingIs
    <3> HIDE DEF all, start
    <3> QED BY <3>1
  <2>3. ASSUME answer.hint # Nothing PROVE start = answer.hint /\ start # Nothing
    <3>1. CommonTimes(AtServer(items, base, baseline)) = CommonTimes(all) BY <1>5, SameTimes
    <3>2. align /\ answer.hint = AlignHint(AtServer(items, base, baseline)) BY <1>1, <2>3
    <3>3. CommonTimes(all) # {} /\ AlignHint(AtServer(items, base, baseline)) = Min(CommonTimes(all))
      BY <2>3, <3>1, <3>2 DEF AlignHint
    <3> HIDE DEF all
    <3> QED BY <2>3, <3>2, <3>3 DEF StartOf
  <2>4. ~align => start = Nothing BY DEF StartOf
  <2>5. \A i \in DOMAIN all : Curve(all[i]) /\ (start = Nothing \/ start \in Times(all[i]))
    <3> HIDE DEF all
    <3> QED BY <1>2, <1>5, StartIs
  <2> HIDE DEF all, d, p, start
  <2>6. DOMAIN d = DOMAIN all BY <2>1
  <2>7. ASSUME NEW i \in DOMAIN all PROVE DrawnFrom(d[i], p[i], all[i], start, rebase)
    <3>1. d[i] = (IF rebase THEN RebaseCurve(CutAt(all[i], start)) ELSE CutAt(all[i], start))
          /\ p[i] = CutAt(all[i], start)
      BY <2>1, <2>2
    <3> DEFINE s == all[i]
    <3>2. Curve(s) /\ (start = Nothing \/ start \in Times(s)) BY <2>5
    <3> HIDE DEF s
    <3>3. DrawnFrom(IF rebase THEN RebaseCurve(CutAt(s, start)) ELSE CutAt(s, start),
                    CutAt(s, start), s, start, rebase)
      BY <3>2, DrawnIs
    <3> QED BY <3>1, <3>3 DEF s
  <2>8. answer.hint # Nothing => \A i \in DOMAIN d : d[i][1].ts = answer.hint
    BY <2>3, <2>6, <2>7 DEF DrawnFrom
  <2>9. \A i \in DOMAIN d : /\ Summary(d[i]) = Summary(p[i])
                            /\ rebase /\ d[i] # <<>> => d[i][1].equity = RebaseTo
    BY <2>6, <2>7 DEF DrawnFrom
  <2> DEFINE b == IF baseline THEN d[Len(d)] ELSE <<>>
  <2>10. ASSUME ~align, NEW i \in DOMAIN items
         PROVE  ReportRow(d[i], b) = [stats |-> answer.stats[i], delta |-> answer.delta[i]]
    <3>1. start = Nothing BY <2>4, <2>10
    <3>2. i \in DOMAIN all /\ all[i] = items[i] BY <1>2, <1>3, <2>10
    <3>3. Summary(d[i]) = Summary(items[i]) BY <2>7, <3>1, <3>2 DEF DrawnFrom
    <3>4. (b = <<>> <=> base = <<>>) /\ (b # <<>> => CalcReturn(b) = CalcReturn(base) /\ CalcMaxDD(b) = CalcMaxDD(base))
      <4>1. CASE baseline
        <5>1. n + 1 \in DOMAIN all /\ all[n + 1] = base /\ DOMAIN d = 1..(n + 1) BY <1>2, <1>3, <2>6, <4>1
        <5>2. Len(d) = n + 1
          <6>1. d \in Seq({d[k] : k \in DOMAIN d})
            <7>1. d = [k \in 1..(n + 1) |-> d[k]] BY <2>1, <2>6, <5>1
            <7>2. n + 1 \in Nat BY <1>3
            <7> HIDE DEF n
            <7> QED BY <5>1, <7>1, <7>2
          <6>2. DOMAIN d = 1..Len(d) /\ Len(d) \in Nat BY <6>1
          <6> QED BY <1>3, <5>1, <6>2
        <5>3. b = d[n + 1] BY <4>1, <5>2
        <5>4. DrawnFrom(d[n + 1], p[n + 1], base, start, rebase) BY <2>7, <5>1
        <5> HIDE DEF b
        <5> QED BY <3>1, <5>3, <5>4 DEF DrawnFrom
      <4>2. CASE ~baseline
        <5>1. b = <<>> /\ base = <<>> BY <4>2
        <5> QED BY <5>1
      <4> QED BY <4>1, <4>2
    <3>5. answer.stats[i] = Summary(items[i])
          /\ answer.delta[i] = WithBaselineDelta(Summary(items[i]), base)
      BY <1>1, <2>10
    <3> HIDE DEF b
    <3> DEFINE x == Summary(items[i])
    <3> HIDE DEF x
    <3>6. WithBaselineDelta(x, b) = WithBaselineDelta(x, base) BY <3>4 DEF WithBaselineDelta
    <3> QED BY <3>3, <3>5, <3>6 DEF ReportRow, x
  <2> QED BY <1>1, <2>8, <2>9, <2>10 DEF DrawnAsAnswered, d, p
<1> QED BY <1>4, <1>5 DEF d, p

(* What the page draws is what the server answered, whatever rows and       *)
(* snapshots there are: aligned curves start together at the server's hint, *)
(* rebased ones at one value with their figures unchanged, and the report's *)
(* table holds the server's statistics (overlays of src/src and             *)
(* overview.js of src/client).                                              *)
THEOREM CurvesLineUp == CurveSpec => []CurvesAlign
<1>1. CurveInv => CurvesAlign
  <2> SUFFICES ASSUME CurveInv, NEW ids \in Selections, NEW baseline \in BOOLEAN,
                      NEW align \in BOOLEAN, NEW rebase \in BOOLEAN,
                      NEW answer, answer = GetAnalytics(ids, baseline, align)
               PROVE  DrawnAsAnswered(answer, Drawing(answer, baseline, align, rebase),
                        Drawing(answer, baseline, align, FALSE), baseline, align, rebase)
    BY DEF CurvesAlign
  <2>1. PICK items \in Seq(AnyCurve), base \in AnyCurve :
          /\ answer = Answered(items, base, baseline, align)
          /\ ~baseline => base = <<>>
    BY AnswerIs
  <2> QED BY <2>1, AnsweredHolds
<1> QED BY <1>1, CurveInvHolds, PTL
=============================================================================

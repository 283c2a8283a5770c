------------------------------ MODULE Analytics ------------------------------
(***************************************************************************)
(* The curves the analytics pages show: the equity files of jobs, the       *)
(* snapshots of the live account and the closed paper trades, and all that  *)
(* is computed of them by GET /analytics and its neighbours (server.js), the *)
(* report and CSV routes, the services they call, and the page and the HTML *)
(* report, which align and rebase for themselves.  The files only grow; a   *)
(* quotient is in parts of a thousand, rounded down, like its reference.    *)
(***************************************************************************)
EXTENDS Integers, Sequences, SequencesExt, FiniteSetsExt, DataFolds

CONSTANTS
  JobIds,           \* jobs with an equity file
  Equities,         \* values of a curve, all positive
  Profits,          \* pnl of a closed trade
  MaxTs,            \* bound: the last time
  SnapTimes,        \* bound: times of snapshots and trades
  FileRows,         \* bound: FileRows[j], rows in the file of j
  MaxPoints,        \* bound: rows, snapshots and trades in all
  DefaultLimit,     \* 10: snapshots read when no limit is asked for
  MinTarget,        \* 100: the least number of points lttb is asked for
  HistoryLimit,     \* 500: trades the history lists
  AnalyticsLimit,   \* 50000: trades the dashboard and trades.csv list
  RebaseTo,         \* 100, in units in which each rebased value is whole
  Capital           \* 10000: what computeStatsFromTrades starts with

VARIABLES
  files,            \* files[j]: rows of the equity file of j: [ts, equity]
  live,             \* equity_snapshots: ts -> equity
  book              \* the closed paper trades by closed_at, null last: [at, pnl]

curveVars == <<files, live, book>>

ASSUME AnalyticsAssumption ==
  /\ JobIds \subseteq Nat \ {0} /\ Equities \subseteq Nat \ {0} /\ Profits \subseteq Int
  /\ DefaultLimit \in 1..MinTarget /\ MaxTs \in Nat /\ MaxPoints \in Nat
  /\ SnapTimes \subseteq 1..MaxTs /\ Capital \in Nat \ {0}
  /\ HistoryLimit \in Nat \ {0} /\ AnalyticsLimit \in Nat \ {0}
  /\ RebaseTo \in Nat \ {0} /\ \A e \in Equities : RebaseTo % e = 0

Junk == -1          \* a cell that is no finite number
Nothing == -2       \* null

InitCurves == files = [j \in JobIds |-> <<>>] /\ live = <<>> /\ book = <<>>

\* A snapshot counts twice.
Points ==
  FoldSet(LAMBDA j, n : Len(files[j]) + n, 2 * Cardinality(DOMAIN live) + Len(book), JobIds)

LastTs(s) == IF s = <<>> THEN 0 ELSE s[Len(s)].ts

AddRow(j) ==
  /\ Points < MaxPoints /\ Len(files[j]) < FileRows[j]
  /\ \E skip \in {1, 2}, e \in Equities \cup {Junk} :
       /\ LastTs(files[j]) + skip <= MaxTs
       /\ files' = [files EXCEPT ![j] = Append(@, [ts |-> LastTs(@) + skip, equity |-> e])]
  /\ UNCHANGED <<live, book>>

\* ON CONFLICT (ts) DO UPDATE.
WriteSnapshot(t) ==
  /\ Points < MaxPoints
  /\ \E e \in Equities : live' = [u \in DOMAIN live \cup {t} |-> IF u = t THEN e ELSE live[u]]
  /\ UNCHANGED <<files, book>>

\* liveRunner.js writes closed_at, the paper trader of live.js does not.
CloseTrade(t) ==
  /\ Points < MaxPoints
  /\ \A i \in DOMAIN book : t # Nothing => book[i].at <= t
  /\ \E p \in Profits :
       LET dated == {b \in Range(book) : b.at # Nothing}
           closed == <<[at |-> t, pnl |-> p]>>
       IN book' = IF t = Nothing THEN book \o closed
                  ELSE Only(book, dated) \o closed \o Only(book, Range(book) \ dated)
  /\ UNCHANGED <<files, live>>

NextCurves ==
  \/ \E j \in JobIds : AddRow(j)
  \/ \E t \in SnapTimes : WriteSnapshot(t) \/ CloseTrade(t)
  \/ CloseTrade(Nothing)

CurveSpec == InitCurves /\ [][NextCurves]_curveVars

-----------------------------------------------------------------------------
(* What the services read and compute.                                     *)

NormalizeEquity(rs) == Only(rs, {r \in Range(rs) : r.equity # Junk})
Equity(j) == NormalizeEquity(files[j])

\* The ids asked for, as far as they have a curve: at most 5 on the page, 12 in reports.
LoadOverlaySeries(ids, most) ==
  Only(SubSeq(ids, 1, Min({most, Len(ids)})), {j \in JobIds : Equity(j) # <<>>})

Times(s) == {s[i].ts : i \in DOMAIN s}

\* n points of s by largest triangle: every bucket lies one too far, the last one is the
\* last point alone.  A bucket's average is its sum over its size.
FirstIn(n, threshold, i) == (((i + 1) * (n - 2)) \div (threshold - 2)) + 1
LastIn(n, threshold, i) == Min({FirstIn(n, threshold, i + 1), n}) - 1

Area(s, A, P, lo, hi) ==
  LET r == hi - lo + 1
      x == SumOver([k \in lo..hi |-> s[k + 1].ts], lo, hi)
      y == SumOver([k \in lo..hi |-> s[k + 1].equity], lo, hi)
      v == (r * A.ts - x) * (P.equity - A.equity) - (A.ts - P.ts) * (y - r * A.equity)
  IN IF v < 0 THEN -v ELSE v

PickPoint(s, a, lo, hi) ==
  CHOOSE j \in lo..hi : \A k \in lo..hi :
    /\ Area(s, s[a + 1], s[k + 1], lo, hi) <= Area(s, s[a + 1], s[j + 1], lo, hi)
    /\ Area(s, s[a + 1], s[k + 1], lo, hi) = Area(s, s[a + 1], s[j + 1], lo, hi) => j <= k

Lttb(s, threshold) ==
  LET n == Len(s)
      chosen[i \in 0..(threshold - 2)] ==
        IF i = 0 THEN <<0>>
        ELSE LET before == chosen[i - 1]
             IN Append(before, PickPoint(s, before[i], FirstIn(n, threshold, i - 1),
                                         LastIn(n, threshold, i - 1)))
      at == Append(chosen[threshold - 2], n - 1)
  IN IF threshold >= n \/ threshold <= 0 THEN s
     ELSE IF threshold < 3 THEN <<s[1], s[n]>>
     ELSE [k \in DOMAIN at |-> s[at[k] + 1]]

\* The squared distance of P to the segment A B, times the squared length of the segment.
SegmentDistance(A, B, P) ==
  LET dx == B.ts - A.ts dy == B.equity - A.equity
      px == P.ts - A.ts py == P.equity - A.equity
      length == dx * dx + dy * dy
      along == px * dx + py * dy
      cross == px * dy - py * dx
  IN IF along <= 0 THEN (px * px + py * py) * length
     ELSE IF along >= length
          THEN ((px - dx) * (px - dx) + (py - dy) * (py - dy)) * length
          ELSE cross * cross

SegmentLength(A, B) ==
  (B.ts - A.ts) * (B.ts - A.ts) + (B.equity - A.equity) * (B.equity - A.equity)

Ending_Lost(s, b) == <<>>
Ending(s, b) == IF b = Len(s) THEN <<s[b]>> ELSE <<>>

\* The first of the points between a and b that are farthest from the line between them.
Farthest(s, a, b) ==
  CHOOSE i \in (a + 1)..(b - 1) : \A k \in (a + 1)..(b - 1) :
    /\ SegmentDistance(s[a], s[b], s[k]) <= SegmentDistance(s[a], s[b], s[i])
    /\ SegmentDistance(s[a], s[b], s[k]) = SegmentDistance(s[a], s[b], s[i]) => i <= k

Splits(s, a, b, eps) ==
  /\ a + 1 < b
  /\ SegmentDistance(s[a], s[b], s[Farthest(s, a, b)]) > eps * eps * SegmentLength(s[a], s[b])

\* Douglas-Peucker: split at the farthest point, while it is farther than eps.
Simplify(s, eps) ==
  LET n == Len(s)
      rec[p \in (1..n) \X (1..n)] ==
        LET far == Farthest(s, p[1], p[2])
        IN IF Splits(s, p[1], p[2], eps) THEN rec[<<p[1], far>>] \o rec[<<far, p[2]>>]
           ELSE <<s[p[1]]>> \o Ending(s, p[2])
  IN IF n <= 2 THEN s ELSE rec[<<1, n>>]

\* The oldest snapshots of the window; lttb is asked for more points than the limit leaves.
ReadSeries(from, to, ds) ==
  LET read[t \in 0..MaxTs] ==
        IF t = 0 THEN <<>>
        ELSE LET before == read[t - 1]
             IN IF t \in DOMAIN live \cap from..to /\ Len(before) < DefaultLimit
                THEN Append(before, [ts |-> t, equity |-> live[t]]) ELSE before
      items == read[MaxTs]
  IN IF ds THEN Lttb(items, MinTarget) ELSE items

\* The live curve over the time the overlays span; without any, the last 30 days.
Baseline(ids, ds) ==
  LET all == UNION {Times(Equity(ids[i])) : i \in DOMAIN ids}
  IN IF all = {} THEN ReadSeries(0, MaxTs, ds) ELSE ReadSeries(Min(all), Max(all), ds)

CalcReturn(s) == IF s = <<>> THEN Nothing ELSE (1000 * s[Len(s)].equity) \div s[1].equity

\* Mutant: the peak stays where the curve begins.
HighestYet_First(before, e) == IF before = 0 THEN e ELSE before

HighestYet(before, e) == Max({before, e})

\* What is left of the highest point yet, at its least.
Falling(m, e) ==
  LET peak == HighestYet(m.peak, e)
  IN [peak |-> peak, left |-> Min({m.left, (1000 * e) \div peak})]

\* How deep below its highest point so far the curve falls, as what is left of it.
CalcMaxDD(s) ==
  LET m[i \in 0..Len(s)] ==
        IF i = 0 THEN [peak |-> 0, left |-> 1000] ELSE Falling(m[i - 1], s[i].equity)
  IN m[Len(s)].left

Summary(s) == [n |-> Len(s), ret |-> CalcReturn(s), dd |-> CalcMaxDD(s)]

WithBaselineDelta(x, b) ==
  IF b = <<>> \/ x.ret = Nothing THEN [ret |-> Nothing, dd |-> Nothing]
  ELSE [ret |-> x.ret - CalcReturn(b), dd |-> x.dd - CalcMaxDD(b)]

\* ts and a cell per series: the last point of that time, or nothing.
OverlaysCsv(ids) ==
  LET all == UNION {Times(Equity(ids[i])) : i \in DOMAIN ids}
      cell(j, t) ==
        IF t \notin Times(Equity(j)) THEN Nothing
        ELSE Last(Only(Equity(j), {p \in Range(Equity(j)) : p.ts = t})).equity
  IN [t \in all |-> [i \in DOMAIN ids |-> cell(ids[i], t)]]

-----------------------------------------------------------------------------
(* GET /analytics, the history, the trades and the portfolio: closed trades. *)

\* A bound that is not given is null; one that is leaves out the trades without closed_at.
Bounded(t, from, to) ==
  from # Nothing \/ to # Nothing => t.at # Nothing /\ (from # Nothing => from <= t.at)

FirstRows(s, limit) == SubSeq(s, 1, Min({limit, Len(s)}))

\* The window ends before `to` here and in trades.csv, and the oldest come first ...
AnalyticsTrades(from, to) ==
  FirstRows(Only(book, {t \in Range(book) : Bounded(t, from, to) /\ (to # Nothing => t.at < to)}),
            AnalyticsLimit)
\* ... and with `to` in the history, where the newest do.
LiveHistory(from, to) ==
  FirstRows(Reverse(Only(book, {t \in Range(book) :
                                  Bounded(t, from, to) /\ (to # Nothing => t.at <= to)})),
            HistoryLimit)

\* The portfolio: what trades closed in a range made, and the legs it takes for open.
Attribution(from, to) ==
  SumOver([i \in DOMAIN book |->
             IF book[i].at # Nothing /\ book[i].at \in from..to THEN book[i].pnl ELSE 0],
          1, Len(book))

\* A trade without closed_at is in the figures, and no point of the curve.
Traded(m, t) ==
  LET eq == m.eq + t.pnl
      fall == Falling([peak |-> m.peak, left |-> m.left], eq)
  IN [equity |-> IF t.at = Nothing THEN m.equity ELSE Append(m.equity, [ts |-> t.at, equity |-> eq]),
      eq |-> eq, peak |-> fall.peak, left |-> fall.left]

ComputeStatsFromTrades(trades) ==
  LET m[i \in 0..Len(trades)] ==
        IF i = 0 THEN [equity |-> <<>>, eq |-> Capital, peak |-> Capital, left |-> 1000]
        ELSE Traded(m[i - 1], trades[i])
  IN m[Len(trades)]

CommonTimes(all) == {t \in Times(all[1]) : \A i \in DOMAIN all : t \in Times(all[i])}

\* The first time all series have; nobody is asked for it when there is one series only.
AlignHint(all) ==
  LET First(common) == IF common = {} THEN Nothing ELSE Min(common)
  IN IF Len(all) < 2 THEN Nothing ELSE First(CommonTimes(all))

Answered(curves, base, baseline, align) ==
  [items |-> curves, baseline |-> base,
   stats |-> [i \in DOMAIN curves |-> Summary(curves[i])],
   delta |-> [i \in DOMAIN curves |-> WithBaselineDelta(Summary(curves[i]), base)],
   hint |-> IF align THEN AlignHint((IF baseline THEN <<base>> ELSE <<>>) \o curves) ELSE Nothing]

Curves(shown) == [i \in DOMAIN shown |-> Equity(shown[i])]
BaseOf(shown, baseline) == IF baseline THEN Baseline(shown, FALSE) ELSE <<>>

GetAnalytics(ids, baseline, align) ==
  LET Of(shown) == Answered(Curves(shown), BaseOf(shown, baseline), baseline, align)
  IN Of(LoadOverlaySeries(ids, 5))

\* The ZIP report: no alignment; the one that is posted with a picture knows no baseline.
Reported(curves, base, csv) ==
  [stats |-> [i \in DOMAIN curves |-> Summary(curves[i])],
   delta |-> [i \in DOMAIN curves |-> WithBaselineDelta(Summary(curves[i]), base)],
   csv |-> csv]

GetReport(ids, baseline) ==
  LET Of(shown) == Reported(Curves(shown), BaseOf(shown, baseline), OverlaysCsv(shown))
  IN Of(LoadOverlaySeries(ids, 12))

-----------------------------------------------------------------------------
(* The page (overview.js) and the HTML report (reportHtml.js).               *)

\* Mutant: a curve is rebased to its end.
RebaseCurve_AtEnd(s) ==
  [i \in DOMAIN s |-> [s[i] EXCEPT !.equity = (RebaseTo * @) \div s[Len(s)].equity]]

RebaseCurve(s) ==
  [i \in DOMAIN s |-> [s[i] EXCEPT !.equity = (RebaseTo * @) \div s[1].equity]]

\* Overlays first, the baseline last.
CutAt(s, start) == IF start = Nothing THEN s ELSE Only(s, {p \in Range(s) : p.ts >= start})

AlignAndRebase(all, align, rebase) ==
  LET From(common) == IF align /\ common # {} THEN Min(common) ELSE Nothing
      Drawn(start) == [i \in DOMAIN all |-> IF rebase THEN RebaseCurve(CutAt(all[i], start))
                                           ELSE CutAt(all[i], start)]
  IN Drawn(From(CommonTimes(all)))

\* The table of the report; the page puts the same deltas in a curve's label.
ReportRow(s, base) == [stats |-> Summary(s), delta |-> WithBaselineDelta(Summary(s), base)]

(***************************************************************************)
(* Properties.                                                             *)
(***************************************************************************)

\* The jobs both page and report show: the page no more than 5.
Selections ==
  {f \in UNION {[1..n -> JobIds] : n \in 1..5} : IsInjective(f)}

\* Before there is a first row, snapshot or trade there is nothing to compare.
Something == Points > 0

Drawing(answer, baseline, align, rebase) ==
  LET all == answer.items \o (IF baseline THEN <<answer.baseline>> ELSE <<>>)
  IN IF all = <<>> THEN <<>> ELSE AlignAndRebase(all, align, rebase)

DrawnAsAnswered(answer, drawn, plain, baseline, align, rebase) ==
  /\ answer.hint # Nothing => \A i \in DOMAIN drawn : drawn[i][1].ts = answer.hint
  /\ \A i \in DOMAIN drawn :
       /\ Summary(drawn[i]) = Summary(plain[i])
       /\ rebase /\ drawn[i] # <<>> => drawn[i][1].equity = RebaseTo
  /\ ~align => \A i \in DOMAIN answer.items :
       ReportRow(drawn[i], IF baseline THEN drawn[Len(drawn)] ELSE <<>>) =
         [stats |-> answer.stats[i], delta |-> answer.delta[i]]

(* What the page draws of an answer is what the server said of it: aligned   *)
(* curves, the baseline too, start together, at the server's hint, and       *)
(* rebased ones at the same value; rebasing changes no return and no fall;   *)
(* and where nothing is aligned the report's table shows the server's        *)
(* statistics.                                                             *)
CurvesAlign ==
  Something => \A ids \in Selections, baseline, align, rebase \in BOOLEAN :
    LET Holds(answer) ==
          DrawnAsAnswered(answer, Drawing(answer, baseline, align, rebase),
                          Drawing(answer, baseline, align, FALSE), baseline, align, rebase)
    IN Holds(GetAnalytics(ids, baseline, align))

Subsequence(a, b) ==
  \A i \in DOMAIN a : a[i] \in Range(b) /\ (i > 1 => a[i - 1].ts <= a[i].ts)

(* A curve is made shorter without a lie: lttb keeps both ends and gives the *)
(* number of points asked for, of which only the last may come twice; no     *)
(* point simplify drops is farther than eps from the line drawn instead.     *)
ReductionsKeepShape ==
  \A j \in JobIds :
    LET s == Equity(j) n == Len(s) IN
    s # <<>> =>
      /\ \A k \in 2..(n - 1) :
           LET r == Lttb(s, k) IN
           /\ Len(r) = k /\ r[1] = s[1] /\ r[k] = s[n] /\ Subsequence(r, s)
           /\ \A i \in 2..k : r[i - 1] # r[i] \/ i = k
      /\ \A eps \in 0..2 :
           LET r == Simplify(s, eps) IN
           /\ r[1] = s[1] /\ r[Len(r)] = s[n] /\ Subsequence(r, s)
           /\ \A i \in 2..Len(r), p \in Range(s) :
                r[i - 1].ts < p.ts /\ p.ts < r[i].ts =>
                  SegmentDistance(r[i - 1], r[i], p)
                    <= eps * eps * SegmentLength(r[i - 1], r[i])

Falls(s) ==
  UNION {{(1000 * s[j].equity) \div s[i].equity : j \in i..Len(s)} : i \in DOMAIN s}

TradesFall(trades) ==
  LET m == ComputeStatsFromTrades(trades)
      full == <<[ts |-> 0, equity |-> Capital]>> \o m.equity
      dated == \A i \in DOMAIN trades : trades[i].at # Nothing
  IN (\A p \in Range(full) : p.equity > 0) =>
       /\ m.left <= Min(Falls(full)) /\ m.left <= Min(Falls(m.equity) \cup {1000})
       /\ dated => m.left = Min(Falls(full))

ReportIsPage(report, page) ==
  /\ report.stats = page.stats /\ report.delta = page.delta
  /\ Len(page.baseline) <= DefaultLimit
  /\ \A i \in DOMAIN page.items, t \in DOMAIN report.csv :
       IF t \in Times(page.items[i])
       THEN [ts |-> t, equity |-> report.csv[t][i]] \in Range(page.items[i])
       ELSE report.csv[t][i] = Nothing

PnlOf(trades) == SumOver([i \in DOMAIN trades |-> trades[i].pnl], 1, Len(trades))

\* The two lists of closed trades and the portfolio's sum of one window.
ListsAgree(from, to) ==
  LET oldest == AnalyticsTrades(from, to)
      recent == LiveHistory(from, to)
      both == Only(Reverse(recent), {t \in Range(book) : to = Nothing \/ t.at # to})
  IN /\ Len(oldest) < AnalyticsLimit =>
          both = SubSeq(oldest, Len(oldest) - Len(both) + 1, Len(oldest))
     /\ Len(recent) < HistoryLimit =>
          /\ oldest = SubSeq(both, 1, Len(oldest))
          /\ from # Nothing /\ to # Nothing => Attribution(from, to) = PnlOf(recent)

(* Who computes the same computes it alike: the one pass over a curve      *)
(* finds its largest relative fall; the fall of the trades on the dashboard *)
(* counts from the capital, so while none is lost it is at least the fall of *)
(* the curve drawn of them; page and report agree on the jobs both show; a  *)
(* CSV column is the curve; but for the trades closed at the window's end,  *)
(* which only the history has, the history is the end of the dashboard's   *)
(* list if that is complete, and begins like it if the history is, and a    *)
(* complete history is what the portfolio attributes: one that is as long   *)
(* as its limit may leave older trades out.                                *)
StatisticsAgree == Something =>
  /\ \A j \in JobIds : CalcMaxDD(Equity(j)) = Min(Falls(Equity(j)) \cup {1000})
  /\ TradesFall(AnalyticsTrades(Nothing, Nothing))
  /\ \A ids \in Selections, baseline \in BOOLEAN :
       ReportIsPage(GetReport(ids, baseline), GetAnalytics(ids, baseline, FALSE))
  /\ \A from, to \in SnapTimes \cup {Nothing} : ListsAgree(from, to)
=============================================================================

------------------------------ MODULE Backtest ------------------------------
(***************************************************************************)
(* The backtest over a growing series of candles: the indicators of        *)
(* backtest/indicators.js, the RSI/ATR/ADX strategy (strategies/ema.js) with *)
(* its engine (backtest/engine.js) and metrics (backtest/utils.js), and the *)
(* sidewaysReversal strategy with its own engine (engine/backtest.js).      *)
(* All are functions of the candles; the state is the candles so far, and a *)
(* step appends one.  An index i is the source's: 0 is the first candle.    *)
(* Quotients are rounded down, after scaling by Scale: no property depends  *)
(* on the digits that drops.                                               *)
(***************************************************************************)
EXTENDS Integers, Sequences, SequencesExt, FiniteSetsExt, DataFolds

CONSTANTS
  CandleKinds,      \* records [open, high, low, close], low <= open, close <= high
  MaxCandles,       \* bound: length of the series
  Period,           \* 14 in the source
  TrendPeriod,      \* 200 in the source: the average of the trend filter
  Fast, Slow,       \* 9 and 21: the two averages of getTrend
  RsiBuy, RsiSell, AtrMult, AdxMin,   \* the strategy's parameters
  CostPct           \* slippage and fee, per side, in percent

VARIABLE series

Scale == 100

ASSUME BacktestAssumption ==
  /\ Period \in Nat \ {0, 1} /\ TrendPeriod \in Nat \ {0, 1} /\ Slow \in Nat /\ Fast \in 1..Slow
  /\ AtrMult \in Nat /\ CostPct \in 0..99 /\ {RsiBuy, RsiSell, AdxMin} \subseteq Int
  /\ \A k \in CandleKinds : /\ {k.open, k.high, k.low, k.close} \subseteq Nat
                            /\ k.low <= k.close /\ k.close <= k.high

\* Values no indicator takes: JavaScript's null and NaN.
Null == -1
NaN  == -2

MaxOf(a, b) == IF a >= b THEN a ELSE b
AbsOf(x)    == IF x < 0 THEN -x ELSE x

-----------------------------------------------------------------------------
(* Indicators of backtest/indicators.js: functions on 0..n-1.               *)

Bars(cs) == 0..(Len(cs) - 1)
Bar(cs, i) == cs[i + 1]
Diff(cs, i) == Bar(cs, i).close - Bar(cs, i - 1).close

\* Wilder's average: the mean of the first Period values, then (avg * (p-1) + v) / p.
WilderMean(v, n) ==
  LET avg[i \in Period..n] ==
        IF i = Period THEN (Scale * SumOver(v, 1, Period)) \div Period
                      ELSE (avg[i - 1] * (Period - 1) + Scale * v[i]) \div Period
  IN avg

Ratio(gain, loss) == IF loss = 0 THEN 100 ELSE (100 * gain) \div (gain + loss)

RSI(cs) ==
  LET n == Len(cs) - 1
      gain == WilderMean([i \in 1..n |-> MaxOf(Diff(cs, i), 0)], n)
      loss == WilderMean([i \in 1..n |-> MaxOf(-Diff(cs, i), 0)], n)
  IN [i \in Bars(cs) |-> IF i < Period THEN Null ELSE Ratio(gain[i], loss[i])]

TrueRange(cs, i) ==
  LET b == Bar(cs, i) p == Bar(cs, i - 1).close
  IN MaxOf(b.high - b.low, MaxOf(AbsOf(b.high - p), AbsOf(b.low - p)))

\* The first bar has no predecessor.
BarRange(cs, i) == IF i = 0 THEN Bar(cs, 0).high - Bar(cs, 0).low ELSE TrueRange(cs, i)

\* A running sum over the last Period true ranges, of which ATR is the mean.
RangeSum(cs) ==
  LET sum[i \in Bars(cs)] ==
        IF i = 0 THEN BarRange(cs, 0)
        ELSE LET before == sum[i - 1] + BarRange(cs, i)
             IN IF i >= Period THEN before - BarRange(cs, i - Period) ELSE before
  IN sum

ATR(cs) ==
  LET sum == RangeSum(cs)
  IN [i \in Bars(cs) |-> IF i < Period - 1 THEN Null ELSE (Scale * sum[i]) \div Period]

\* The mean of the first TrendPeriod closes, then exponential.
MeanClose(cs, a, b) == (Scale * SumOver([k \in a..b |-> Bar(cs, k).close], a, b)) \div (b - a + 1)

EmaSeed_Last(cs) == MeanClose(cs, Len(cs) - TrendPeriod, Len(cs) - 1)
EmaSeed(cs) == MeanClose(cs, 0, TrendPeriod - 1)

EMA(cs) ==
  LET e[i \in Bars(cs)] ==
        IF i < TrendPeriod - 1 THEN Null
        ELSE IF i = TrendPeriod - 1 THEN EmaSeed(cs)
        ELSE LET before == e[i - 1]
             IN ((Scale * Bar(cs, i).close - before) * 2) \div (TrendPeriod + 1) + before
  IN e

UpMove(cs, i)   == Bar(cs, i).high - Bar(cs, i - 1).high
DownMove(cs, i) == Bar(cs, i - 1).low - Bar(cs, i).low
PlusDM(cs, i)  == IF UpMove(cs, i) > MaxOf(0, DownMove(cs, i)) THEN UpMove(cs, i) ELSE 0
MinusDM(cs, i) == IF DownMove(cs, i) > MaxOf(0, UpMove(cs, i)) THEN DownMove(cs, i) ELSE 0

\* Wilder's sum: the sum of the first Period values, then s - s/p + v.
WilderSum(v, n) ==
  LET s[i \in Period..n] ==
        IF i = Period THEN Scale * SumOver(v, 1, Period)
                      ELSE LET before == s[i - 1] IN before - before \div Period + Scale * v[i]
  IN s

\* The directional index: null without any range, 0/0 without any directional move.
DX(cs) ==
  LET n == Len(cs) - 1
      tr == WilderSum([i \in 1..n |-> TrueRange(cs, i)], n)
      p  == WilderSum([i \in 1..n |-> PlusDM(cs, i)], n)
      m  == WilderSum([i \in 1..n |-> MinusDM(cs, i)], n)
      Index(u, d) == IF u + d = 0 THEN NaN ELSE (100 * AbsOf(u - d)) \div (u + d)
  IN [i \in Period..n |-> IF tr[i] = 0 THEN Null ELSE Index(p[i], m[i])]

\* The mean of the first Period values of DX from the first that is not null on, that is
\* from index start to last; NaN stays.
AdxFrom(dx, start, last, n) ==
  LET v == [i \in DOMAIN dx |-> IF dx[i] = Null THEN 0 ELSE dx[i]]
      out[i \in last..(n - 1)] ==
        IF i = last
        THEN IF \E k \in start..last : dx[k] = NaN THEN NaN
             ELSE SumOver(v, start, last) \div Period
        ELSE LET before == out[i - 1]
             IN IF NaN \in {before, dx[i]} THEN NaN
                ELSE (before * (Period - 1) + v[i]) \div Period
  IN [i \in 0..(n - 1) |-> IF i < last THEN Null ELSE out[i]]

Smoothed(dx, n) ==
  LET starts == {i \in DOMAIN dx : dx[i] # Null}
  IN IF n < Period + 2 \/ starts = {} \/ Min(starts) + Period > n
     THEN [i \in 0..(n - 1) |-> Null]
     ELSE AdxFrom(dx, Min(starts), Min(starts) + Period - 1, n)

ADX(cs) == Smoothed(DX(cs), Len(cs))

-----------------------------------------------------------------------------
(* strategies/ema.js and backtest/engine.js.                                *)

Mask_Unknown(r, a) == [i \in DOMAIN r |-> IF a[i] # Null /\ a[i] >= AdxMin THEN r[i] ELSE Null]

\* Where the ADX is known and below its minimum (or NaN) the RSI is masked; before, it passes.
Mask(r, a) ==
  [i \in DOMAIN r |-> LET adx == a[i] IN IF adx = Null \/ adx >= AdxMin THEN r[i] ELSE Null]
RsiMasked(cs) == Mask(RSI(cs), ADX(cs))

ApplyCost(px, side) ==
  (px * (IF side = "BUY" THEN 100 + CostPct ELSE 100 - CostPct)) \div 100

Flat(trades) == [pos |-> 0, entry |-> 0, stop |-> 0, trades |-> trades]

\* One bar with a usable RSI r and ATR a, for book b: enter, leave at the stop, leave
\* overbought, or trail the stop.
Trade(b, i, side, price, pnl) ==
  Append(b.trades, [ts |-> i, side |-> side, price |-> price, pnl |-> pnl])

Exit(b, i, raw) ==
  LET price == ApplyCost(raw, "SELL")
  IN Flat(Trade(b, i, "SELL", price, price - b.entry))

\* The stop only rises.
Trail_Falls(stop, close, a) == close - AtrMult * a
Trail(stop, close, a) == MaxOf(stop, close - AtrMult * a)

OnBar(b, i, bar, r, a) ==
  LET close == Scale * bar.close
      entry == ApplyCost(close, "BUY")
  IN CASE b.pos = 0 /\ r <= RsiBuy ->
            [pos |-> 1, entry |-> entry, stop |-> entry - AtrMult * a,
             trades |-> Trade(b, i, "BUY", entry, Null)]
       [] b.pos = 1 /\ Scale * bar.low <= b.stop -> Exit(b, i, b.stop)
       [] b.pos = 1 /\ Scale * bar.low > b.stop /\ r >= RsiSell -> Exit(b, i, close)
       [] b.pos = 1 /\ Scale * bar.low > b.stop /\ r < RsiSell ->
            [b EXCEPT !.stop = Trail(@, close, a)]
       [] OTHER -> b

\* A bar whose RSI or ATR is null, NaN or exactly 0 is skipped, its stop with it.
Usable(x) == x > 0

NoTrades == Flat(<<>>)

Engine(cs, r, a) ==
  LET book[i \in Bars(cs)] ==
        IF i = 0 THEN NoTrades
        ELSE LET before == book[i - 1]
                 rsi == r[i]
                 atr == a[i]
             IN IF Usable(rsi) /\ Usable(atr) THEN OnBar(before, i, Bar(cs, i), rsi, atr)
                ELSE before
  IN IF cs = <<>> THEN NoTrades ELSE book[Len(cs) - 1]

RunBacktest(cs) == Engine(cs, RsiMasked(cs), ATR(cs))

Sells(trades) == Only(trades, {t \in Range(trades) : t.side = "SELL"})

Peak_FromZero(m, eq) == MaxOf(m.peak, eq)
Peak(m, eq) == IF m.closed = 0 THEN eq ELSE MaxOf(m.peak, eq)

Counting(m, eq, won) ==
  [pnl |-> eq, peak |-> Peak(m, eq), closed |-> m.closed + 1,
   maxDD |-> MaxOf(m.maxDD, Peak(m, eq) - eq), wins |-> m.wins + (IF won THEN 1 ELSE 0)]

\* The equity after each closed trade, its highest point so far, and the largest fall from it.
MetricsOf(sells) ==
  LET m[i \in 0..Len(sells)] ==
        IF i = 0 THEN [pnl |-> 0, peak |-> 0, closed |-> 0, maxDD |-> 0, wins |-> 0]
        ELSE LET before == m[i - 1]
             IN Counting(before, before.pnl + sells[i].pnl, sells[i].pnl > 0)
  IN m[Len(sells)]

ComputeMetrics(trades) == MetricsOf(Sells(trades))

Won(sells)  == Only(sells, {t \in Range(sells) : t.pnl > 0})
Lost(sells) == Only(sells, {t \in Range(sells) : t.pnl <= 0})

\* scripts/run-backtest.js counts every trade as closed, since a BUY has a pnl key too, whose
\* value is undefined: from the first trade on the equity is NaN, and no fall is ever seen.
RunBacktestScript(trades) ==
  [closed |-> Len(trades), wins |-> Len(Won(Sells(trades))),
   losses |-> Len(Lost(Sells(trades))),
   equity |-> [i \in 1..Len(trades) |-> NaN], maxDD |-> 0]

\* scripts/generate-signals.js: the last candle, with the filters the engine has not (the
\* average, if asked for) or has as a mask (the ADX, where it is known).
Signal(filter, r, a, atr, e, close) ==
  IF Null \in {r, atr, e} \/ (filter /\ close <= e) \/ (a # Null /\ a # NaN /\ a < AdxMin) THEN "none"
  ELSE IF r <= RsiBuy THEN "BUY" ELSE IF r >= RsiSell THEN "SELL" ELSE "none"

SignalAtEnd(cs, useTrendFilter) ==
  LET n == Len(cs) - 1
  IN Signal(useTrendFilter, RSI(cs)[n], ADX(cs)[n], ATR(cs)[n], EMA(cs)[n], Scale * Bar(cs, n).close)

-----------------------------------------------------------------------------
(* sidewaysReversal: every indicator looks at a last window.                *)

LastRsi(cs) ==
  LET n == Len(cs) - 1
      gain == SumOver([i \in 1..n |-> MaxOf(Diff(cs, i), 0)], n - Period + 1, n)
      loss == SumOver([i \in 1..n |-> MaxOf(-Diff(cs, i), 0)], n - Period + 1, n)
  IN IF loss = 0 THEN IF gain = 0 THEN 0 ELSE 100 ELSE (100 * gain) \div (gain + loss)

LastAtr(cs) ==
  LET n == Len(cs) - 1
  IN (Scale * SumOver([i \in 1..n |-> TrueRange(cs, i)], n - Period + 1, n)) \div Period

\* Starts from the mean of the last p closes and runs over p - 1 of them again.
LastEma(cs, p) ==
  LET n == Len(cs)
      e[i \in (n - p)..(n - 1)] ==
        IF i = n - p THEN MeanClose(cs, n - p, n - 1)
        ELSE (2 * Scale * Bar(cs, i).close + e[i - 1] * (p - 1)) \div (p + 1)
  IN e[n - 1]

BullishEngulfing(c1, c2) ==
  c1.close < c1.open /\ c2.close > c2.open /\ c2.open <= c1.close /\ c2.close >= c1.open

BearishEngulfing(c1, c2) ==
  c1.close > c1.open /\ c2.close < c2.open /\ c2.open >= c1.close /\ c2.close <= c1.open

Lookback == MaxOf(Period, Slow) + 1

Decide(prev, last, fast, slow, r, a) ==
  LET entry == Scale * last.close
  IN IF fast > slow /\ r < 40 /\ BullishEngulfing(prev, last)
     THEN [type |-> "BUY", entry |-> entry, sl |-> entry - a, tp |-> entry + (3 * a) \div 2]
     ELSE IF BearishEngulfing(prev, last) \/ r > 70 THEN [type |-> "SELL", entry |-> entry]
     ELSE [type |-> "none"]

Evaluate(cs) ==
  IF Len(cs) < Lookback THEN [type |-> "none"]
  ELSE Decide(cs[Len(cs) - 1], cs[Len(cs)], LastEma(cs, Fast), LastEma(cs, Slow),
              LastRsi(cs), LastAtr(cs))

\* engine/backtest.js: one position, left at its target before its stop is looked at.
Resolved(s, p, candle) ==
  IF p.tp # 0 /\ Scale * candle.high >= p.tp
  THEN [s EXCEPT !.open = <<>>, !.wins = @ + 1, !.pnl = @ + p.tp - p.entry]
  ELSE IF p.sl # 0 /\ Scale * candle.low <= p.sl
  THEN [s EXCEPT !.open = <<>>, !.losses = @ + 1, !.pnl = @ + p.sl - p.entry]
  ELSE s

SidewaysBar(s, signal, candle) ==
  IF s.open # <<>> THEN Resolved(s, s.open[1], candle)
  ELSE IF signal.type = "BUY" THEN [s EXCEPT !.open = <<signal>>, !.trades = @ + 1] ELSE s

SidewaysRun(cs) ==
  LET run[n \in 0..Len(cs)] ==
        IF n = 0 THEN [open |-> <<>>, trades |-> 0, wins |-> 0, losses |-> 0, pnl |-> 0]
        ELSE LET before == run[n - 1]
             IN IF n < Lookback THEN before
                ELSE SidewaysBar(before, Evaluate(SubSeq(cs, 1, n)), cs[n])
  IN run[Len(cs)]

-----------------------------------------------------------------------------
InitBacktest == series = <<>>

NextCandle == \E k \in CandleKinds :
  Len(series) < MaxCandles /\ series' = Append(series, k)

BacktestSpec == InitBacktest /\ [][NextCandle]_series

(***************************************************************************)
(* Properties.                                                             *)
(***************************************************************************)

KeepsComputed ==
  LET Keeps(old, new) == \A i \in Bars(series) : new[i] = old[i]
  IN /\ Keeps(RSI(series), RSI(series')) /\ Keeps(ATR(series), ATR(series'))
     /\ Keeps(EMA(series), EMA(series')) /\ Keeps(ADX(series), ADX(series'))
     /\ IsPrefix(RunBacktest(series).trades, RunBacktest(series').trades)

(* A later candle changes nothing that was computed for an earlier one: no  *)
(* value of an indicator, no trade of the engine.                           *)
NoLookAhead == [][KeepsComputed]_series

(* Who looks at the last candle decides alike: sidewaysReversal in a live    *)
(* process, which keeps the last candles only (engine/live.js 300 to 400),  *)
(* as in its backtest over all of them; and where the script               *)
(* generate-signals says BUY, without its filter of the trend, which the    *)
(* engine is given and ignores, the engine without a position enters, unless *)
(* the RSI or the ATR is exactly 0, which only the engine takes for missing, *)
(* or the ADX is NaN, which masks for the engine and passes in the script.  *)
DecisionsAgree ==
  LET i == Len(series) - 1
      Enters(r, a) == /\ Usable(r) /\ Usable(a)
                      /\ OnBar(NoTrades, i, Bar(series, i), r, a).pos = 1
  IN /\ i >= Lookback =>
          Evaluate(series) = Evaluate(SubSeq(series, i + 2 - Lookback, i + 1))
     /\ i >= 0 /\ SignalAtEnd(series, FALSE) = "BUY" =>
          \/ RSI(series)[i] = 0 \/ ATR(series)[i] = 0 \/ ADX(series)[i] = NaN
          \/ Enters(RsiMasked(series)[i], ATR(series)[i])

StopBounds(trades, atr) ==
  \A k \in DOMAIN trades :
    IF k % 2 = 1 THEN trades[k].side = "BUY"
    ELSE /\ trades[k].side = "SELL"
         /\ trades[k].price >=
              ApplyCost(trades[k - 1].price - AtrMult * atr[trades[k - 1].ts], "SELL")

Counted(run) == run.trades = run.wins + run.losses + Len(run.open)

(* Buys and sells alternate, and whatever path the prices take, a trade     *)
(* loses no more than the distance to the stop it was opened with: the stop *)
(* only rises, and leaving overbought happens above it.  The other engine   *)
(* has at most the one position open that it has not counted as won or lost. *)
LossBounded ==
  series # <<>> => /\ StopBounds(RunBacktest(series).trades, ATR(series))
                   /\ Counted(SidewaysRun(series))

EquityAt(sells, i) == SumOver([k \in DOMAIN sells |-> sells[k].pnl], 1, i)

LargestFall(sells, m) ==
  /\ m.maxDD = Max({0} \cup UNION {{EquityAt(sells, i) - EquityAt(sells, j) : j \in i..Len(sells)} :
                                   i \in DOMAIN sells})
  /\ m.pnl = EquityAt(sells, Len(sells))

FallFromStart(sells, m) ==
  \A j \in DOMAIN sells : -EquityAt(sells, j) <= m.maxDD + MaxOf(0, -sells[1].pnl)

CountsAgree(m, script) ==
  script.wins = m.wins /\ script.wins + script.losses = m.closed

(* The one pass of computeMetrics finds the largest fall between any two     *)
(* points of the equity, the first of which is after the first trade.  The  *)
(* fall from the start itself, with which computeStatsFromTrades begins, can *)
(* be larger, by no more than what the first trade lost.  The script        *)
(* run-backtest counts its wins as computeMetrics does.                     *)
DrawdownIsLargestFall ==
  LET Agree(trades) == /\ LargestFall(Sells(trades), ComputeMetrics(trades))
                       /\ FallFromStart(Sells(trades), ComputeMetrics(trades))
                       /\ CountsAgree(ComputeMetrics(trades), RunBacktestScript(trades))
  IN series # <<>> => Agree(RunBacktest(series).trades)
=============================================================================

------------------------------ MODULE MCServices ------------------------------
\* Values for the services: small instances of each part, which TLC follows one at a time.
\* Settings are in tenths, pnl in thousandths.
EXTENDS Services

\* A rise, a fall that reaches a stop, a gap upwards.
MCKinds == {[open |-> 8, high |-> 11, low |-> 7, close |-> 10],
            [open |-> 8, high |-> 9, low |-> 5, close |-> 7],
            [open |-> 10, high |-> 16, low |-> 9, close |-> 14]}

\* A loss that is no whole number of cents: the sum of two rounds to less than two rounded.
MCPnls == {-996}
\* Ingest and the backfill take candles of one market, as when both are left to their
\* defaults (BTCUSDT 1h), the engine those of another.
MCStep == [m \in Markets |-> IF m = IngestMarket THEN 2 ELSE 3]
MCWindow == <<0, 6>>

\* What is sent to POST /live/config: out of range, fractional, missing.
MCBodies == {[slPct |-> -10, trailPct |-> 0, maxOpenTrades |-> 25],
             [slPct |-> 5, trailPct |-> -10, maxOpenTrades |-> 0],
             [slPct |-> 0, trailPct |-> 20, maxOpenTrades |-> Absent]}

Ema(fast, slow) ==
  [id |-> "ema", params |-> [fast |-> fast, slow |-> slow, atrMult |-> 20], symbols |-> 1]
Adx(symbols) ==
  [id |-> "adx", params |-> [period |-> 140, threshold |-> 200], symbols |-> symbols]

\* Good ones, alone and together; fast = slow; no symbols; a missing and a fractional
\* parameter; an unknown strategy; none at all.
MCConfigBodies ==
  {<<Ema(120, 260)>>, <<Ema(90, 210), Adx(2)>>, <<Ema(260, 260)>>, <<Adx(0)>>,
   <<[id |-> "adx", params |-> [period |-> 140], symbols |-> 1]>>,
   <<[id |-> "rsi", params |-> [period |-> 145, buyBelow |-> 300, sellAbove |-> 700], symbols |-> 1]>>,
   <<[id |-> "macd", params |-> [period |-> 140], symbols |-> 1]>>, <<>>}

\* A trade that loses, one that gains; a curve that bends and one with a single row.
MCProfits == {-30, 20}
MCFileRows == <<5, 1>>

\* More jobs than there may be overlays, one of them without a curve, with a baseline,
\* aligned, and an inline part; and a set that has no curve at all.
MCPayloads == {[jobs |-> <<2, 1, 3>>, baseline |-> TRUE, align |-> TRUE, inline |-> TRUE],
               [jobs |-> <<3>>, baseline |-> FALSE, align |-> TRUE, inline |-> FALSE]}
=============================================================================

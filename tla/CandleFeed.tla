------------------------------ MODULE CandleFeed ------------------------------
(***************************************************************************)
(* The candles table and those who write it: POST /ingest (server.js,       *)
(* ingest.js), the live engine (engine/live.js, exchange/binance.js) and    *)
(* the backfill script (fetch-binance.js, data/binance.js); and the signals *)
(* that the engine and generate-signals.js make of it.  Every writer has a  *)
(* market of its own, a symbol and an interval: ingest that of params.json, *)
(* the engine that of the environment, the backfill that of its arguments.  *)
(* A row has neither; every writer upserts by timestamp, none knows of      *)
(* another, and an await separates what is fetched from what is written.    *)
(*                                                                         *)
(* Time runs in ticks.  A candle of market m opens every Step[m] ticks.     *)
(***************************************************************************)
EXTENDS Integers, Sequences, SequencesExt, FiniteSetsExt

CONSTANTS
  IngestMarket, EngineMarket, FillMarket,   \* whose candles each of them writes
  Step,             \* Step[m]: the interval of m, in ticks (intervalMs)
  MaxClock,         \* bound: the last tick
  Limit,            \* candles the exchange returns at most
  Past,             \* how far the first ingest reaches back (365 days)
  HistLen,          \* candles the engine fetches at start (600)
  BufferLen,        \* candles the engine keeps of them (300)
  BufferMax,        \* candles its buffer holds (400)
  Calls,            \* POST /ingest requests handled at the same time
  Window,           \* arguments of the backfill: <<startMs, endMs>>
  MaxSignals,       \* bound: rows of the table signals
  MaxStarts         \* bound: calls, scripts and engines started in all

VARIABLES
  clock, candles,   \* candles: ts -> the market whose prices the row has
  ingest,           \* ingest[c]: where ingestOnce is: [pc, first, cursor, end, got]
  engine,           \* the live engine: [pc, hist, buffer]
  flying,           \* upserts the engine's stream has under way: [ts, closed]
  judged,           \* candles evaluate() gave a signal for, not saved yet
  fill,             \* where the backfill is, in the same way
  script,           \* generate-signals: [pc, ts]
  signals,          \* rows: [ts, by]
  sent,             \* messages to Telegram: [ts, by]
  starts,           \* how many calls, scripts and engines were started
  wrote,            \* history: the <<market, ts>> that were ever written
  edges             \* history: those written by someone who had not asked for the one before

feedVars == <<clock, candles, ingest, engine, flying, judged, fill, script, signals, sent, starts, wrote, edges>>
others == <<flying, judged, script, signals, sent>>
candleTable == <<candles, wrote, edges>>

Markets == {IngestMarket, EngineMarket, FillMarket}

ASSUME CandleFeedAssumption ==
  /\ Step \in [Markets -> Nat \ {0}] /\ Limit \in Nat \ {0} /\ HistLen \in Nat \ {0}
  /\ BufferLen \in Nat \ {0} /\ BufferMax \in Nat \ {0} /\ Past \in Nat
  /\ Window \in Int \X Int

\* The candles of m the exchange has, the last one still open.
Opened(m) == {t \in 0..clock : \E n \in 0..clock : t = Step[m] * n}
Klines(m, from, to, limit) ==
  LET asked == {t \in Opened(m) : from <= t /\ t <= to}
  IN IF asked = {} THEN <<>>
     ELSE [i \in 1..Min({limit, Cardinality(asked)}) |-> Min(asked) + Step[m] * (i - 1)]
LastKlines(m, n) ==
  LET all == Klines(m, 0, clock, clock + 1) IN SubSeq(all, Max({1, Len(all) - n + 1}), Len(all))

\* ON CONFLICT (ts): a row takes the prices of whoever writes it last.
Upsert(m, ks) ==
  /\ candles' = [t \in DOMAIN candles \cup Range(ks) |-> IF t \in Range(ks) THEN m ELSE candles[t]]
  /\ wrote' = wrote \cup ({m} \X Range(ks))

\* The next page starts where this one ended.
NextPage_Skips(m, ks) == Last(ks) + 2 * Step[m]
NextPage(m, ks) == Last(ks) + Step[m]

Idle == [pc |-> "idle", first |-> FALSE, cursor |-> 0, end |-> 0, got |-> <<>>]
NoScript == [pc |-> "idle", ts |-> 0]

\* A page was fetched, and is written next; it is written, and the next is fetched.
Fetched(g, ks) == [g EXCEPT !.pc = "upsert", !.got = ks]
Written(g, m) == [g EXCEPT !.pc = "fetch", !.first = FALSE, !.cursor = NextPage(m, g.got), !.got = <<>>]
Began(g, m) == edges' = IF g.first THEN edges \cup {<<m, g.got[1]>>} ELSE edges

Starting == starts < MaxStarts /\ starts' = starts + 1

InitFeed ==
  /\ clock = 0 /\ starts = 0 /\ candles = <<>> /\ ingest = [c \in Calls |-> Idle]
  /\ engine = [pc |-> "off", hist |-> <<>>, buffer |-> <<>>]
  /\ flying = {} /\ judged = {} /\ fill = Idle /\ script = NoScript
  /\ signals = <<>> /\ sent = {} /\ wrote = {} /\ edges = {}

-----------------------------------------------------------------------------
(* ingestOnce.                                                             *)

\* MAX(ts) of anybody's rows; first: it is not known to be a candle of this market.
SelectLastTs(c) ==
  /\ Starting
  /\ ingest[c] = Idle
  /\ LET last == Max(DOMAIN candles) IN
     ingest' = [ingest EXCEPT ![c] =
       [pc |-> "fetch", end |-> clock - Step[IngestMarket], got |-> <<>>,
        first |-> DOMAIN candles = {} \/ <<IngestMarket, last>> \notin wrote,
        cursor |-> IF DOMAIN candles = {} THEN clock - Past ELSE last + Step[IngestMarket]]]
  /\ UNCHANGED <<clock, engine, fill>> /\ UNCHANGED candleTable /\ UNCHANGED others

FetchKlines(c) ==
  /\ ingest[c].pc = "fetch" /\ ingest[c].cursor <= ingest[c].end
  /\ LET ks == Klines(IngestMarket, ingest[c].cursor, clock, Limit) IN
     ingest' = [ingest EXCEPT ![c] = IF ks = <<>> THEN Idle ELSE Fetched(@, ks)]
  /\ UNCHANGED <<starts, clock, engine, fill>> /\ UNCHANGED candleTable /\ UNCHANGED others

\* One transaction.
UpsertCandles(c) ==
  /\ ingest[c].pc = "upsert"
  /\ Upsert(IngestMarket, ingest[c].got) /\ Began(ingest[c], IngestMarket)
  /\ ingest' = [ingest EXCEPT ![c] = Written(@, IngestMarket)]
  /\ UNCHANGED <<starts, clock, engine, fill>> /\ UNCHANGED others

\* The last page is in, or a call failed (the transaction is rolled back, 500).
IngestEnds(c) ==
  /\ ingest[c].pc \in {"fetch", "upsert"}
  /\ ingest' = [ingest EXCEPT ![c] = Idle]
  /\ UNCHANGED <<starts, clock, engine, fill>> /\ UNCHANGED candleTable /\ UNCHANGED others

-----------------------------------------------------------------------------
(* The live engine.                                                        *)

StartEngine ==
  /\ Starting
  /\ engine.pc = "off"
  /\ LET ks == LastKlines(EngineMarket, HistLen) IN
     engine' = [pc |-> "hist", hist |-> ks,
                buffer |-> [i \in 1..Min({BufferLen, Len(ks)}) |->
                              ks[Len(ks) - Min({BufferLen, Len(ks)}) + i]]]
  /\ UNCHANGED <<clock, ingest, fill>> /\ UNCHANGED candleTable /\ UNCHANGED others

\* One statement per candle, one after the other.
StoreHist ==
  /\ engine.pc = "hist" /\ engine.hist # <<>>
  /\ Upsert(EngineMarket, <<Head(engine.hist)>>)
  /\ edges' = IF Len(engine.hist) = HistLen \/ Head(engine.hist) = 0
              THEN edges \cup {<<EngineMarket, Head(engine.hist)>>} ELSE edges
  /\ engine' = [engine EXCEPT !.hist = Tail(@)]
  /\ UNCHANGED <<starts, clock, ingest, fill>> /\ UNCHANGED others

OpenStream ==
  /\ engine.pc = "hist" /\ engine.hist = <<>>
  /\ engine' = [engine EXCEPT !.pc = "live"]
  /\ UNCHANGED <<starts, clock, ingest, fill>> /\ UNCHANGED candleTable /\ UNCHANGED others

\* A tick: the stream sends the open candle; onCandle is called and not awaited.
Tick ==
  /\ clock < MaxClock /\ clock' = clock + 1
  /\ LET t == Max(Opened(EngineMarket)) IN
     flying' = IF engine.pc # "live" THEN flying
               ELSE flying \cup {[ts |-> t, closed |-> clock + 1 = t + Step[EngineMarket]]}
  /\ UNCHANGED <<starts, ingest, engine, judged, fill, script, signals, sent>> /\ UNCHANGED candleTable

\* Mutant: every tick of a candle is evaluated, not its close only.
OnCandle_Open(k) ==
  /\ k \in flying /\ flying' = flying \ {k}
  /\ Upsert(EngineMarket, <<k.ts>>) /\ edges' = edges \cup {<<EngineMarket, k.ts>>}
  /\ judged' \in {judged, judged \cup {k.ts}}
  /\ UNCHANGED <<starts, clock, ingest, engine, fill, script, signals, sent>>

\* Its upsert is done: a closed candle goes into the buffer and is evaluated.
OnCandle(k) ==
  /\ k \in flying /\ flying' = flying \ {k}
  /\ Upsert(EngineMarket, <<k.ts>>) /\ edges' = edges \cup {<<EngineMarket, k.ts>>}
  /\ IF k.closed
     THEN /\ engine' = [engine EXCEPT !.buffer =
               IF Len(@) = BufferMax THEN Append(Tail(@), k.ts) ELSE Append(@, k.ts)]
          /\ judged' \in {judged, judged \cup {k.ts}}
     ELSE UNCHANGED <<engine, judged>>
  /\ UNCHANGED <<starts, clock, ingest, fill, script, signals, sent>>

\* The row first, then the messages; a failed message is only logged.
SaveSignal(t) ==
  /\ t \in judged /\ judged' = judged \ {t} /\ Len(signals) < MaxSignals
  /\ signals' = Append(signals, [ts |-> t, by |-> "engine"])
  /\ sent' \in {sent, sent \cup {[ts |-> t, by |-> "engine"]}}
  /\ UNCHANGED <<starts, clock, ingest, engine, flying, fill, script>> /\ UNCHANGED candleTable

\* The socket closes and is not opened again; the process stays.
StreamCloses ==
  /\ engine.pc = "live" /\ engine' = [engine EXCEPT !.pc = "deaf"]
  /\ UNCHANGED <<starts, clock, ingest, fill>> /\ UNCHANGED candleTable /\ UNCHANGED others

\* A statement fails: the rejection is unhandled and ends the process.  It is started again.
EngineDies ==
  /\ engine.pc # "off"
  /\ engine' = [pc |-> "off", hist |-> <<>>, buffer |-> <<>>]
  /\ flying' = {} /\ judged' = {}
  /\ UNCHANGED <<starts, clock, ingest, fill, script, signals, sent>> /\ UNCHANGED candleTable

-----------------------------------------------------------------------------
(* The scripts.                                                            *)

Fill == [pc |-> "fetch", first |-> TRUE, cursor |-> Window[1], end |-> Window[2], got |-> <<>>]

StartFill ==
  /\ Starting
  /\ fill = Idle /\ fill' = Fill
  /\ UNCHANGED <<clock, ingest, engine>> /\ UNCHANGED candleTable /\ UNCHANGED others

\* A window without candles is skipped, to begin anew after it: the first one may lie
\* before the listing, and the last one may not have begun.
FillFetch ==
  /\ fill.pc = "fetch" /\ fill.cursor < fill.end
  /\ LET ks == Klines(FillMarket, fill.cursor,
                  Min({fill.cursor + Step[FillMarket] * Limit, fill.end}), Limit) IN
     fill' = IF ks = <<>> THEN [fill EXCEPT !.cursor = @ + Step[FillMarket] * Limit, !.first = TRUE]
             ELSE Fetched(fill, ks)
  /\ UNCHANGED <<starts, clock, ingest, engine>> /\ UNCHANGED candleTable /\ UNCHANGED others

FillUpsert ==
  /\ fill.pc = "upsert"
  /\ Upsert(FillMarket, fill.got) /\ Began(fill, FillMarket)
  /\ fill' = Written(fill, FillMarket)
  /\ UNCHANGED <<starts, clock, ingest, engine>> /\ UNCHANGED others

FillEnds ==
  /\ fill # Idle /\ fill' = Idle
  /\ UNCHANGED <<starts, clock, ingest, engine>> /\ UNCHANGED candleTable /\ UNCHANGED others

\* generate-signals judges the last candle; its decision is Backtest's SignalAtEnd.
ReadCandles ==
  /\ Starting
  /\ script = NoScript /\ DOMAIN candles # {}
  /\ script' = [pc |-> "insert", ts |-> Max(DOMAIN candles)]
  /\ UNCHANGED <<clock, ingest, engine, flying, judged, fill, signals, sent>> /\ UNCHANGED candleTable

\* ON CONFLICT DO NOTHING, on a table without a unique key.
InsertSignal ==
  /\ script.pc = "insert" /\ Len(signals) < MaxSignals
  /\ signals' = Append(signals, [ts |-> script.ts, by |-> "script"])
  /\ script' = [script EXCEPT !.pc = "send"]
  /\ UNCHANGED <<starts, clock, ingest, engine, flying, judged, fill, sent>> /\ UNCHANGED candleTable

TgSend ==
  /\ script.pc = "send" /\ script' = NoScript
  /\ sent' \in {sent, sent \cup {[ts |-> script.ts, by |-> "script"]}}
  /\ UNCHANGED <<starts, clock, ingest, engine, flying, judged, fill, signals>> /\ UNCHANGED candleTable

NextFeed ==
  \/ \E c \in Calls : SelectLastTs(c) \/ FetchKlines(c) \/ UpsertCandles(c) \/ IngestEnds(c)
  \/ StartEngine \/ StoreHist \/ OpenStream \/ StreamCloses \/ EngineDies
  \/ \E k \in flying : OnCandle(k)
  \/ \E t \in judged : SaveSignal(t)
  \/ StartFill \/ FillFetch \/ FillUpsert \/ FillEnds
  \/ ReadCandles \/ InsertSignal \/ TgSend
  \/ Tick

FeedSpec == InitFeed /\ [][NextFeed]_feedVars

-----------------------------------------------------------------------------
(* Whatever calls, scripts and restarts overlap or fail, and whoever else    *)
(* writes into the same rows, a hole in the candles of a market lies only   *)
(* before one that its writer took without its predecessor: the first of an *)
(* ingest into an empty table or after the row of another market, of a      *)
(* backfill or of what follows an empty window of it, of the engine's       *)
(* history, or one of its stream.  Paging makes no hole.                   *)
HolesOnlyAtEdges ==
  \A w \in wrote : LET m == w[1] IN <<m, w[2] - Step[m]>> \in wrote \/ w \in edges

(* A signal is about a candle that is in the table; the engine saves one    *)
(* per candle at most, over all its restarts; and no message is sent of a   *)
(* signal that was not saved.                                              *)
SignalsAreBacked ==
  /\ \A i \in DOMAIN signals :
       /\ signals[i].ts \in DOMAIN candles
       /\ \A j \in DOMAIN signals : signals[i] = signals[j] /\ signals[i].by = "engine" => i = j
  /\ sent \subseteq Range(signals)
=============================================================================

------------------------------ MODULE RiskGuard ------------------------------
(***************************************************************************)
(* src/risk/guardrails.js, src/risk/state.js and routes/risk.js, with the  *)
(* entry pipeline of src/liveRunner.js that they guard.                    *)
(*                                                                         *)
(* runOnce visits every symbol and strategy.  For a signal it reads the    *)
(* account, records the day's baseline, applies the symbol settings, asks  *)
(* checkPreEntry, and sends an entry order, two protective orders and a    *)
(* row.  checkPreEntry may halt trading and arm a timer that resumes it;   *)
(* operators halt and resume by HTTP.  Each await lets the others in.      *)
(*                                                                         *)
(* An entry counts as one unit of exposure.  Prices, sizes and the other   *)
(* limits only decide whether a check refuses, so they are a free choice.  *)
(***************************************************************************)
EXTENDS Naturals, FiniteSets

CONSTANTS
  Runs,         \* slots for calls of runOnce under way at the same time
  Handlers,     \* slots for the halt and resume routes
  NSymbols,     \* symbols of the live configuration
  NStrategies,  \* strategies of the live configuration
  Configs,      \* values of risk_limits.config
  Equities,     \* values of totalWalletBalance
  Configured,   \* of leverage and position mode, what the live configuration sets
  MaxExposure,  \* maxExposurePctPerSymbol in units of one entry
  LossPct,      \* maxDailyLossPct and maxIntradayDrawdownPct
  MaxEntries,   \* bound: entries sent per symbol
  MaxDay,       \* bound: days
  Faults        \* what may go wrong: a subset of {"crash", "call"}

ASSUME RiskGuardAssumption ==
  /\ IsFiniteSet(Runs)
  /\ NSymbols \in Nat \ {0}
  /\ NStrategies \in Nat \ {0}
  /\ Configs \subseteq [sessions: BOOLEAN, complete: BOOLEAN, cooldown: BOOLEAN]
  /\ Equities \subseteq Nat \ {0}
  /\ Configured \subseteq {"leverage", "mode"}
  /\ MaxExposure \in Nat
  /\ LossPct \in Nat
  /\ MaxEntries \in Nat
  /\ MaxDay \in Nat

Symbols == 1..NSymbols
Entries == 1..MaxEntries
Parts   == {"entry", "sl", "tp", "row", "closed"}

VARIABLES
  config,     \* risk_limits.config
  riskRow,    \* risk_state has its row
  riskState,  \* risk_state.state, RUNNING when there is no row
  dayStart,   \* risk_state.day_start, 0 for NULL
  base,       \* risk_state.equity_day_start
  high,       \* risk_state.equity_day_high
  log,        \* the last action in risk_halts
  haltTimer,  \* the timer of guardrails.js; the code never nulls it
  auto,       \* where the timer's callback is
  handler,    \* where each halt or resume handler is
  today,      \* the calendar
  equity,     \* totalWalletBalance at the exchange
  parts,      \* what exists of each entry: orders at the exchange, the row
  sent,       \* entries sent per symbol
  settled,    \* leverage and position mode the exchange has accepted
  applied,    \* the Set of limits.js
  pc,         \* where each run is suspended
  cursor,     \* its symbol and strategy
  account,    \* the equity and exposure it has read
  mine,       \* the number of the entry it is placing
  cfg,        \* the config its check has loaded
  opening,    \* history: the first equity of the day given to ensureDayStart
  late        \* history: entries sent since the state became HALTED

rowVars   == <<riskRow, dayStart, base, high>>
haltVars  == <<riskState, log, late>>
timerVars == <<haltTimer, auto>>
tradeVars == <<parts, sent>>
setVars   == <<settled, applied>>
runVars   == <<pc, cursor, account, mine, cfg>>
worldVars == <<today, equity, opening>>
vars == <<config, rowVars, haltVars, timerVars, handler, tradeVars, setVars,
          runVars, worldVars>>

FirstItem == <<1, 1>>
NoAccount == [equity |-> 0, exposure |-> 0]

Init ==
  /\ config \in Configs
  /\ riskRow = FALSE
  /\ riskState = "RUNNING"
  /\ dayStart = 0 /\ base = 0 /\ high = 0
  /\ log = "none"
  /\ haltTimer = "none"
  /\ auto = "idle"
  /\ handler = [h \in Handlers |-> "idle"]
  /\ today = 1
  /\ equity \in Equities
  /\ parts = [s \in Symbols |-> [e \in Entries |-> {}]]
  /\ sent = [s \in Symbols |-> 0]
  /\ settled = [s \in Symbols |-> {}]
  /\ applied = {}
  /\ pc = [r \in Runs |-> "idle"]
  /\ cursor = [r \in Runs |-> FirstItem]
  /\ account = [r \in Runs |-> NoAccount]
  /\ mine = [r \in Runs |-> 0]
  /\ cfg \in [Runs -> {config}]
  /\ opening = 0
  /\ late = 0

-----------------------------------------------------------------------------
(* The exchange and the calendar.                                           *)

OpenEntries(s) ==
  {e \in Entries : "entry" \in parts[s][e] /\ "closed" \notin parts[s][e]}

Exposure(s) == Cardinality(OpenEntries(s))

Market ==
  /\ equity' \in Equities \ {equity}
  /\ UNCHANGED <<config, rowVars, haltVars, timerVars, handler, tradeVars,
                 setVars, runVars, today, opening>>

ClosePosition(s) ==
  /\ OpenEntries(s) # {}
  /\ parts' = [parts EXCEPT ![s] = [e \in Entries |->
                 IF e \in OpenEntries(s) THEN @[e] \cup {"closed"} ELSE @[e]]]
  /\ UNCHANGED <<config, rowVars, haltVars, timerVars, handler, sent, setVars,
                 runVars, worldVars>>

NextDay ==
  /\ today < MaxDay
  /\ today' = today + 1
  /\ opening' = 0
  /\ UNCHANGED <<config, rowVars, haltVars, timerVars, handler, tradeVars,
                 setVars, runVars, equity>>

-----------------------------------------------------------------------------
(* setState creates the row when there is none.                             *)
SetState(s) ==
  /\ riskState' = s
  /\ riskRow' = TRUE
  /\ late' = IF s = "RUNNING" THEN 0 ELSE late
  /\ UNCHANGED <<dayStart, base, high>>

(* The handlers of routes/risk.js.                                          *)
PutConfig ==
  /\ config' \in Configs
  /\ UNCHANGED <<rowVars, haltVars, timerVars, handler, tradeVars, setVars,
                 runVars, worldVars>>

PostSet(h, s, place) ==
  /\ handler[h] = "idle"
  /\ SetState(s)
  /\ handler' = [handler EXCEPT ![h] = place]
  /\ UNCHANGED <<config, log, timerVars, tradeVars, setVars, runVars, worldVars>>

PostHalt(h)   == PostSet(h, "HALTED", "HALT")
PostResume(h) == PostSet(h, "RUNNING", "RESUME")

PostLog(h) ==
  /\ handler[h] # "idle"
  /\ log' = handler[h]
  /\ handler' = [handler EXCEPT ![h] = "idle"]
  /\ UNCHANGED <<config, rowVars, riskState, late, timerVars, tradeVars,
                 setVars, runVars, worldVars>>

(* The callback of the halt timer: one callback at a time.                  *)
TimerFires ==
  /\ haltTimer = "armed"
  /\ auto = "idle"
  /\ haltTimer' = "fired"
  /\ auto' = "set"
  /\ UNCHANGED <<config, rowVars, haltVars, handler, tradeVars, setVars,
                 runVars, worldVars>>

AutoResume ==
  /\ auto = "set"
  /\ auto' = "log"
  /\ SetState("RUNNING")
  /\ UNCHANGED <<config, log, haltTimer, handler, tradeVars, setVars, runVars,
                 worldVars>>

AutoLog ==
  /\ auto = "log"
  /\ auto' = "idle"
  /\ log' = "RESUME"
  /\ UNCHANGED <<config, rowVars, riskState, late, haltTimer, handler,
                 tradeVars, setVars, runVars, worldVars>>

(* scheduleResume: clear the old timer, arm a new one if there is a         *)
(* cooldown.  A fired timer is as good as none.                             *)
Rearmed_Once(c) ==
  IF haltTimer # "none" THEN haltTimer ELSE IF c.cooldown THEN "armed" ELSE "none"

Rearmed(c) ==
  IF c.cooldown THEN "armed"
  ELSE IF haltTimer = "armed" THEN "fired" ELSE haltTimer

-----------------------------------------------------------------------------
(* runOnce.                                                                 *)

Sym(r) == cursor[r][1]

Goto(r, place) == pc' = [pc EXCEPT ![r] = place]

At(r, from, to) ==
  pc[r] = from /\ Goto(r, to) /\ UNCHANGED <<cursor, account, mine, cfg>>

(* runOnce returns or rejects, and its locals are gone.                     *)
Return(r) ==
  /\ Goto(r, "idle")
  /\ cursor' = [cursor EXCEPT ![r] = FirstItem]
  /\ account' = [account EXCEPT ![r] = NoAccount]
  /\ mine' = [mine EXCEPT ![r] = 0]
  /\ UNCHANGED cfg

Begin(r) ==
  /\ At(r, "idle", "item")
  /\ UNCHANGED <<config, rowVars, haltVars, timerVars, handler, tradeVars,
                 setVars, worldVars>>

(* On to an item, or out of the loops after the last symbol.                *)
MoveTo(r, item) ==
  IF item[1] \in Symbols
    THEN /\ cursor' = [cursor EXCEPT ![r] = item]
         /\ Goto(r, "item")
         /\ account' = [account EXCEPT ![r] = NoAccount]
         /\ mine' = [mine EXCEPT ![r] = 0]
         /\ UNCHANGED cfg
    ELSE Return(r)

NextSymbol(r) == MoveTo(r, <<Sym(r) + 1, 1>>)

NextItem(r) ==
  IF cursor[r][2] < NStrategies
    THEN MoveTo(r, <<Sym(r), cursor[r][2] + 1>>) ELSE NextSymbol(r)

NoSignal(r) ==
  /\ pc[r] = "item"
  /\ NextItem(r)
  /\ UNCHANGED <<config, rowVars, haltVars, timerVars, handler, tradeVars,
                 setVars, worldVars>>

ReadAccount(r) ==
  /\ pc[r] = "item"
  /\ Goto(r, "day")
  /\ account' = [account EXCEPT ![r] =
                   [equity |-> equity, exposure |-> Exposure(Sym(r))]]
  /\ UNCHANGED <<config, rowVars, haltVars, timerVars, handler, tradeVars,
                 setVars, cursor, mine, cfg, worldVars>>

(* ensureDayStart.  pg returns a DATE as a Date object, and the comparison  *)
(* is with the string of todayStr.                                          *)
ReadBack(d) == <<"Date", d>>

DayPlace(e) ==
  CASE ~riskRow -> "dayInsert"
    [] riskRow /\ ReadBack(dayStart) # <<"string", today>> -> "dayReset"
    [] riskRow /\ ReadBack(dayStart) = <<"string", today>> ->
         IF e > high THEN "dayHigh" ELSE "settings"

DayRead(r) ==
  /\ At(r, "day", DayPlace(account[r].equity))
  /\ opening' = IF opening = 0 THEN account[r].equity ELSE opening
  /\ UNCHANGED <<config, rowVars, haltVars, timerVars, handler, tradeVars,
                 setVars, today, equity>>

DayInsert(r) ==
  /\ ~riskRow
  /\ At(r, "dayInsert", "settings")
  /\ riskRow' = TRUE
  /\ dayStart' = today
  /\ base' = account[r].equity
  /\ high' = account[r].equity
  /\ UNCHANGED <<config, haltVars, timerVars, handler, tradeVars, setVars,
                 worldVars>>

(* Somebody else has inserted the row: a duplicate key, and runOnce rejects.*)
DayInsertConflict(r) ==
  /\ riskRow
  /\ pc[r] = "dayInsert"
  /\ Return(r)
  /\ UNCHANGED <<config, rowVars, haltVars, timerVars, handler, tradeVars,
                 setVars, worldVars>>

DayUpdate(r) ==
  /\ \E place \in {"dayReset", "dayHigh"} : At(r, place, "settings")
  /\ high' = account[r].equity
  /\ IF pc[r] = "dayReset"
       THEN dayStart' = today /\ base' = account[r].equity
       ELSE UNCHANGED <<dayStart, base>>
  /\ UNCHANGED <<config, riskRow, haltVars, timerVars, handler, tradeVars,
                 setVars, worldVars>>

(* ensureSymbolSettings: the call of a setting that is not configured is    *)
(* skipped, and the symbol counts as done after both.                       *)
SetLeverage(r) ==
  /\ Sym(r) \notin applied
  /\ At(r, "settings", "mode")
  /\ settled' = [settled EXCEPT ![Sym(r)] = @ \cup ({"leverage"} \cap Configured)]
  /\ UNCHANGED <<config, rowVars, haltVars, timerVars, handler, tradeVars,
                 applied, worldVars>>

SetMode(r) ==
  /\ At(r, "mode", "config")
  /\ settled' = [settled EXCEPT ![Sym(r)] = @ \cup ({"mode"} \cap Configured)]
  /\ applied' = applied \cup {Sym(r)}
  /\ UNCHANGED <<config, rowVars, haltVars, timerVars, handler, tradeVars,
                 worldVars>>

SettingsDone(r) ==
  /\ Sym(r) \in applied
  /\ At(r, "settings", "config")
  /\ UNCHANGED <<config, rowVars, haltVars, timerVars, handler, tradeVars,
                 setVars, worldVars>>

-----------------------------------------------------------------------------
(* checkPreEntry.                                                           *)

LoadConfig(r) ==
  /\ pc[r] = "config"
  /\ Goto(r, "look")
  /\ cfg' = [cfg EXCEPT ![r] = config]
  /\ UNCHANGED <<config, rowVars, haltVars, timerVars, handler, tradeVars,
                 setVars, cursor, account, mine, worldVars>>

(* getLocalTime passes weekday: 'numeric', a RangeError, so a config with   *)
(* sessions throws; one without its arrays is a TypeError.                  *)
Throws(c) == c.sessions \/ ~c.complete

Fell(e, from) == from > 0 /\ (from - e) * 100 >= LossPct * from

LossHit(r) == \/ Fell(account[r].equity, base)
              \/ Fell(account[r].equity, high)

(* The state has been read, and the rest of the check does not await.       *)
Verdict(r) ==
  /\ pc[r] = "look"
  /\ UNCHANGED <<config, rowVars, haltVars, timerVars, handler, tradeVars,
                 setVars, worldVars>>

Proceeds_NotHalted(r) == ~Throws(cfg[r])
Proceeds(r) == riskState # "HALTED" /\ ~Throws(cfg[r])

IsHalted(r) == Verdict(r) /\ riskState = "HALTED" /\ NextSymbol(r)

CheckThrows(r) ==
  Verdict(r) /\ riskState # "HALTED" /\ Throws(cfg[r]) /\ Return(r)

(* A symbol, side, risk or position limit, a size of zero, or the exposure. *)
Refused(r) == Verdict(r) /\ Proceeds(r) /\ NextItem(r)

WithinExposure_Off(r) == account[r].exposure <= MaxExposure + 1
WithinExposure(r) == account[r].exposure <= MaxExposure

(* A volatility spike may come at any time.                                 *)
TripsBreaker(r) ==
  Verdict(r) /\ Proceeds(r) /\ WithinExposure(r) /\ At(r, "look", "haltSet")

Passes(r) ==
  /\ Verdict(r)
  /\ Proceeds(r)
  /\ WithinExposure(r)
  /\ ~LossHit(r)
  /\ At(r, "look", "entry")

HaltSet(r) ==
  /\ At(r, "haltSet", "haltLog")
  /\ SetState("HALTED")
  /\ UNCHANGED <<config, log, timerVars, handler, tradeVars, setVars, worldVars>>

HaltLog(r) ==
  /\ pc[r] = "haltLog"
  /\ log' = "HALT"
  /\ haltTimer' = Rearmed(cfg[r])
  /\ NextSymbol(r)
  /\ UNCHANGED <<config, rowVars, riskState, late, auto, handler, tradeVars,
                 setVars, worldVars>>

-----------------------------------------------------------------------------
(* The orders, each its own call.  MaxEntries bounds the entries.           *)

NewEntry(s) ==
  /\ sent[s] < MaxEntries
  /\ sent' = [sent EXCEPT ![s] = @ + 1]
  /\ parts' = [parts EXCEPT ![s][sent[s] + 1] = {"entry"}]
  /\ late' = IF riskState = "HALTED" THEN late + 1 ELSE late

SendEntry(r) ==
  /\ pc[r] = "entry"
  /\ NewEntry(Sym(r))
  /\ mine' = [mine EXCEPT ![r] = sent[Sym(r)] + 1]
  /\ Goto(r, "sl")
  /\ UNCHANGED <<config, rowVars, riskState, log, timerVars, handler, setVars,
                 cursor, account, cfg, worldVars>>

Add(r, part) ==
  /\ parts' = [parts EXCEPT ![Sym(r)][mine[r]] = @ \cup {part}]
  /\ UNCHANGED <<config, rowVars, haltVars, timerVars, handler, sent, setVars,
                 worldVars>>

SendStop(r) == At(r, "sl", "tp") /\ Add(r, "sl")

SendTarget_RowFirst(r) == At(r, "tp", "row") /\ Add(r, "row")
SendTarget(r) == At(r, "tp", "row") /\ Add(r, "tp")

InsertRow(r) == pc[r] = "row" /\ NextItem(r) /\ Add(r, "row")

-----------------------------------------------------------------------------
(* What goes wrong.                                                         *)

(* An order call or the INSERT is rejected and caught; an entry order whose *)
(* answer was lost is there all the same.                                   *)
OrderFails(r) ==
  /\ "call" \in Faults
  /\ pc[r] \in {"entry", "sl", "tp", "row"}
  /\ NextItem(r)
  /\ \/ UNCHANGED <<tradeVars, late>>
     \/ pc[r] = "entry" /\ NewEntry(Sym(r))
  /\ UNCHANGED <<config, rowVars, riskState, log, timerVars, handler, setVars,
                 worldVars>>

(* Any other await of runOnce rejects, and runOnce with it.                 *)
RunFails(r) ==
  /\ "call" \in Faults
  /\ pc[r] \notin {"idle", "entry", "sl", "tp", "row"}
  /\ Return(r)
  /\ UNCHANGED <<config, rowVars, haltVars, timerVars, handler, tradeVars,
                 setVars, worldVars>>

(* The process dies and a new one starts: tables and exchange stay.         *)
CrashRestart ==
  /\ "crash" \in Faults
  /\ haltTimer' = "none"
  /\ auto' = "idle"
  /\ handler' = [h \in Handlers |-> "idle"]
  /\ applied' = {}
  /\ pc' = [r \in Runs |-> "idle"]
  /\ cursor' = [r \in Runs |-> FirstItem]
  /\ account' = [r \in Runs |-> NoAccount]
  /\ mine' = [r \in Runs |-> 0]
  /\ UNCHANGED <<config, rowVars, haltVars, tradeVars, settled, cfg, worldVars>>

-----------------------------------------------------------------------------
Check(r) ==
  \/ LoadConfig(r) \/ IsHalted(r) \/ CheckThrows(r) \/ Refused(r)
  \/ TripsBreaker(r) \/ Passes(r) \/ HaltSet(r) \/ HaltLog(r)

Advance(r) ==
  \/ NoSignal(r) \/ ReadAccount(r) \/ DayRead(r) \/ DayInsert(r)
  \/ DayInsertConflict(r) \/ DayUpdate(r) \/ SetLeverage(r) \/ SetMode(r)
  \/ SettingsDone(r) \/ Check(r)
  \/ SendEntry(r) \/ SendStop(r) \/ SendTarget(r) \/ InsertRow(r)

Resume == TimerFires \/ AutoResume \/ AutoLog

Next ==
  \/ Market \/ NextDay \/ PutConfig \/ Resume \/ CrashRestart
  \/ \E s \in Symbols : ClosePosition(s)
  \/ \E h \in Handlers : PostHalt(h) \/ PostResume(h) \/ PostLog(h)
  \/ \E r \in Runs : Begin(r) \/ Advance(r) \/ OrderFails(r) \/ RunFails(r)

Spec == Init /\ [][Next]_vars

(* Timers fire, and awaited calls are answered.                             *)
Fairness ==
  /\ WF_vars(Resume)
  /\ \A r \in Runs : WF_vars(Advance(r))

FairSpec == Spec /\ Fairness

-----------------------------------------------------------------------------
(* Types of the variables.                                                  *)
Places == {"idle", "item", "day", "dayInsert", "dayReset", "dayHigh",
           "settings", "mode", "config", "look", "haltSet", "haltLog",
           "entry", "sl", "tp", "row"}

TypeOK ==
  /\ config \in Configs
  /\ riskRow \in BOOLEAN
  /\ riskState \in {"RUNNING", "HALTED"}
  /\ dayStart \in Nat /\ base \in Nat /\ high \in Nat
  /\ log \in {"none", "HALT", "RESUME"}
  /\ haltTimer \in {"none", "armed", "fired"}
  /\ auto \in {"idle", "set", "log"}
  /\ handler \in [Handlers -> {"idle", "HALT", "RESUME"}]
  /\ today \in Nat
  /\ equity \in Equities
  /\ parts \in [Symbols -> [Entries -> SUBSET Parts]]
  /\ sent \in [Symbols -> 0..MaxEntries]
  /\ settled \in [Symbols -> SUBSET Configured]
  /\ applied \subseteq Symbols
  /\ pc \in [Runs -> Places]
  /\ cursor \in [Runs -> Symbols \X (1..NStrategies)]
  /\ account \in [Runs -> [equity: Nat, exposure: Nat]]
  /\ mine \in [Runs -> Nat]
  /\ cfg \in [Runs -> Configs]
  /\ opening \in Nat
  /\ late \in Nat

Entering == {r \in Runs : pc[r] = "entry"}

(* After a halt at most one more entry per run under way is sent: the check *)
(* that let it through had read the state before the halt (checkPreEntry).  *)
LateEntriesBounded == late <= Cardinality(Runs)

(* Overlapping runs exceed the exposure limit of a symbol by no more than   *)
(* one entry each (the exposure is of the account read before the check).   *)
ExposureBounded ==
  \A s \in Symbols : Exposure(s) <= MaxExposure + Cardinality(Runs)

(* A trade in the table has its entry and both protective orders; whichever *)
(* call fails, the error is on the side of a missing row (runOnce).         *)
RowMeansProtected ==
  \A s \in Symbols, e \in Entries :
    "row" \in parts[s][e] => {"entry", "sl", "tp"} \subseteq parts[s][e]

(* No entry for a symbol before the exchange has accepted what is configured *)
(* of leverage and position mode, though either call may fail.              *)
SettingsBeforeEntry ==
  \A s \in Symbols : sent[s] > 0 => settled[s] = Configured

(* Without crashes and failing calls, and with a cooldown, a halt of the    *)
(* guardrails ends, however halts, timers and operators overlap.            *)
GuardHalt == riskState = "HALTED" /\ \E r \in Runs : pc[r] = "haltLog"
HaltEnds == GuardHalt ~> riskState = "RUNNING"

(* guardrails.js:111, "Daily loss / drawdown": no entry is let through once *)
(* the equity is the limit below the day's opening equity.                  *)
DailyLossStops ==
  \A r \in Runs : pc[r] = "entry" => ~Fell(account[r].equity, opening)
=============================================================================

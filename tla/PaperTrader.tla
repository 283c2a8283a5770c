----------------------------- MODULE PaperTrader -----------------------------
(***************************************************************************)
(* src/live.js: the paper trader and its start, stop and reset handlers.   *)
(*                                                                         *)
(* A 60 s interval calls step, which reads the running flag, the candles   *)
(* and the open positions, trades on the last signal, and then applies the *)
(* stops.  Every arrow of that chain is an await (a query or a Telegram    *)
(* alert without a timeout), so a handler, or the next step, may come in   *)
(* between.  A price is abstracted to what it decides: the last signal and *)
(* whether a stop is hit.                                                  *)
(***************************************************************************)
EXTENDS Naturals, FiniteSets

CONSTANTS
  Steps,          \* slots for calls of step under way at the same time
  Handlers,       \* slots for HTTP handlers under way at the same time
  MaxInserts,     \* bound: rows ever inserted into paper_trades
  MaxOpenTrades,  \* maxOpenTrades of params.json
  Faults          \* what may go wrong: a subset of {"crash", "db"}

ASSUME PaperTraderAssumption ==
  /\ IsFiniteSet(Steps)
  /\ MaxInserts \in Nat
  /\ MaxOpenTrades \in Nat \ {0}

Ids == 1..MaxInserts

VARIABLES
  running,   \* paper_state.running
  trade,     \* status of each row of paper_trades
  exits,     \* history: how often closePosition has written a row
  nextId,    \* next value of the id sequence
  timer,     \* loopTimer is armed
  boot,      \* where startBackground is
  pc,        \* where each step is suspended
  signal,    \* the last signal a step has computed
  seen,      \* the open positions a step has read and not yet handled
  handler    \* where each HTTP handler is suspended

bookVars == <<trade, exits, nextId>>
stepVars == <<pc, signal, seen>>
vars == <<running, bookVars, timer, boot, stepVars, handler>>

Signals == {"BUY", "SELL", "NONE"}
Open == {p \in Ids : trade[p] = "OPEN"}

(* paper_state may say running from an earlier life of the process.         *)
Init ==
  /\ running \in BOOLEAN
  /\ trade = [p \in Ids |-> "none"]
  /\ exits = [p \in Ids |-> 0]
  /\ nextId = 1
  /\ timer = FALSE
  /\ boot = "reading"
  /\ pc = [s \in Steps |-> "idle"]
  /\ signal = [s \in Steps |-> "NONE"]
  /\ seen = [s \in Steps |-> {}]
  /\ handler = [h \in Handlers |-> "idle"]

-----------------------------------------------------------------------------
(* startBackground, once per process.                                       *)

BootRead_NoResume ==
  /\ boot = "reading"
  /\ boot' = "done"
  /\ UNCHANGED <<running, bookVars, timer, stepVars, handler>>

BootRead ==
  /\ boot = "reading"
  /\ boot' = IF running THEN "sawRunning" ELSE "done"
  /\ UNCHANGED <<running, bookVars, timer, stepVars, handler>>

BootArm ==
  /\ boot = "sawRunning"
  /\ timer' = TRUE
  /\ boot' = "done"
  /\ UNCHANGED <<running, bookVars, stepVars, handler>>

(* The catch block: "init query failed (non-fatal)".                        *)
BootFails ==
  /\ "db" \in Faults
  /\ boot = "reading"
  /\ boot' = "done"
  /\ UNCHANGED <<running, bookVars, timer, stepVars, handler>>

-----------------------------------------------------------------------------
(* startLive, stopLive, resetLive: first the database, then the timer.      *)

At(h, from, to) ==
  /\ handler[h] = from
  /\ handler' = [handler EXCEPT ![h] = to]

StartUpdate(h) ==
  /\ At(h, "idle", "arm")
  /\ running' = TRUE
  /\ UNCHANGED <<bookVars, timer, boot, stepVars>>

StartArm(h) ==
  /\ At(h, "arm", "idle")
  /\ timer' = TRUE
  /\ UNCHANGED <<running, bookVars, boot, stepVars>>

StopUpdate(h) ==
  /\ At(h, "idle", "disarm")
  /\ running' = FALSE
  /\ UNCHANGED <<bookVars, timer, boot, stepVars>>

(* One transaction: DELETE FROM paper_trades and running = FALSE.           *)
ResetCommit(h) ==
  /\ At(h, "idle", "disarm")
  /\ running' = FALSE
  /\ trade' = [p \in Ids |-> IF trade[p] = "none" THEN "none" ELSE "deleted"]
  /\ UNCHANGED <<exits, nextId, timer, boot, stepVars>>

Disarm(h) ==
  /\ At(h, "disarm", "idle")
  /\ timer' = FALSE
  /\ UNCHANGED <<running, bookVars, boot, stepVars>>

-----------------------------------------------------------------------------
(* step.                                                                    *)

Goto(s, place) == pc' = [pc EXCEPT ![s] = place]

(* The interval fires whatever became of the previous call.                 *)
Fire(s) ==
  /\ timer
  /\ pc[s] = "idle"
  /\ Goto(s, "state")
  /\ UNCHANGED <<running, bookVars, timer, boot, signal, seen, handler>>

CheckRunning_Skipped(s) ==
  /\ pc[s] = "state"
  /\ Goto(s, "positions")
  /\ UNCHANGED <<running, bookVars, timer, boot, signal, seen, handler>>

CheckRunning(s) ==
  /\ pc[s] = "state"
  /\ Goto(s, IF running THEN "positions" ELSE "idle")
  /\ UNCHANGED <<running, bookVars, timer, boot, signal, seen, handler>>

TooFewCandles(s) ==
  /\ pc[s] = "positions"
  /\ Goto(s, "idle")
  /\ UNCHANGED <<running, bookVars, timer, boot, signal, seen, handler>>

(* generateSignals over the candles, then getOpenPositions.                 *)
Snapshot(s, sig) ==
  /\ pc[s] = "positions"
  /\ signal' = [signal EXCEPT ![s] = sig]
  /\ seen' = [seen EXCEPT ![s] = Open]
  /\ Goto(s, "trade")
  /\ UNCHANGED <<running, bookVars, timer, boot, handler>>

(* The limit is compared with the snapshot.                                 *)
MayBuy_OffByOne(s) == signal[s] = "BUY" /\ Cardinality(seen[s]) <= MaxOpenTrades

MayBuy(s) == signal[s] = "BUY" /\ Cardinality(seen[s]) < MaxOpenTrades

MaySell(s) == signal[s] = "SELL" /\ seen[s] # {}

(* openPosition.  MaxInserts bounds the id sequence.                        *)
Buy(s) ==
  /\ pc[s] = "trade"
  /\ MayBuy(s)
  /\ nextId \in Ids
  /\ trade' = [trade EXCEPT ![nextId] = "OPEN"]
  /\ nextId' = nextId + 1
  /\ Goto(s, "stops")
  /\ UNCHANGED <<running, exits, timer, boot, signal, seen, handler>>

(* closePosition: UPDATE ... WHERE id alone, so a row that is closed        *)
(* already is written again; a deleted row is not there to be written.      *)
Close(p) ==
  IF trade[p] \in {"OPEN", "CLOSED"}
    THEN /\ trade' = [trade EXCEPT ![p] = "CLOSED"]
         /\ exits' = [exits EXCEPT ![p] = @ + 1]
    ELSE UNCHANGED <<trade, exits>>

(* ORDER BY ts ASC: rows are inserted in the order of their candles.        *)
Oldest(p, S) == p \in S /\ \A q \in S : p <= q

Sell(s) ==
  /\ pc[s] = "trade"
  /\ MaySell(s)
  /\ \E p \in Ids : Oldest(p, seen[s]) /\ Close(p)
  /\ Goto(s, "stops")
  /\ UNCHANGED <<running, nextId, timer, boot, signal, seen, handler>>

NoTrade(s) ==
  /\ pc[s] = "trade"
  /\ ~MayBuy(s) /\ ~MaySell(s)
  /\ Goto(s, "stops")
  /\ UNCHANGED <<running, bookVars, timer, boot, signal, seen, handler>>

(* applyRiskAndStops reads the open positions again ...                     *)
LoadStops_OldSnapshot(s) ==
  /\ pc[s] = "stops"
  /\ Goto(s, "loop")
  /\ UNCHANGED <<running, bookVars, timer, boot, signal, seen, handler>>

LoadStops(s) ==
  /\ pc[s] = "stops"
  /\ seen' = [seen EXCEPT ![s] = Open]
  /\ Goto(s, "loop")
  /\ UNCHANGED <<running, bookVars, timer, boot, signal, handler>>

(* ... and visits each one: take profit, stop loss or trailing stop close   *)
(* it, otherwise it stays (its trail_top may rise).                         *)
VisitStop(s, p) ==
  /\ pc[s] = "loop"
  /\ Oldest(p, seen[s])
  /\ Close(p) \/ UNCHANGED <<trade, exits>>
  /\ seen' = [seen EXCEPT ![s] = @ \ {p}]
  /\ UNCHANGED <<running, nextId, timer, boot, pc, signal, handler>>

StepDone(s) ==
  /\ pc[s] = "loop"
  /\ seen[s] = {}
  /\ Goto(s, "idle")
  /\ UNCHANGED <<running, bookVars, timer, boot, signal, seen, handler>>

-----------------------------------------------------------------------------
(* A rejected query of step or of a handler is not caught, which ends the   *)
(* Node process like any other crash; a new process boots on the same       *)
(* database.                                                                *)
CrashRestart ==
  /\ "crash" \in Faults
  /\ timer' = FALSE
  /\ boot' = "reading"
  /\ pc' = [s \in Steps |-> "idle"]
  /\ signal' = [s \in Steps |-> "NONE"]
  /\ seen' = [s \in Steps |-> {}]
  /\ handler' = [h \in Handlers |-> "idle"]
  /\ UNCHANGED <<running, bookVars>>

Boot == BootRead \/ BootArm \/ BootFails

Handle(h) ==
  StartUpdate(h) \/ StartArm(h) \/ StopUpdate(h) \/ ResetCommit(h) \/ Disarm(h)

Advance(s) ==
  \/ CheckRunning(s) \/ TooFewCandles(s)
  \/ \E sig \in Signals : Snapshot(s, sig)
  \/ Buy(s) \/ Sell(s) \/ NoTrade(s) \/ LoadStops(s)
  \/ \E p \in Ids : VisitStop(s, p)
  \/ StepDone(s)

Next ==
  \/ Boot
  \/ \E h \in Handlers : Handle(h)
  \/ \E s \in Steps : Fire(s) \/ Advance(s)
  \/ CrashRestart

Spec == Init /\ [][Next]_vars

(* Queries are answered and the event loop runs what they resume: the boot  *)
(* sequence and a handler that has begun end.                               *)
Fairness ==
  /\ WF_vars(Boot)
  /\ \A h \in Handlers : WF_vars(StartArm(h) \/ Disarm(h))

FairSpec == Spec /\ Fairness

-----------------------------------------------------------------------------
(* Types of the variables.                                                  *)
TypeOK ==
  /\ running \in BOOLEAN
  /\ trade \in [Ids -> {"none", "OPEN", "CLOSED", "deleted"}]
  /\ exits \in [Ids -> Nat]
  /\ nextId \in Nat \ {0}
  /\ timer \in BOOLEAN
  /\ boot \in {"reading", "sawRunning", "done"}
  /\ pc \in [Steps -> {"idle", "state", "positions", "trade", "stops", "loop"}]
  /\ signal \in [Steps -> Signals]
  /\ seen \in [Steps -> SUBSET Ids]
  /\ handler \in [Handlers -> {"idle", "arm", "disarm"}]

(* Steps that have compared the limit and not yet inserted their row; each  *)
(* of them may add one to the open positions the limit has been compared to.*)
Buying == {s \in Steps : pc[s] = "trade" /\ MayBuy(s)}
RoomReserved ==
  Steps # {} => Cardinality(Open) + Cardinality(Buying) + 1
                  <= MaxOpenTrades + Cardinality(Steps)

(* Overlapping steps exceed maxOpenTrades by at most one position each, and *)
(* a step that runs alone never does (the check in step uses a snapshot).   *)
OpenTradesBounded ==
  Steps # {} => Cardinality(Open) + 1 <= MaxOpenTrades + Cardinality(Steps)

(* No more exits are written to one trade than steps can overlap: a step    *)
(* that runs alone writes exit_price and pnl once (the stops re-read the    *)
(* positions after the signal has been traded).                             *)
ExitsBounded == \A p \in Ids : exits[p] <= Cardinality(Steps)

(* Ids the sequence has not given out have no row.                          *)
IdsFresh == \A p \in Ids : p >= nextId => trade[p] = "none"

(* A closed trade never opens again and a deleted one never comes back,     *)
(* whichever step still has it in its snapshot.                             *)
BookOnlyMovesOn ==
  [][\A p \in Ids :
       /\ trade[p] = "CLOSED" => trade'[p] \in {"CLOSED", "deleted"}
       /\ trade[p] = "deleted" => trade'[p] = "deleted"]_vars

(* Once stopped or reset, and with no step past its look at running, the    *)
(* book does not change until the next start.                               *)
Quiet == ~running /\ \A s \in Steps : pc[s] \in {"idle", "state"}
StoppedIsQuiet ==
  [][Quiet => /\ Quiet' \/ running'
              /\ trade' = trade \/ \A p \in Ids : trade'[p] \in {"none", "deleted"}]_vars

(* When handlers come one at a time and the boot query works, a trader that *)
(* says running has its interval as soon as boot and handler have ended.    *)
ArmedWhileRunning ==
  running /\ boot = "done" /\ (\A h \in Handlers : handler[h] = "idle") => timer

(* While the boot query works, a trader whose row says running when the     *)
(* process boots, or that is started, gets its interval unless stopped      *)
(* (startBackground, startLive).                                            *)
ResumesWhenRunning == running ~> (timer \/ ~running)
=============================================================================

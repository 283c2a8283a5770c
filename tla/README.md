# Formal models of crypto-signals

The repository is one Node.js 20 process (`src/src/server.js`) on a PostgreSQL
database: HTTP routes, a paper trader, a job runner, a job worker, a live runner
with a risk guard, a Binance user-data stream, payment webhooks and read-only
analytics. Nothing runs in parallel inside the process, but every `await` is a
point where another handler, timer callback or socket event may run, several
processes may share the database, and each may die at any statement. That is
what the models are about: one action is the code between two awaits.

Contents: [parts of the system](#parts), [modules](#modules), [runs](#runs),
[fairness](#fairness), [proofs](#proofs), [divergences](#divergences),
[what is not modelled](#not-modelled), [plan](#plan).
`PROJECT.json` maps every definition to the lines it stands for.

<a id="parts"></a>
## 1. The parts of the system

Paths are relative to `src/src/` unless they begin with `scripts/` or `client/`
(which are `src/scripts/` and `src/client/`).

| part | state | operations | talks to |
|---|---|---|---|
| Job runner: `jobRunner.js`, job routes of `server.js`, `services/artifactsFS.js` | tables `jobs`, `job_artifacts`; `loopTimer`; the set `cancelRequested`; the pg pool | POST /jobs/backtest, POST /jobs/:id/cancel, `tick`, `claimNextJob`, `processJob`, `stop` | database on two connections at once (claim and status, artifact) |
| Job worker: `jobs/*` | the same tables; an `AbortController` and an interval per job | `loop`, `claimNextJob`, `runJob`, the runners, `markStatus` | other workers and `routes/jobs.js` through the table |
| Paper trader: `live.js` | `paper_state`, `paper_trades`; `loopTimer` | start, stop, reset, the boot query, `step` with its stops | Telegram (awaited, no timeout), strategy signals, the settings file |
| Risk guard: `risk/*`, `liveRunner.js`, `routes/risk.js` | `risk_limits`, `risk_state`, `risk_halts`; `haltTimer`; the set of symbols already set up | `runOnce`, `checkPreEntry`, `setHalt`, `scheduleResume`, `ensureDayStart`, the halt and resume routes | Binance: account, leverage, position mode, orders |
| User-data stream: `integrations/binance/userDataService.js` and the routes that call it | listen key, socket, two timers, backoff index | `start`, `stop`, `keepAlive`, `_reconnect`, socket events | Binance REST and WebSocket, SSE clients |
| Backtest: `backtest/*`, `strategies/*`, `engine/backtest.js`, `scripts/run-backtest.js` | none | indicators, the engine with its stop and costs, metrics, sidewaysReversal | parameter search, signal script, live engine |
| Parameter search: `scripts/walkforward.js`, `optimize.js`, `wf-summary.js` | three result files, `config/params.json` | folds, the grid, three writes one after another, a summary by a process of its own | the pages that load the files, the settings |
| Payments: `payments/stripe.js`, invitation route of `server.js` | `subscribers` | three webhook events, invitation | Stripe (delivers at least once, in any order), Telegram |
| Candle feed: `ingest.js`, `engine/live.js`, `data/binance.js`, `scripts/generate-signals.js` | `candles`, `signals`, the engine's buffer | paging ingest, backfill, history and stream of the engine, signals | Binance, Telegram |
| Settings: `live.js` (config), `config/*`, `routes/config.js` | `config/params.json`; `strategy_configs`, `strategy_presets`, the runner's `activeConfig` | read, validate, save, apply, presets | paper trader, live runner, `optimize.js --write-best` |
| Analytics: `services/analytics*`, `overlays*`, `liveEquity.js`, `reportHtml.js`, routes of `server.js`, `routes/portfolio.js` | equity files of jobs, `equity_snapshots`, closed trades | downsampling, statistics, deltas, CSV, alignment, history, attribution | analytics page, reports |
| Overlay panel: `client/public/assets/modules/analytics/*`, `routes/analytics.overlay.*.js` | the page's selection, chart and table; `overlay_sets`, `overlay_shares` | select, apply, clear, save, share, open a link | analytics routes |
| Sizing, equity stream, middleware, metrics, other pages, deployment | none of their own that anybody reads back | arithmetic, queries, formatting, wiring | |

What makes each part hard, and what it must keep:

* **Job runner.** A tick every 2 s may overlap the one before. It commits the
  claim, keeps its client while the job runs, and writes the artifact on a
  *second* client. It must not run a row twice, must not overwrite a final
  status, must not lose a client on any error path, must not wait for itself.
* **Job worker.** Several processes, a cancel interval whose answer may arrive
  when the job is over, statements that were carried out although their answer
  was lost. A success must have its artifacts, a cancellation must have been
  asked for, and the loop must be armed again however a turn of it ends.
* **Paper trader.** Steps overlap each other and the handlers, and work on
  snapshots. The limit of open trades and "one exit per trade" hold only up to
  the overlap; the interval must exist whenever the row says running.
* **Risk guard.** The state and the account are read several awaits before the
  order is sent; a halt has a cooldown timer that later halts and operators
  replace; orders, protective orders and the row are separate calls.
* **User-data stream.** start, stop, keepAlive and reconnect overlap, each with
  an await in it; a socket that closes schedules a reconnect whoever closed it.
* **Backtest.** Warm-up values, masks and seeds at the borders of windows; one
  algorithm written several times (engine, signal script, live engine), which
  must decide alike. No value may depend on a later candle.
* **Parameter search.** Windows that must not overlap, ties, scores that are not
  finite, a crash between the files the pages read together, two of which another
  script rewrites when somebody starts it.
* **Payments.** Events repeated and out of order, two deliveries at once, UPDATE
  then INSERT with an await between, on a table whose unique index refuses the second
  row of a subscription.
* **Candle feed.** Four writers of one table that know nothing of each other, each
  of a market of its own, with an await between what it fetches and what it writes, any
  of which may die. A row is keyed by its time alone and does not say of which market it is.
* **Settings.** Read, await, truncate, write on one file by several handlers and
  another process; save and read back on one row.
* **Analytics.** The same figures computed in several places for page, report,
  CSV and portfolio; reduction and alignment at short, empty and uneven curves.
* **Overlay panel.** Answers that arrive after later clicks; two requests that
  share one set at once; links that outlive what they point to.

The list of hazards in `PROJECT.json` gives the line of each and the properties
that would catch it going wrong.

<a id="modules"></a>
## 2. The modules

### JobLifecycle, JobRunner, JobStream, MCJobRunner, MCJobStream, JobRunnerProofs

`JobLifecycle` is what GET /jobs/:id promises to whoever polls it: a row is
inserted once, taken at most once, and its final status does not change. It
knows nothing of ticks, locks or clients. `JobRunner!FollowsLifecycle` is the
refinement: `status` is mapped to itself and every other step stutters.

`JobRunner`: `status`, `priority`, `created`, `artifacts` are the tables;
`rowLock` the lock that FOR UPDATE SKIP LOCKED takes and holds until COMMIT;
`free` and `queue` the pg pool with its first-come queue; `timer` the interval;
`pc`, `job`, `outcome` the suspended ticks; `cancelRequested` the module's Set,
whose members carry the JavaScript type they were stored with; `canceling` the
cancel handlers that await their UPDATE. Actions in the order of the code: `Tick`,
`Connected`, `ClaimNextJob` / `NothingQueued`, `Commit`, `Check`, `Candles`,
`SecondClient`, `InsertArtifact`, `Progress`, `Finish`; the failures `JobFails`
(seen by processJob's catch), `TickFails` (seen by tick's catch) and
`CrashRestart`; the routes `PostBacktest`, `RequestCancel`, `CancelUpdate`; `Stop`.

`JobStream` is the runner under requests that never stop. A table of jobs only grows; in
a finite model a row must be used again, and `Forget` takes out a finished one that no tick
and no handler has in hand (its artifact, its number in the Set and its place in the order
with it), so that `PostBacktest` can insert the next. Two rows then stand for an endless stream
of jobs, in any priorities, beside one that waits.

### JobWorker, MCJobWorker, JobWorkerProofs

`place` is where the loop of each process is, `job` its row, `step` how far its
runner is. `Look` and `Abort` are the two halves of the cancel interval: the
query and its late answer. `TryFails` and `MarkFails` let a statement fail with
or without having been carried out. `kind` and `Files` abstract the runners to
which artifacts they write in which order; a type without a runner is
`OtherType`. `asked` and `troubled` are history variables.

The worker does *not* implement `JobLifecycle` with the status of the table: the
cancel route marks a running row canceled, and the worker that still has it may
report a success over it. It does with the refinement mapping `Settled`: a row
that a worker has counts as running, any other as what the table says. So
`FollowsLifecycle` is exactly what a reader may rely on: once no worker has a row,
its final status is final; until then it is not.

### PaperTrader, MCPaperTrader, PaperTraderProofs

`running` and `trade` are the tables, `timer` the interval, `boot`, `pc` and
`handler` the places of the boot query, the steps and the HTTP handlers, `seen`
the open positions a step has read. A price is abstracted to what it decides:
the signal, and whether a stop is hit. `Close` is an UPDATE by id that looks at
no status, so a second step writes a second exit; `exits` counts them.

### RiskGuard, MCRiskGuard, RiskGuardProofs

`runOnce` is a cursor over symbols and strategies, one action per await. `parts`
says what exists of each entry (order, stop, target, row, and whether the
position has been closed); `settled` what the exchange has accepted for a
symbol and `applied` what the program believes. `haltTimer` is the timer that
scheduleResume arms, `auto` its callback. `Throws` is the exception that the
check raises with configured sessions. `late` counts the entries sent since the
last halt; `opening` is the first equity of the day. Prices, sizes and most
limits only decide whether the check refuses, so `Refused` is a free choice;
exposure and the daily loss are modelled because properties are about them. One
entry is one unit of exposure.

### UserStream, MCUserStream, UserStreamProofs

`key`, `ws`, `keepTimer`, `recTimer`, `backoff` are the fields of the service;
`sock` the state of each socket, open or being closed; `call` the awaits of the
calls under way. The value of the key and the messages are abstracted away. The
socket's handlers stay registered when `stop` closes it, so `Closed` schedules a
reconnect in every case, as the code does.

### Services and its seven parts, DataFolds, MCServices, and three proof modules

`Backtest`, `WalkForward`, `Subscribers`, `CandleFeed`, `Settings`, `Analytics` and
`OverlayPanel` each model one service: variables, an `InitX`, a `NextX` and an
`XSpec`. They share no variable and no name.
`Services` composes them side by side. The variable `focus` picks the part that
takes the steps of a behaviour while the others rest: as no action of one reads a
variable of another, every part shows the same behaviours as in a free
interleaving, and the state spaces add instead of multiplying.
`ServicesProofs!PartsBehave` proves that the composition adds no behaviour to a
part, so what is proved of a part holds in the whole.

* **Backtest**: the state is `series`, the candles so far; a step appends one. All
  else are functions of it, written after the loops of the source with its
  null, NaN and 0: `RSI`, `ATR`, `EMA`, `ADX` (with its nulls, its skipped warm-up
  and its NaN), `Mask`, `Engine` with `OnBar`, `ComputeMetrics`, the figures of
  run-backtest, `SignalAtEnd` of generate-signals, and `Evaluate`, `SidewaysRun` of
  the other engine. Prices are small integers, averages hundredths.
* **WalkForward**: `cur` moves over the range; `Fold` chooses a score for every
  combination and a pnl; `WriteCsv`, `WriteAgg`, `WriteJson` are the three writes,
  `Crash` may fall between them or in one, which leaves that file empty; `Rerun`
  starts again on what is there. `wf-summary.js` is a process of its own: `SummaryRead` reads the
  rows, `SummaryJson` and `SummaryAgg` write the two files of the rows it read, and it may die at
  each (`SummaryDies`), with any steps of walkforward.js in between. A file carries the run
  whose rows it tells of. `Optimize` is the search of optimize.js with its
  rounding and its stable sort; with a score that is not finite its comparator gives NaN, and
  any order is taken. `published`, `crossed` and `alone` are history.
* **Subscribers**: `Raise` is Stripe, `Deliver` a webhook request, which `Retrieve`,
  `InsertCheckout`, `Update`, `InsertUpdate` take await by await. A delivery may come
  again after it was handled, also when a statement failed (`DbError`: the event is
  acknowledged all the same). `InsertRow` has the unique index of
  `storage/migrations/2025-08-22-migration.sql:49`: a second row of a subscription is refused
  like any failing statement. `newest`, `late` and `lost` are history variables: what was written
  last, whether something was written after a later event, and which events a failing or refused
  statement lost.
* **CandleFeed**: time runs in ticks; `Step[m]` of them make a candle of market m, a symbol
  with an interval. `IngestMarket` is that of params.json, `EngineMarket` that of the
  environment, `FillMarket` that of the backfill's arguments; they may be the same or not.
  `candles` maps a time to the market whose prices the row has, that of whoever wrote it last.
  `ingest`, `fill`, `engine` and `script` are where the writers are; `flying` are the
  upserts that the engine's stream has under way, since `onCandle` is not awaited. `wrote` (every
  candle of a market ever written) and `edges` (those whose writer never asked for the one
  before) are history variables.
* **Settings**: `file` is params.json, `OpenFile` and `WriteFile` the truncation and the
  write of `fs.writeFile`; `stored` the row, `runner` the configuration in memory.
  `held` and `applied` remember what a request that ran alone has set.
* **Analytics**: `files`, `live` and `book` only grow; what the services, routes,
  page and report compute of them are operators (`Lttb` with `FirstIn`, `LastIn` and
  `PickPoint` of a bucket, `Simplify` with `Farthest` and `Splits`, `CalcMaxDD`,
  `GetAnalytics`, `GetReport`, `OverlaysCsv`, `LiveHistory`, `AlignAndRebase` ...).
  Distances are compared as squares times the length of the segment, areas times the
  size of the bucket, which needs no fractions; a quotient of two values is in
  thousandths. `HistoryLimit` and `AnalyticsLimit` are the LIMITs of the two lists of trades
  (`server.js:383`, `479` and `665`). The value that a curve is rebased to is counted in units in which every
  rebased value is whole (`AnalyticsAssumption`): the source divides floating-point
  numbers, and a rounding there would be the model's, not the code's.
* **OverlayPanel**: `selected`, `controls`, `chart`, `stats` are the page, `flights` the
  requests, answered in any order or not at all: `landed` is the place of the answer in the order
  of arrival, which `answers` counts, and `cleared` remembers how many had come when the panel
  was cleared. A live baseline may be empty (`Base`), at which `render` throws. `sets`,
  `shares`, `sharing`, `links` are the tables, the share requests under way and what was given
  out.

`DataFolds` has the sum and the selection that several parts use, as recursive
functions, which the prover can unfold (the folds and `SelectSeq` of the libraries it
cannot). `AlgorithmProofs` holds what is true of these and of least and greatest
elements, and the proofs of the backtest and of the search; `AnalyticsProofs` those of the
analytics, `ServicesProofs` those of payments, candles, settings and panel, and of the whole.

<a id="runs"></a>
## 3. The runs

| run | cfg | distinct states | shows |
|---|---|---|---|
| jobs_safety | MCJobRunner_safety | 47,908 (symmetry) | two ticks, two rows, two clients, with crashes, failing statements and stop() |
| jobs_liveness | MCJobStream | 46,708 | jobs keep arriving; three clients, no failing statements: everything claimed ends, no deadlock on the pool, a queued job leaves unless higher priorities never stop coming |
| jobs_cancel | MCJobRunner_cancel | stops at the violation | a cancel of a running job is not seen |
| worker | MCJobWorker | 28,896 | two workers, two rows, cancel route, crashes and lost answers: safety, liveness and the refinement |
| paper_overlap | MCPaperTrader_overlap | 3,364,185 (symmetry) | two steps and two handlers that overlap, three rows, crashes |
| paper_serial | MCPaperTrader_serial | 17,805 | one step and one handler at a time: limits are exact, the interval exists whenever running |
| risk_entries | MCRiskGuard_entries | 3,592,162 (symmetry) | two overlapping runs, two strategies, three entries, failing calls, crashes |
| risk_operators | MCRiskGuard_operators | 588,640 | one run, an operator who halts, resumes and changes the configuration, two days |
| risk_daily | MCRiskGuard_daily | stops at the violation | the daily baseline moves with the equity |
| stream | MCUserStream | 28,332 | two calls and two sockets in flight |
| stream_stop | MCUserStream_stop | stops at the violation | a socket is opened after stop |
| services | MCServices | 1,670,997 | the seven services side by side, each through all states of its own instance |

**What the properties say.**

* Jobs: `ClaimExclusive` (two ticks or workers never have one row),
  `ArtifactBeforeSuccess` and `SuccessHasArtifacts`, `NoPoolDeadlock`,
  `FollowsLifecycle` (the refinement, of the runner and of the worker), and the
  liveness properties `EveryClaimedJobEnds`, `WorkEnds` and `EveryQueuedJobLeaves`: a queued
  row is taken or canceled, or the interval is stopped, or rows of a strictly higher priority are
  inserted again and again. The last is no excuse of the model but what ORDER BY priority DESC
  does; rows of the same priority cannot starve each other, by created_at.
* Trader: `OpenTradesBounded` and `ExitsBounded` say exactly how far overlapping
  steps exceed the limit and the single exit, and reduce to the limit itself for
  one step; `StoppedIsQuiet`, `ArmedWhileRunning`, `ResumesWhenRunning`.
* Risk: `LateEntriesBounded` (entries after a halt), `ExposureBounded`,
  `RowMeansProtected`, `HaltEnds`.
* Stream: `NeverStranded`, `KeptWhileConnected`, `StreamComesBack`.
* Backtest: `NoLookAhead` (an action property: no value of an indicator and no trade
  changes when a candle is appended), `DecisionsAgree` (a live process that keeps only
  the last candles decides as its backtest, and the signal script as the
  engine, with the exceptions stated), `LossBounded`, `DrawdownIsLargestFall` (between any
  two points after the first trade; the fall from the start, with which
  computeStatsFromTrades begins, is larger by no more than the first loss).
* Search: `TestedOnUnseen`, `SearchFindsBest`, and `ReportsAgree`: each file tells of one
  run and as its rows do; a script that has ended leaves the three files of its own folds,
  unless wf-summary.js had read other rows before it wrote them; and wf-summary.js,
  started while walkforward.js is not between its files, brings two of them back in line after a crash.
* Payments: `RowsFollowEvents` (unless an event was written after a later one, the row has
  the status of the latest written, and no acknowledged event is forgotten but by a failing
  or refused statement), `InvitedHasPaid`. Candles: `HolesOnlyAtEdges`, of each market
  for itself, `SignalsAreBacked`. Settings: `SettingsHold`, `RunnerIsValid`.
* Analytics: `CurvesAlign`, `ReductionsKeepShape`, `StatisticsAgree`: operators against
  reference definitions that quantify over pairs of points, and one computation
  against the other where the code has it twice. They quantify over selections of one to
  five jobs: the page takes no more, the report would show twelve (section 6). Of the lists of
  trades `StatisticsAgree` says how they fit together when one of them is cut off by its
  LIMIT, the history at its oldest and the dashboard's at its newest, and that they are one list,
  and its sum what the portfolio attributes, when neither is.
* Panel: `PanelShowsOneAnswer`: table and chart are of one answer, and of the whole of it;
  it is the last to *arrive* since the panel was cleared, since nothing in the page tells a late
  answer of an earlier request from the answer of the last one; and what no click and no other
  request crossed is what was asked for, except that beside an empty live baseline the chart has no
  overlays. `LinksLead`.

**Bounds, and why they are enough.** Slots bound what is under way at once (ticks,
steps, runs, handlers, calls, sockets, hooks, posts, requests); a slot is used again
and again, so they do not bound how often something happens. Two slots make every
pairwise race reachable, and the actors of one kind are interchangeable; where the
number of slots enters a bound (`OpenTradesBounded`, `ExitsBounded`,
`LateEntriesBounded`, `ExposureBounded`) the proofs cover every number. Two rows are
enough for a claim to have something to choose and something to leave; both
priorities occur. The pool has two clients in the safety run, so that waiting for a
client and the deadlock of hold-and-wait are reachable, and three in the liveness
run, where there are fewer ticks than clients, which is the condition under which
`NoPoolDeadlock` is promised. Rows and entries are counted (`Jobs`, `MaxInserts` = 3,
`MaxEntries` = 2 or 3, `MaxDay` = 2): the trader can fill a limit of one or two and
exceed it by the overlap, the risk guard can overrun a limit with both runs and have a
third entry refused or late. `MaxExposure` = 0 in two runs is the tightest limit;
`Equities` = {90, 100} with `LossPct` = 5 has one fall that trips the breaker and one
that does not. `Steps` of the worker is 2, so that a cancel may fall before, between and
after steps; the artifacts are two, as backtest and walkforward have them.

In `services` each part has an instance of its own, and TLC goes through all of them. The backtest
has series of eight candles of three shapes (a rise, a fall that reaches a stop, a gap upwards),
with a period of 2 (the source has 14) and a trend of 3 (200): that leaves room for three closed
trades, so for a fall that begins after a gain and goes on over a loss. The range of the search
holds two folds of 2 + 1, the second of which ends where the range does, with scores that differ by
less than the rounding and with losses that are no whole cents; walkforward.js runs twice, so that a
summary may tell of the run before, and one wf-summary.js runs at a time, as often as one likes.
optimize.js, which shares no file with the two, takes one choice after a run is done. Of the
candles, six ticks hold three of the market of ingest and backfill (their defaults are the same,
BTCUSDT 1h) and two of the engine's, on a grid that shares only some of their times; a page has two
candles; two ingests, and two starts of anything in all. Payments have one subscription with three
events, which is a checkout, an update and a deletion, in two hooks; settings two requests of each
kind. The analytics have files of four and one rows at most, snapshots and trades at two times, and
lists that are cut off after two and three trades. The panel has three jobs of which two have a
curve, two overlays at most, one set, two tokens, and three clicks. `MaxStarts`, `MaxDone` and
`MaxActs` bound how much is begun: they leave room for every pair of operations and the request
that observes them. The parts were also run alone on larger instances (nine candles, gains
and losses, three starts, five points, four clicks) while they were written; what such a run
adds is covered by the proofs, which hold for every instance.

**Deadlock** is checked in `worker`, `stream` and the violation runs, where
something can always happen. It is switched off where the bounds let the model
stop: after stop() with every row final (jobs), when the handlers and steps
have used up the rows (trader), when the entries and days are used up (risk), when a
series, a range or a clock has come to its end (services).

**Which faults.** `crash` kills the process at any point and starts it again on
the same database; `db` and `call` let a statement or a call to the exchange
fail, carried out or not; `stop` is stop() of the job runner. Runs with liveness
leave out the faults under which the code does not promise it, or
their property excuses them (`troubled`, `~timer`, `asked = "stop"`). The services
have theirs always on: repeated and reordered deliveries and failing statements
(`DbError`), calls that fail (`IngestEnds`, `FillEnds`, `Fails`), processes that die
(`EngineDies`, `ServerDies`, `Crash`), a stream that closes, answers that come late or
never.

<a id="fairness"></a>
## 4. Fairness

* `JobRunner`: weak fairness of `Tick` (the interval fires while it is armed) and
  of each tick's `Advance` (a statement sent to a live server is answered, and a
  client is handed to the first in the queue). None of the routes.
* `JobWorker`: weak fairness of each worker's `Advance`: timers fire, calls are
  answered. None of the cancel interval, so nothing relies on its answer.
* `PaperTrader`: weak fairness of the boot sequence and of the second half of a
  handler that has begun. None of the steps.
* `RiskGuard`: weak fairness of the resume timer with its callback and of each
  run's `Advance`. None of operators, market or calendar.
* `UserStream`: weak fairness of the answers of each call and of the socket
  events. Strong fairness of three things: a due reconnect timer (it needs a slot
  of `Calls`, which other calls may take in between; the program has no such
  limit), a reconnect that is tried again and again (the exchange does not
  refuse for ever), and a socket that is connecting again and again (it is not
  closed each time before it opens). `StreamComesBack` is a statement about an
  exchange that is sometimes there; without these two assumptions no code could
  keep it.
* `Services`: none. The code retries nothing there by itself: a webhook comes again
  when Stripe chooses, a failed ingest when somebody asks, a closed stream never.

<a id="proofs"></a>
## 5. The proofs

All theorems are about specifications without fairness, for every value of the
constants that satisfies the named assumption of the module (`JobRunnerAssumption`,
`PaperTraderAssumption`, and so on: finite sets of slots, positive limits,
distinguished values outside of the sets). No theorem assumes an absence of
crashes or failures except `GracefulLeavesNoOrphan`, which says so.

**JobRunnerProofs.** `IInv` is inductive: types, `ClaimsLocked` (the row of an
open claim is queued and locked by the tick that has it: without this, two ticks
could commit the same row), `OwnerRuns`, `ClaimExclusive`, `ArtifactsInHand` (a
tick about to report a success has inserted the artifact) and
`ArtifactBeforeSuccess`. From it follow `TypeCorrect`, `ClaimIsExclusive`,
`OwnersRun` (a row under a tick is running, so a cancel that won the race is never
run), `SuccessHasArtifact`, the refinement `ImplementsLifecycle` (each step
of `Next` is a step of `JobLifecycle` or leaves `status` alone) and
`FinalStaysFinal`. `PoolIsConserved` carries the sum of `free` and the
cardinalities of the holders along each action; `PoolDoesNotDeadlock` derives from
it that with fewer ticks than clients an empty pool has a holder that
does not wait. `GracefulLeavesNoOrphan` is about faults that are at most `stop`.

**JobWorkerProofs.** Three layers on the types: a worker that has a place in
runJob has a running or canceled row of its own and nobody else has it
(`ClaimIsExclusive`); what the row's artifacts are at each place of the runner,
counted by `step` (`SuccessIsComplete`: complete and in order when succeeded,
also when the UPDATE was carried out and reported as failed); a signal or a late
answer belongs to a row for which cancel was called (`CancelIsAskedFor`). A
canceled row without a worker stays so (`CancelIsKept`). `ImplementsLifecycle` maps
each action through `Settled`: the claim is the abstract claim, the end of a job
(or the crash of its worker) the abstract end, a cancel of a row that a worker has
a stutter.

**PaperTraderProofs.** `RoomReserved` strengthens `OpenTradesBounded`: the open
trades plus the steps that have compared the limit and not inserted yet stay
below the limit plus the number of steps; a step joins them when it takes its
snapshot, and only if the open trades are below the limit at that moment.
`ExitsInv` does the same for exits: the exits written to a trade plus the steps
that may still close it do not exceed the number of steps. `FreshIds` (an id not given
out has no row) carries `BookMovesOn`. `StoppedStaysQuiet` is an action
property for any number of steps and handlers.

**RiskGuardProofs.** Counting again: `LateInv` (late entries plus the runs just
before their order are at most the runs), `ExposureInv` (the exposure plus the
runs that hold a permission are at most the limit plus the runs). `SettledInv`
(what the program believes to be set is set at the exchange) and `RowInv` (what
exists of the entry a run is placing, by its place) give `SettingsComeFirst` and
`RowsMeanProtection`.

**UserStreamProofs.** `NeverStranded` is inductive on the types. `KeptInv` adds that
a stop under way has been recorded, from which `KeyIsKept`.

**What the algorithms' proofs rest on** (at the head of `AlgorithmProofs`). A recursive function over 0..n has a value at every place only if
some function satisfies its equation, and what it computes is shown by induction. The
induction theorems of the library take an operator as a parameter, which the provers
cannot instantiate; `UpTo` is induction as a statement about a *set* (a set that holds
the first place and with each place the next holds all), derived from the least
element of what is missing, and `Recursion` derives from it that a function defined
by a first value and a step exists. Each algorithm below is unfolded through it once, by
a lemma of its own (`...Unfolds`), and reasoned about through its equation from then on.
`MinIs`, `MaxIs`, `SumPrefix`, `SumOfNone`, `OnlyHas` are the facts about least and
greatest elements, sums and selections that the rest keeps citing.

**AlgorithmProofs.** *The search.* `FoldsAreApart`: every reported fold ends at or before
`cur`. `SearchEndsAtBest`: up to each combination the loops hold the first of the
highest finite scores among those seen (`BestIsFirstHighest`), which every reported fold
then carries;
row 0 of optimize.js has the highest rounded score, so it falls short of the highest by
less than the rounding. `FilesAgree`: `ReportInv` relates equity, rows and picks
(`Booked`); says whose rows each file and wf-summary.js hold, at each stage of the three writes and whatever
a crash left (`FilesKept`); and where the two processes can meet (`Meeting`): once
walkforward.js has written its rows, a wf-summary.js that is at its files has them too, unless
the writing crossed it, and one that began while walkforward.js was not between its files still finds its
first file when it writes the second. That each file tells what its rows do (`Telling`), to a cent
per row, is carried along the curve, fold by fold.

*The engine.* `StopsBoundLosses` goes along the bars: the books after a bar are in order
(`BookIs`: trades alternate, a position is open if the last trade is a buy, and its
stop is not below the one it was opened with). So a sell, at the stop or above it, is not
below the first stop less costs. The other engine's books balance by the same
induction. `DrawdownIsFound`: after each sell, the peak is the highest equity so far, the
drawdown the largest fall among the pairs so far, the wins those selected so far.

*No look-ahead.* `NothingLooksAhead` compares the series with the series and a candle
more (`GoesOn`). Each indicator of the two agrees at every bar they share, by
induction over the bars through its equation; the averages with a seed need that the
seed lies in what both have, and `Smoothed`, which looks for the first value that is not
null, that it is the first in both (or in neither). The engine of both then passes
through the same books, and trades are only appended.

*The last window.* `LiveDecidesAsBacktest`: sums over a window depend on the window alone
(`SumShift`), so RSI and ATR of the last candles are the same from the last `Lookback` of
them, and so are the averages of the trend, the patterns and the decision. For the signal
script, the last values of the two ADX and of the masked RSI are followed back to the
same indicators; the mask and the engine then leave no case but the exceptions stated.

**AnalyticsProofs.** `CurveInv` is the inductive invariant: the rows of a file and so
every curve have their times in order and values that are positive, and snapshots and
trades are of their types. The three properties are then facts about every state it
allows.

*Reductions.* `BucketsFollow`: the buckets of lttb are not empty and each ends before the
next begins (the last but one may touch the end), so the points picked, one of each,
follow each other along the curve (`InBuckets`). For simplify, a chain of indices from a
to b that keeps the promise between each two neighbours is drawn for every interval, by
induction on its length: an interval that is not split is such a chain, and two that meet
in the farthest point join (`ChainsJoin`, `SpanDraws`).

*Statistics.* The one pass has the highest point so far, and what it holds as left is no
more than what is left at any point of any earlier one (`Measured`) and is that of some
pair (`Exact`), so it is the least (`MaxDDIs`). Of closed trades the pass counts the
undated ones too, so only the first half is carried along unless all are dated
(`FallKept`). The lists are selections of one book: a selection of a selection is one of
the intersection (`OnlyOnly`), and its sum does not depend on its order. What a LIMIT leaves of the
history is the end of the selection, read backwards (`ReversedEnd`); selecting from the two
pieces is selecting from the whole (`OnlyConcat`), so what is left is the end of the dashboard's
list too (`ListsHold`).

*Drawing.* What all curves have in common does not depend on where the baseline stands
(`SameTimes`: the server asks with it first, the page draws it last); a curve cut at a time it
has starts there (`CutIs`); a rebased curve is the curve times a whole number, so every
quotient of two of its values is the same (`QuotientScales`), and with them the return
and the largest fall (`RebaseKeeps`).

**ServicesProofs.** *Payments.* `SubsInv`: what is due, handled or written has been raised, only
the first event is a checkout, and a row's status is that of an event that was
written. The unique index leaves each write one row to be about: an UPDATE writes the event it
carries over that row, an INSERT makes it or is refused, so while nothing was written late the row
has the status of the newest event written; and an event leaves `due` only with the
write or the loss of it. `InvitationsArePaid` needs
the half-way fact `InvitesPaid`, of the invitation whose row has been read.

*Candles.* `PagingInv`: the candles written lie on the grid of the interval of their market;
a writer that is between two pages and has had a first one stands right after a
candle of its own market that was written (`Resumes`), a page is consecutive, and the engine's history is
stored in order (`HistResumes`). An ingest that resumes after the newest row of another
market is one that has not had a first page. So an upsert leaves a hole only before its first candle, and
only if its writer began there. `SignalInv` adds that a candle
which has been judged is over and no longer in flight, so that no restart of the
engine can judge it again.

*Settings.* `SettingsStayInRange`: what is in
the file or in a request on its way to it is absent or in range, and a post that runs
alone carries what is held (`FileInv`). `RunnerStaysValid`: every request under way
carries a validated configuration, and one that runs alone reads back its own
(`RunnerInv`).

*Panel.* `LinksKeepLeading`: tokens of sets, of shares and of requests under way are apart, and
a token that was given out keeps its row (`LinkInv`). `PanelIsCoherent`: `PanelInv` relates
what is shown to the request it is of, by number. `TableInv` says that the table is of an answer which the chart
also shows unless it had no curve to draw, `ChartInv` that the chart has the whole of its answer, `OrderInv`
that no answer the chart could draw has come after the one it shows, since each answer counts
higher than all before it; `AloneInv` that a request nothing crossed is the
only one under way and asks for the selection, `ShownInv` what chart and table are
once it has been answered.

*The whole.* `PartsBehave` and `PartsKeepPromises` lift all of it, of this module,
`AnalyticsProofs` and `AlgorithmProofs`, to the composition: eighteen properties of seven
parts.

**Proved and not among the runs' properties**: `OwnersRun`, `GracefulLeavesNoOrphan`,
`PoolIsConserved`, `FinalStaysFinal`, `BookMovesOn`, `SettingsComeFirst`,
`CancelIsAskedFor`, `CancelIsKept`: the theorem covers every instance that a run could.

**What stays with TLC**: liveness and everything under fairness (and ENABLED), and the three
disagreements below, which are counterexamples; and `ArmedWhileRunning`, since a proof of it would
have to assume what its run has and the code does not enforce: handlers that do not overlap
and a database that answers. Every other invariant and every action property that a passing
run checks is proved.

<a id="divergences"></a>
## 6. Where the code and its own words disagree

Each is a run that TLC ends with a counterexample.

1. `jobs_cancel`: `requestCancel` stores `Number(id)` (`jobRunner.js:110`), the
   look-ups use the id of the row (lines 65 and 67), which node-postgres returns
   as a string for a BIGSERIAL. The cancel of a running job is never seen.
2. `risk_daily`: `ensureDayStart` (`risk/state.js:68`) compares a DATE column,
   returned as a Date object, with a string. It is never equal, the baseline is
   overwritten at each call, and the daily loss is never reached.
3. `stream_stop`: the close event that follows `stop()` arms the reconnect timer
   (`userDataService.js:57`), and the stream that was reported stopped opens a new
   socket.

Seen while modelling. The models do as the code does; they are no runs, because no
line of the repository promises the contrary, because the part is not modelled, or because one
action of the model says it all:

* Jobs. The comment of `storage/migrations/2025-08-job-runner.sql:6` says that a
  smaller number is a higher priority (`mažesnis = aukštesnis`), and `jobs/worker.js:35` has
  it so; `jobRunner.js:18` takes the largest number of the same table first. A worker's final UPDATE (`jobs/worker.js:64`)
  overwrites a cancel that came after the last look of the interval (`Settled`). A job that
  was running when its process died stays running for good. A queued job starves while jobs of a
  higher priority keep arriving (`EveryQueuedJobLeaves`): nothing ages a row. `/jobs/stream` and POST
  `/jobs` are exported and mounted nowhere.
* Trader and risk. A database that is away while the process boots leaves a running
  trader without its interval: the query of `startBackground` (`live.js:340`) is not tried
  again. `closePosition` of `live.js` never sets `closed_at`: its trades are missing from
  every dashboard that is given a range, and the portfolio takes them for open. With any
  trading session configured `checkPreEntry` throws (`guardrails.js:8`: `weekday:
  'numeric'` is not a value of that option), so no entry is made. `activeConfig` is set by
  the strategy routes and never read by `runOnce`.
* Streams. The three UPDATEs of `_applyOrderUpdate` (`userDataService.js:147,157,162`) have
  ORDER BY and LIMIT, which PostgreSQL does not accept there. GET /live/equity-stream
  calls `setHeader` after `writeHead` (`routes/equity.js:135`), which throws before the
  first event; what follows it is never reached.
* Backtest. `scripts/run-backtest.js:44` takes each BUY for a closed trade (`'pnl' in t`)
  and adds its undefined pnl: the equity is NaN from then on and no drawdown is ever
  seen. The engine is given `useTrendFilter` and ignores it; it skips a bar whose RSI or
  ATR is exactly 0 or masked, and with it the stop; an ADX of NaN masks in the engine and
  passes in generate-signals. `computeMetrics` sees no drawdown in a first losing
  trade, `computeStatsFromTrades` does.
* Search. `wf-summary.js` overwrites walkforward-summary.json with another shape. Started
  while walkforward.js writes, it may leave the files of an older run over those of a newer one, or
  files of two runs side by side.
  `optimize.js --write-best` writes params.json without the live settings, which fall back
  to their defaults.
* Payments. A checkout that comes after an update of the same subscription finds a row; its
  INSERT is refused by the unique index, logged and answered 200, so the e-mail never
  reaches the row and its owner is never invited. `storage/schema.pg.sql` alone, without the
  migrations, has no such index.
* Candles. Ingest takes symbol and interval from params.json, the engine from the environment, the backfill
  from its arguments, and all write rows keyed by `ts` alone: they overwrite each other's
  prices, and ingest (`ingest.js:23`, `92`) resumes after anybody's newest row, so what the
  engine writes keeps it from ever fetching its own older candles. The comment at `generate-signals.js:71` calls the INSERT idempotent, and
  `signals` has no unique key. The ingest stores the candle that is still open and never
  fetches it again, since it goes on after the last stored one. `engine/live.js` does not
  await what its stream calls. A backfill whose end lies in the future may skip a window in
  which a candle opens meanwhile.
* Settings. The default parameters of `adx` do not satisfy its schema. A preset without
  symbols is accepted and cannot be applied.
* Analytics. `readSeries` reads 10 rows when no limit is given. The last bucket of `lttb`
  holds the last point alone, which then comes twice. `/live/history` lists the newest 500
  trades (`server.js:383`), `/analytics` and trades.csv the oldest 50000 (`479`, `665`), the
  portfolio attributes all: beyond 500 the history is only the end of the others, and beyond 50000 the dashboard
  shows no new trade. `/live/history` includes the trades closed
  at the end of its range, `/analytics` does not. The deltas of the chart's labels are
  of the curves after alignment, those of the table before. The report as ZIP records
  `align` and `rebase` without applying them, the posted one has no deltas; the HTML report
  ignores `tol` and does not align its inline curves.
* Panel. `render` throws when an alignment finds nothing. At an empty live
  baseline it throws at the first label (`overview.js:26`), after the datasets were emptied and before
  the chart is drawn again, so the overlays that were asked for do not appear. A late answer of an
  earlier request replaces that of a later one. Inline curves add up at each click; clear keeps `originalBaseline`. A set may
  keep 12 jobs while the panel takes 5 and GET /analytics shows 5. A link to nothing
  applies an empty selection. Two requests that share one set for the first time at once
  give out two links, of which one leads nowhere.

<a id="not-modelled"></a>
## 7. What is not modelled

* **Entity tags** of `routes/live.equity.js` and of the HTML report: they are made of
  counts and dates, not of the content.
* **Messages of the user stream** and the SSE clients of `routes/live.js`.
* **Sizing, order arithmetic, exchange filters, byte ranges, caches of results,
  exposure by symbol, optimize listings**: arithmetic or queries that change no state. In
  `RiskGuard` a size is a free choice.
* **The equity stream**: its handler throws before its first event (section 6).
* **closeTrade and updateRealizedPnlToday** of the live runner, which only a closed
  trade reaches.
* **Floating point**: prices are integers, averages scaled and rounded down; in the
  trading core what they decide is a free choice, so every property holds whatever
  they compute. In `Backtest` and `Analytics` reference and algorithm round alike.
* **Reports' layout, PDF, ZIP, metrics, logging, other pages, deployment**.
* **External**: PostgreSQL (row locks, READ COMMITTED, atomic statements), node-pg's
  pool (first come first served), Binance, Stripe and Telegram (a call is answered,
  fails, or fails after it was carried out; an event is delivered at least once). They
  are modelled as the code uses them.
* **Two processes with the job runner** share no state but the table; the
  overlap of ticks covers their claims. With
  `ENABLE_JOB_WORKER=true` the server starts the worker beside the runner
  (`server.js:735`): both take rows of one table, and this composition is planned.

<a id="plan"></a>
## 8. Plan

Done: jobs (runner, lifecycle, worker with its refinement), trader, risk guard, user
stream, and the services: backtest, search, payments, candles, settings, analytics,
panel, with their proofs. What is left, in this order:

1. **UserStream extended** by messages and SSE clients: init, registration, close; the
   listeners are those of the open connections.
2. **Snapshots with their readers**: the upsert of a snapshot against the entity tag of a
   conditional request.
3. **JobSystem**: `JobRunner` and `JobWorker` on one table with one pool and both orders
   of priority.
4. **Sizing, orders, byte ranges** as functions on scaled integers, each against a
   reference definition over all small inputs.

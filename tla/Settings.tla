------------------------------ MODULE Settings ------------------------------
(***************************************************************************)
(* What operators configure while the server runs.  The live settings are   *)
(* the file config/params.json: POST /live/config reads it, awaits, empties *)
(* it and writes it (live.js), a step of the paper trader reads it whenever *)
(* its timer says, and optimize.js --write-best writes it from another      *)
(* process.  The strategies are a row of strategy_configs and the runner's  *)
(* activeConfig (config/strategies.js, routes/config.js, liveRunner.js).    *)
(* Numbers are in tenths, so that one may be fractional.                    *)
(***************************************************************************)
EXTENDS Integers, Sequences

CONSTANTS
  Bodies,           \* bodies of POST /live/config: field -> number, or Absent
  Posts,            \* POST /live/config requests handled at the same time
  ConfigBodies,     \* bodies of the strategy routes: sequences of strategies
  Requests,         \* strategy requests handled at the same time
  MaxDone           \* bound: requests begun and files written in all

VARIABLES
  file,             \* config/params.json: field -> number, or Absent
  post,             \* post[p]: where setLiveConfig is
  tick,             \* the settings the last step traded with
  stored,           \* strategy_configs.active
  runner,           \* activeConfig; <<>> is null
  request,          \* request[r]: where a strategy request is
  presets,          \* strategy_presets
  begun,
  held,             \* history: field -> what a post that ran alone set, or Absent
  applied           \* history: what an apply that ran alone applied, or <<>>

settingsVars == <<file, post, tick, stored, runner, request, presets, begun, held, applied>>
fileVars == <<file, post, tick, held>>
strategyVars == <<stored, runner, request, presets, applied>>

Absent == -99999
Defaults == [slPct |-> 10, trailPct |-> 0, maxOpenTrades |-> 10]
NoField == [f \in DOMAIN Defaults |-> Absent]

\* Bodies are what is left of a request once its fields are read as numbers; a strategy
\* has an id, parameters and symbols.
ASSUME SettingsAssumption ==
  /\ Bodies \subseteq [DOMAIN Defaults -> Int]
  /\ \A c \in ConfigBodies :
       /\ c # <<>> => 1 \in DOMAIN c
       /\ \A i \in DOMAIN c :
            c[i] = [id |-> c[i].id, params |-> c[i].params, symbols |-> c[i].symbols]

\* A file that does not parse is read as one without fields.
Torn == NoField

Resting == [pc |-> "idle"]

Count == begun < MaxDone /\ begun' = begun + 1

-----------------------------------------------------------------------------
(* Live settings.                                                          *)

GetLiveConfig ==
  [f \in DOMAIN Defaults |-> IF file[f] = Absent THEN Defaults[f] ELSE file[f]]

\* Mutant: any trailing stop is taken.
Accepts_AnyTrail(f, v) ==
  /\ v # Absent
  /\ CASE f = "slPct" -> v > 0 [] f = "trailPct" -> TRUE [] f = "maxOpenTrades" -> v >= 10

Accepts(f, v) ==
  /\ v # Absent
  /\ CASE f = "slPct" -> v > 0 [] f = "trailPct" -> v >= 0 [] f = "maxOpenTrades" -> v >= 10

Kept(f, v) == IF f = "maxOpenTrades" THEN v - (v % 10) ELSE v

Merged(cur, body) ==
  [f \in DOMAIN cur |-> IF Accepts(f, body[f]) THEN Kept(f, body[f]) ELSE cur[f]]

\* Others that are under way no longer run alone, and neither does p if there are any.
Under(p) == {q \in Posts \ {p} : post[q] # Resting}

ReadSettings(p, body) ==
  /\ Count
  /\ post[p] = Resting
  /\ post' = [q \in Posts |->
       IF q = p THEN [pc |-> "open", cfg |-> Merged(GetLiveConfig, body), body |-> body,
                      alone |-> Under(p) = {}, overtaken |-> FALSE]
       ELSE IF q \in Under(p) THEN [post[q] EXCEPT !.alone = FALSE] ELSE post[q]]
  /\ held' = IF Under(p) = {} THEN held ELSE NoField
  /\ UNCHANGED <<file, tick>> /\ UNCHANGED strategyVars

\* writeFile empties the file when it opens it ...
OpenFile(p) ==
  /\ post[p].pc = "open"
  /\ file' = Torn
  /\ post' = [post EXCEPT ![p].pc = "write"]
  /\ UNCHANGED <<tick, held, begun>> /\ UNCHANGED strategyVars

\* ... and writes from its start: what was written since may show behind it.
WriteFile(p) ==
  /\ post[p].pc = "write"
  /\ file' \in {post[p].cfg} \cup (IF post[p].overtaken THEN {Torn} ELSE {})
  /\ post' = [q \in Posts |->
       IF q = p THEN Resting
       ELSE IF post[q] # Resting /\ post[q].pc = "write" THEN [post[q] EXCEPT !.overtaken = TRUE]
       ELSE post[q]]
  /\ held' = IF post[p].alone
             THEN [f \in DOMAIN held |->
                     IF Accepts(f, post[p].body[f]) THEN Kept(f, post[p].body[f]) ELSE held[f]]
             ELSE NoField
  /\ UNCHANGED <<tick, begun>> /\ UNCHANGED strategyVars

\* optimize.js writes the file whole, without the fields of the live settings.
WriteBest ==
  /\ Count
  /\ file' = NoField /\ held' = NoField
  /\ post' = [p \in Posts |->
       IF post[p] = Resting THEN Resting ELSE [post[p] EXCEPT !.alone = FALSE, !.overtaken = TRUE]]
  /\ UNCHANGED tick /\ UNCHANGED strategyVars

TickReads ==
  /\ tick' = GetLiveConfig
  /\ UNCHANGED <<file, post, held, begun>> /\ UNCHANGED strategyVars

-----------------------------------------------------------------------------
(* Strategies.                                                             *)

Whole(a, b) == [type |-> "integer", min |-> 10 * a, max |-> 10 * b]
Tenths(a, b) == [type |-> "number", min |-> a, max |-> b]

\* config/schemas.js: every property is required, and no other is allowed.
Schemas ==
  [ema |-> [fast |-> Whole(2, 200), slow |-> Whole(3, 500), atrMult |-> Tenths(1, 100)],
   rsi |-> [period |-> Whole(2, 200), buyBelow |-> Tenths(0, 1000), sellAbove |-> Tenths(0, 1000)],
   adx |-> [period |-> Whole(2, 200), threshold |-> Tenths(50, 500)]]

ValidateBySchema(id, params) ==
  /\ DOMAIN params = DOMAIN Schemas[id]
  /\ \A k \in DOMAIN params :
       LET spec == Schemas[id][k] IN
       /\ spec.type = "integer" => params[k] % 10 = 0
       /\ spec.min <= params[k] /\ params[k] <= spec.max

\* symbols is the number of symbols; slow > fast for ema.
ValidStrategy(s) ==
  /\ s.id \in DOMAIN Schemas
  /\ ValidateBySchema(s.id, s.params)
  /\ s.symbols > 0
  /\ s.id = "ema" => s.params.slow > s.params.fast

ValidateConfig(cfg) == cfg # <<>> /\ \A i \in DOMAIN cfg : ValidStrategy(cfg[i])

InitSettings ==
  /\ file = NoField /\ post = [p \in Posts |-> Resting] /\ tick = Defaults
  /\ stored \in {c \in ConfigBodies : ValidateConfig(c)} /\ runner = <<>> /\ presets = {}
  /\ request = [r \in Requests |-> Resting]
  /\ begun = 0 /\ held = NoField /\ applied = <<>>

Others(r) == {q \in Requests \ {r} : request[q] # Resting}

\* Mutant: the apply route does not validate.
PutConfig_AppliesAny(r, cfg, apply) ==
  /\ Count
  /\ request[r] = Resting
  /\ apply \/ ValidateConfig(cfg)
  /\ request' = [q \in Requests |->
       IF q = r THEN [pc |-> "save", cfg |-> cfg, apply |-> apply, got |-> <<>>, alone |-> Others(r) = {}]
       ELSE IF q \in Others(r) THEN [request[q] EXCEPT !.alone = FALSE] ELSE request[q]]
  /\ applied' = <<>>
  /\ UNCHANGED <<stored, runner, presets>> /\ UNCHANGED fileVars

\* PUT saves; POST .../apply saves and applies.  An invalid body is answered 400.
PutConfig(r, cfg, apply) ==
  /\ Count
  /\ request[r] = Resting
  /\ ValidateConfig(cfg)
  /\ request' = [q \in Requests |->
       IF q = r THEN [pc |-> "save", cfg |-> cfg, apply |-> apply, got |-> <<>>, alone |-> Others(r) = {}]
       ELSE IF q \in Others(r) THEN [request[q] EXCEPT !.alone = FALSE] ELSE request[q]]
  /\ applied' = <<>>
  /\ UNCHANGED <<stored, runner, presets>> /\ UNCHANGED fileVars

SaveActiveConfig(r) ==
  /\ request[r].pc = "save"
  /\ stored' = request[r].cfg
  /\ request' = [request EXCEPT ![r] = IF @.apply THEN [@ EXCEPT !.pc = "read"] ELSE Resting]
  /\ UNCHANGED <<runner, presets, applied, begun>> /\ UNCHANGED fileVars

\* applyActiveConfig reads the row again, which may be another request's by now.
GetActiveConfig(r) ==
  /\ request[r].pc = "read"
  /\ request' = [request EXCEPT ![r] = [@ EXCEPT !.pc = "restart", !.got = stored]]
  /\ UNCHANGED <<stored, runner, presets, applied, begun>> /\ UNCHANGED fileVars

GracefulRestart(r) ==
  /\ request[r].pc = "restart"
  /\ runner' = request[r].got
  /\ applied' = IF request[r].alone THEN request[r].cfg ELSE <<>>
  /\ request' = [request EXCEPT ![r] = Resting]
  /\ UNCHANGED <<stored, presets, begun>> /\ UNCHANGED fileVars

\* A preset without symbols is validated with one, and kept without.
SavePreset(s) ==
  /\ Count
  /\ ValidateConfig(<<[s EXCEPT !.symbols = IF @ = 0 THEN 1 ELSE @]>>)
  /\ presets' = presets \cup {s}
  /\ UNCHANGED <<stored, runner, request, applied>> /\ UNCHANGED fileVars

DeletePreset(s) ==
  /\ presets' = presets \ {s}
  /\ UNCHANGED <<stored, runner, request, applied, begun>> /\ UNCHANGED fileVars

\* The process ends, and starts again; a failed query or write ends it too, since no
\* route catches the rejection.  Files and rows stay as they are.
ServerDies ==
  /\ post' = [p \in Posts |-> Resting] /\ request' = [r \in Requests |-> Resting]
  /\ runner' = <<>> /\ applied' = <<>>
  /\ held' = IF \E p \in Posts : post[p] # Resting THEN NoField ELSE held
  /\ UNCHANGED <<file, tick, stored, presets, begun>>

NextSettings ==
  \/ \E p \in Posts : (\E b \in Bodies : ReadSettings(p, b)) \/ OpenFile(p) \/ WriteFile(p)
  \/ WriteBest \/ TickReads
  \/ \E r \in Requests :
       \/ \E c \in ConfigBodies, apply \in BOOLEAN : PutConfig(r, c, apply)
       \/ SaveActiveConfig(r) \/ GetActiveConfig(r) \/ GracefulRestart(r)
  \/ \E c \in ConfigBodies : c # <<>> /\ SavePreset(c[1])
  \/ \E s \in presets : DeletePreset(s)
  \/ ServerDies

SettingsSpec == InitSettings /\ [][NextSettings]_settingsVars

(***************************************************************************)
(* Properties.                                                             *)
(***************************************************************************)

(* Whatever a body says and however requests, the optimizer and a crash tear *)
(* the file, a step trades with settings in their range; and a setting given *)
(* by a post that no other overlapped holds until somebody else writes.      *)
SettingsHold ==
  /\ \A s \in {GetLiveConfig, tick} :
       s.slPct > 0 /\ s.trailPct >= 0 /\ s.maxOpenTrades >= 10 /\ s.maxOpenTrades % 10 = 0
  /\ (\A p \in Posts : post[p] = Resting) =>
       \A f \in DOMAIN held : held[f] # Absent => GetLiveConfig[f] = held[f]

(* The runner has a configuration that passed the validation, even when it   *)
(* is another request's; an apply that no other request overlapped leaves    *)
(* the runner and the row with what it was given; and what presets keep only *)
(* lacks symbols, if anything.                                             *)
RunnerIsValid ==
  /\ runner # <<>> => ValidateConfig(runner)
  /\ applied # <<>> => runner = applied /\ stored = applied
  /\ \A s \in presets : s.symbols = 0 \/ ValidStrategy(s)
=============================================================================

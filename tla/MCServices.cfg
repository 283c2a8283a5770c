SPECIFICATION Spec
CONSTANTS
  CandleKinds <- MCKinds
  MaxCandles = 8
  Period = 2
  TrendPeriod = 3
  Fast = 1
  Slow = 2
  RsiBuy = 50
  RsiSell = 70
  AtrMult = 1
  AdxMin = 20
  CostPct = 1
  GridSize = 2
  Scores = {101, 149, 151}
  Pnls <- MCPnls
  EndMs = 6
  TrainMs = 2
  TestMs = 1
  MaxRuns = 2
  Subs = {s1}
  Hooks = {h1, h2}
  MaxEvents = 3
  DbFails = TRUE
  IngestMarket = btc
  EngineMarket = sol
  FillMarket = btc
  Step <- MCStep
  MaxClock = 6
  Limit = 2
  Past = 4
  HistLen = 2
  BufferLen = 1
  BufferMax = 2
  Calls = {c1, c2}
  Window <- MCWindow
  MaxSignals = 2
  MaxStarts = 2
  Bodies <- MCBodies
  ConfigBodies <- MCConfigBodies
  Posts = {p1, p2}
  Requests = {r1, r2}
  MaxDone = 3
  JobIds = {1, 2}
  Equities = {1, 4}
  Profits <- MCProfits
  MaxTs = 5
  FileRows <- MCFileRows
  SnapTimes = {2, 3}
  MaxPoints = 4
  DefaultLimit = 1
  HistoryLimit = 2
  AnalyticsLimit = 3
  MinTarget = 2
  RebaseTo = 100
  Capital = 100
  Jobs = {1, 2, 3}
  WithCurve = {1, 2}
  MaxOverlays = 2
  MaxSetJobs = 2
  SetIds = {1}
  Tokens = {11, 12}
  Payloads <- MCPayloads
  MaxActs = 3
INVARIANTS
  LossBounded
  DrawdownIsLargestFall
  DecisionsAgree
  TestedOnUnseen
  ReportsAgree
  SearchFindsBest
  RowsFollowEvents
  InvitedHasPaid
  HolesOnlyAtEdges
  SignalsAreBacked
  SettingsHold
  RunnerIsValid
  CurvesAlign
  ReductionsKeepShape
  StatisticsAgree
  PanelShowsOneAnswer
  LinksLead
PROPERTY
  NoLookAhead
CHECK_DEADLOCK FALSE

SPECIFICATION Spec
CONSTANTS
  Runs = {r1}
  Handlers = {}
  NSymbols = 1
  NStrategies = 1
  Configs <- MCPlain
  Equities <- MCEquities
  Configured = {"mode"}
  MaxExposure = 1
  LossPct = 5
  MaxEntries = 2
  MaxDay = 1
  Faults = {}
INVARIANT DailyLossStops
CHECK_DEADLOCK FALSE

SPECIFICATION FairSpec
CONSTANTS
  Runs = {r1}
  Handlers = {h1}
  NSymbols = 1
  NStrategies = 1
  Configs <- MCBoth
  Equities <- MCEquities
  Configured = {"leverage", "mode"}
  MaxExposure = 0
  LossPct = 5
  MaxEntries = 2
  MaxDay = 2
  Faults = {}
PROPERTY HaltEnds
CHECK_DEADLOCK FALSE

SPECIFICATION Spec
CONSTANTS
  Runs = {r1, r2}
  Handlers = {}
  NSymbols = 1
  NStrategies = 2
  Configs <- MCPlain
  Equities <- MCOneEquity
  Configured = {"leverage", "mode"}
  MaxExposure = 0
  LossPct = 5
  MaxEntries = 3
  MaxDay = 1
  Faults = {"crash", "call"}
SYMMETRY MCSymmetry
INVARIANTS LateEntriesBounded ExposureBounded RowMeansProtected
CHECK_DEADLOCK FALSE

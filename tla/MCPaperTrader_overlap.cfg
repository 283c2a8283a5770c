SPECIFICATION Spec
CONSTANTS
  Steps = {s1, s2}
  Handlers = {h1, h2}
  MaxInserts = 3
  MaxOpenTrades = 1
  Faults = {"crash", "db"}
SYMMETRY MCSymmetry
INVARIANTS OpenTradesBounded ExitsBounded
PROPERTY StoppedIsQuiet
CHECK_DEADLOCK FALSE

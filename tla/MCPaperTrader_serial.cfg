SPECIFICATION FairSpec
CONSTANTS
  Steps = {s1}
  Handlers = {h1}
  MaxInserts = 3
  MaxOpenTrades = 2
  Faults = {}
INVARIANT ArmedWhileRunning
PROPERTY ResumesWhenRunning
CHECK_DEADLOCK FALSE

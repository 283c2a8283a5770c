SPECIFICATION Spec
CONSTANTS
  Jobs = {j1, j2}
  Ticks = {t1, t2}
  Priorities <- MCPriorities
  NoTick = NoTick
  NoJob = NoJob
  PoolSize = 2
  Faults = {}
PROPERTY CancelIsSeen

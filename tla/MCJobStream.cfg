SPECIFICATION StreamSpec
CONSTANTS
  Jobs = {j1, j2}
  Ticks = {t1, t2}
  Priorities <- MCPriorities
  NoTick = NoTick
  NoJob = NoJob
  PoolSize = 3
  Faults = {"stop"}
INVARIANT NoPoolDeadlock
PROPERTIES EveryClaimedJobEnds EveryQueuedJobLeaves
CHECK_DEADLOCK FALSE

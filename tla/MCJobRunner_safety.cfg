SPECIFICATION Spec
CONSTANTS
  Jobs = {j1, j2}
  Ticks = {t1, t2}
  Priorities <- MCPriorities
  PoolSize = 2
  Faults = {"crash", "db", "stop"}
  NoTick = NoTick
  NoJob = NoJob
SYMMETRY MCSymmetry
INVARIANTS ClaimExclusive ArtifactBeforeSuccess
PROPERTY FollowsLifecycle
CHECK_DEADLOCK FALSE

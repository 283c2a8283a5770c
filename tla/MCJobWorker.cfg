SPECIFICATION FairSpec
CONSTANTS
  Jobs <- MCJobs
  Workers = {w1, w2}
  Files <- MCFiles
  OtherType = "other"
  Steps = 2
  Cancelable = {"queued", "running"}
  Faults = {"crash", "call"}
  NoJob = NoJob
INVARIANTS ClaimExclusive SuccessHasArtifacts
PROPERTIES FollowsLifecycle WorkEnds

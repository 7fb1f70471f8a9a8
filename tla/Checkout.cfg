SPECIFICATION FairSpec
CONSTANTS
  Rejected = Rejected
  Procs = {host, worker}
  host = host
  worker = worker
  metrics = metrics
  metal = metal
  Takes <- Parts
  Order <- TwoPatches
  Adapters <- MetalOnly
  Revs = {0, 1}
  Accepts <- Keep
  Places <- Somewhere
  MaxJobs = 2
  MaxEdits = 2
  Nobody = Nobody
  Orphan = Orphan
INVARIANTS
  AgentFreshIsCurrent
PROPERTIES
  PullsOverNothing
  UserFilesStay
  LockIsReleased
CHECK_DEADLOCK FALSE

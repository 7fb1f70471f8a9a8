\* One graph under a fair scheduler; no crash and no failed write.
SPECIFICATION FairSpec
CONSTANTS
  Graphs = {1}
  Nodes = {1, 2, 3, 4}
  Def <- TurnThenGoal
  ApprovalRequired = {1}
  MaxParallelHost = 3
  MaxCrashes = 0
  MaxFaults = 0
  BufferCap = 4
  BufferFirst = 2
INVARIANTS
  NoReplay
  TurnIsOwned
  ApprovedByUser
PROPERTIES
  HeldGraphLeasesNothing
  CancelSettles
  PauseSettles
  RunSettles

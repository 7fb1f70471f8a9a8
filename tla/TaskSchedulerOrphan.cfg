\* The host may die once, under a fair scheduler.
SPECIFICATION FairSpec
CONSTANTS
  Graphs = {1}
  Nodes = {1, 2, 3}
  Def <- TurnBesideApproval
  ApprovalRequired = {}
  MaxParallelHost = 3
  MaxCrashes = 1
  MaxFaults = 0
  BufferCap = 4
  BufferFirst = 2
PROPERTIES
  OrphansEnd

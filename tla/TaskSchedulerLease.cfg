\* A turn beside a gate that may fail, under a fair scheduler.
SPECIFICATION FairSpec
CONSTANTS
  Graphs = {1}
  Nodes = {1, 2, 3}
  Def <- TurnBesideGate
  ApprovalRequired = {}
  MaxParallelHost = 3
  MaxCrashes = 0
  MaxFaults = 0
  BufferCap = 4
  BufferFirst = 2
PROPERTIES
  AttemptEnds

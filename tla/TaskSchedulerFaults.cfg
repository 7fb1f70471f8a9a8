\* One graph; the host may die between any two writes, and a write may fail.
SPECIFICATION Spec
CONSTANTS
  Graphs = {1}
  Nodes = {1, 2, 3}
  Def <- GoalBesideTest
  ApprovalRequired = {1}
  MaxParallelHost = 3
  MaxCrashes = 1
  MaxFaults = 1
  BufferCap = 4
  BufferFirst = 2
INVARIANTS
  OneLlmOneWriter
  AttemptBudget
  DependenciesFirst
  ResultBeforeState

\* One process that may die anywhere; no torn write, no unacknowledged one.
SPECIFICATION Spec
CONSTANTS
  Nodes = {n1}
  Procs = {host}
  Faults = {}
  NoNode = NoNode
  Garbage = Garbage
  NoProc = NoProc
  Offline = Offline
  MaxEvents = 5
  MaxAttempts = 1
  Refused = Refused
  TextMax = 16384
  AutoSpare = 1024
  GoalSpare = 1500
  PageMax = 3
  Text <- TwoTexts
  Absent = Absent
  Unsaved = Unsaved
  x = x
  y = y
  z = z
INVARIANTS
  NeverRejected
  ServesCommitted
PROPERTIES
  ImplementsDurableGraph

\* A second DStudio process uses the same workspace.
SPECIFICATION Spec
CONSTANTS
  Nodes = {n1}
  Procs = {host, other}
  Faults = {}
  NoNode = NoNode
  Garbage = Garbage
  NoProc = NoProc
  Offline = Offline
  MaxEvents = 4
  MaxAttempts = 1
  Refused = Refused
  TextMax = 16384
  AutoSpare = 1024
  GoalSpare = 1500
  PageMax = 3
  Text <- TwoTexts
  Absent = Absent
  Unsaved = Unsaved
  x = x
  y = y
  z = z
INVARIANTS
  NeverRejected

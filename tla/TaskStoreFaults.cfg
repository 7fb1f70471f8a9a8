\* Two processes and every fault of the file system.
SPECIFICATION Spec
CONSTANTS
  Nodes = {n1}
  Procs = {host, other}
  Faults = {"torn", "unacked"}
  NoNode = NoNode
  Garbage = Garbage
  NoProc = NoProc
  Offline = Offline
  MaxEvents = 3
  MaxAttempts = 1
  Refused = Refused
  TextMax = 16384
  AutoSpare = 1024
  GoalSpare = 1500
  PageMax = 3
  Text <- TwoTexts
  Absent = Absent
  Unsaved = Unsaved
  x = x
  y = y
  z = z
INVARIANTS
  OneWriterAtATime
PROPERTIES
  LoadsAllOrNothing

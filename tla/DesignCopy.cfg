\* The run "design_copy": what a message asked for is dropped by a save.
SPECIFICATION RunSpec
CONSTANTS
  Names = {"x"}
  Context = 11
  SoftPercent = 64
  MinFree = 3
  TailDivisor = 3
  TailCap = 2
  SummaryMax = 2
  MinRoom = 1
  Request = 1
  User = User
  Pages = {p}
  p = p
  Contents = {b}
  b = b
  Worded = {b}
  None = None
  Loops = {"local", "remote"}
  Used = {"read", "todo_write", "write", "question", "bash"}
  MaxTodoContinues = 1
  MaxGenContinues = 1
  MaxRetries = 1
  MaxToolErrors = 2
  MaxBatch = 2
  MaxSteers = 1
  MaxSignals = 2
  MaxConversations = 2
INVARIANT CopyIsKept
CHECK_DEADLOCK FALSE

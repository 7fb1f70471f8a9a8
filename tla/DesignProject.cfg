SPECIFICATION ProjectSpec
CONSTANTS
  NotFound = NotFound
  IntMax = 15
  DefaultLines = 3
  MaxCopies = 4
  Pages = {p, q}
  p = p
  q = q
  Contents = {a, b}
  a = a
  b = b
  Worded = {b}
  None = None
SYMMETRY Symmetry
INVARIANTS
  RegisteredIsEarned
  MeasuredBeforeChanged
  VerdictIsCurrent
CHECK_DEADLOCK FALSE

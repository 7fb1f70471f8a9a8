\* The transcript of the Agent may reach its budget.
SPECIFICATION Spec
CONSTANTS
  MaxPending = 2
  MaxInputs = 2
  MaxTurns = 1
  MaxLives = 1
  TranscriptFills = TRUE
INVARIANTS
  ReceiptAfterAppend
CHECK_DEADLOCK FALSE

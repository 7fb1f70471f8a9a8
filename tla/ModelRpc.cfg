\* Two prompts, two requests of the runtime, one interrupt; every death, deadline
\* and order of the three pipes.
SPECIFICATION FairSpec
CONSTANTS
  MaxLines = 4
  Tls <- Both
  MaxPrompts = 2
  MaxRequests = 2
  MaxInterrupts = 1
  MaxText = 1
INVARIANTS
  PendingWaitsForCanceled
  ToolsAreWhole
PROPERTIES
  InterruptSilences
  TurnEnds
CHECK_DEADLOCK FALSE

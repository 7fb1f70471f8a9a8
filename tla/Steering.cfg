\* Two turns and two processes; the transcript has room.
SPECIFICATION FairSpec
CONSTANTS
  MaxPending = 2
  MaxInputs = 3
  MaxTurns = 2
  MaxLives = 2
  TranscriptFills = FALSE
INVARIANTS
  SealIsLast
PROPERTIES
  ImplementsTurnInput
  AdmittedIsHeard
\* Turns and processes are bounded: the system comes to rest.
CHECK_DEADLOCK FALSE

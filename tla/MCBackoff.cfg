SPECIFICATION Spec
CONSTANTS
  BaseDelays <- Bases
  MaxDelays <- Caps
  MaxAttempts = 4
  Timeout = 2
  MaxLost = 2
  MaxTime = 60
INVARIANTS
  TypeOK
  LossRate
  ResumesPromptly
CHECK_DEADLOCK FALSE

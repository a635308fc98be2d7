SPECIFICATION ReplSpec
CONSTANTS
  MaxReplicas = 3
  MaxOffset = 3
  MaxSilence = 2
INVARIANTS
  ReplTypeOK
  FurthestBehind
CHECK_DEADLOCK FALSE

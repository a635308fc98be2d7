SPECIFICATION Spec
CONSTANTS
  WarnThreshold = 1
  ErrorThreshold = 3
  MaxCycles = 12
INVARIANTS
  TypeOK
  OneHintPerOutage
PROPERTY
  RecoveryAnnounced
CHECK_DEADLOCK FALSE

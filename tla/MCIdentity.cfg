SPECIFICATION IDSpec
CONSTANTS
  Writable = TRUE
  MaxUUIDs = 6
INVARIANT IDTypeOK
PROPERTY IdentityIsStable
CHECK_DEADLOCK FALSE

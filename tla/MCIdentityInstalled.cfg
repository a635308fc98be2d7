SPECIFICATION IDSpec
CONSTANTS
  Writable = FALSE
  MaxUUIDs = 3
PROPERTY GeneratedOnce
CHECK_DEADLOCK FALSE

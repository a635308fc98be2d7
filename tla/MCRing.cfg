SPECIFICATION Spec
CONSTANTS
  RequestedCapacity = 3
  MaxSnapshots = 8
INVARIANTS
  TypeOK
  LiveWindow
  DeadSlotsReleased
PROPERTY
  ImplementsBoundedQueue
CHECK_DEADLOCK FALSE

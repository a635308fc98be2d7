SPECIFICATION Spec
CONSTANTS
  MaxInterval = 16
  MaxTimeout = 14
  Overrun = 3
INVARIANTS
  TypeOK
  TicksOnTime
  DelayIsBounded

SPECIFICATION Spec
CONSTANTS
  MaxInterval = 16
  MaxTimeout = 14
  Overrun = 0
INVARIANT TimeoutProtectsSchedule

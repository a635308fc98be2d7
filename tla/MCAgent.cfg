SPECIFICATION FairSpec
CONSTANTS
  Capacity = 2
  MaxAttempts = 2
  StatusCodes = {202, 404, 503}
  MaxTicks = 3
INVARIANTS
  TypeOK
  NoLostWakeup
  Accounting
  NoEarlyGivingUp
  AtMostOneStranded
PROPERTIES
  OrderedSends
  ImplementsDelivery
  ShutdownCompletes
  EventuallyTaken
  EventuallySettled

SPECIFICATION PipelineSpec
CONSTANTS
  FetchWindow = 2
  LogLength = 3
  MaxCommands = 5
  Capacity = 2
  MaxSnapshots = 3
  MaxAttempts = 2
INVARIANTS
  PipelineTypeOK
  RolloverMeansRestart
  
PROPERTIES
  FetchedIsReported
  BackendInOrder
  KeepsUp
CHECK_DEADLOCK FALSE

SPECIFICATION Spec
CONSTANTS
  One = 2
  Tdfs <- MCTdfs
  Epoch = 3
  Steps <- MCSteps
  OperatorSuspends = TRUE
  OperatorResumes = TRUE
  EarlyRequests = TRUE
  MaxHost = 4
  MaxStops = 2
  MaxSetbacks = 1
INVARIANTS SetbackCaughtUp UnseenSetbackBounded NotFasterThanHost
PROPERTIES TicksStandStill
CHECK_DEADLOCK FALSE

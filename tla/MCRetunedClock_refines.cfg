SPECIFICATION Spec
CONSTANTS
  One = 2
  Tdfs <- MCTdfs
  Epoch = 3
  Steps <- MCSteps
  OperatorSuspends = TRUE
  OperatorResumes = FALSE
  EarlyRequests = TRUE
  MaxHost = 8
  MaxStops = 2
  MaxSetbacks = 0
INVARIANT LossBounded
PROPERTIES ImplementsVirtualClock ClockMonotonic TicksMonotonic
CHECK_DEADLOCK FALSE

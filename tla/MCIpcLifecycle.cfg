SPECIFICATION Spec
CONSTANTS
  a1 = a1
  a2 = a2
  g1 = g1
  Agents <- MCAgents
  Guests <- MCGuests
  Tdfs <- MCTdfs
  One = 1
  MaxStarts = 3
  MaxFailures = 2
INVARIANTS TypeOK RunningAgentOwnsKeys SharedSemSharesClock
PROPERTIES FactorChangesWhileStopped FrozenGuestsFreed
CHECK_DEADLOCK FALSE

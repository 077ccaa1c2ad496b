SPECIFICATION Spec
CONSTANTS
  v1 = v1
  v2 = v2
  none = none
  Links <- MCTwoLinks
  Values <- MCTwoValues
  Tdfs <- MCTwoTdfs
  Configured <- MCFirstLink
  One = 1
  None <- none
  MaxRequests = 2
  MaxPasses = 2
  MaxFailures = 1
SYMMETRY ValueSymmetry
INVARIANTS TypeOK OrphansExplained
PROPERTIES PassScales PassDrops
CHECK_DEADLOCK FALSE

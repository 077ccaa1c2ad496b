SPECIFICATION Spec
CONSTANTS
  c1 = c1
  c2 = c2
  nan = nan
  none = none
  Cpus <- MCTwoCpus
  Levels <- MCLevels
  TargetLoads <- MCTargetLoads
  Full = 4
  Lowest = 1
  Highest = 3
  AlphaInv = 2
  NaN <- nan
  None <- none
  MaxConfigs = 2
INVARIANT TypeOK
PROPERTIES UndisturbedReportInBounds OverloadReachesMax SilentSimulatorForgotten
CHECK_DEADLOCK FALSE

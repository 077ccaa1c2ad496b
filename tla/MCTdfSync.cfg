SPECIFICATION Spec
CONSTANTS
  nan = nan
  none = none
  Hosts <- MCTwoHosts
  Tdfs <- MCTdfs
  One = 10
  NoTdf <- none
  NaN <- nan
  Unit = 10
  Thresholds <- MCThresholds
  MaxChanges = 3
  MaxDups = 1
INVARIANT TypeOK
PROPERTY SettledIsTracked
CHECK_DEADLOCK FALSE

SPECIFICATION FairSpec
CONSTANTS
  h1 = h1
  h2 = h2
  none = none
  Hosts <- MCOneHost
  Tdfs <- MCTwoTdfs
  One = 10
  NoTdf <- none
  Unit = 10
  Thresholds <- MCOneThreshold
  Commands <- MCEnforceOnly
  MaxMsgs = 2
PROPERTY PublishedIsApplied
CHECK_DEADLOCK FALSE

SPECIFICATION FairSpec
CONSTANTS
  h1 = h1
  h2 = h2
  none = none
  Hosts <- MCOneHost
  Tdfs <- MCThreeTdfs
  One = 10
  NoTdf <- none
  Unit = 10
  Thresholds <- MCOneThreshold
  Commands <- MCDisciplined
  MaxMsgs = 4
INVARIANT LinksFollowClock
PROPERTIES ChangesOnlyFrozen HeardIsApplied VMsReleased ShutdownEndsOrSleeps
CHECK_DEADLOCK FALSE

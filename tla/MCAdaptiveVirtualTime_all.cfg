SPECIFICATION Spec
CONSTANTS
  h1 = h1
  h2 = h2
  none = none
  Hosts <- MCHosts
  Tdfs <- MCTdfs
  One = 10
  NoTdf <- none
  Unit = 10
  Thresholds <- MCThresholds
  Commands <- MCAllCommands
  MaxMsgs = 4
SYMMETRY HostSymmetry
INVARIANTS TypeOK CoherentResume StaleOnlyIfMissed NoUseAfterDestroy
PROPERTIES PublishedTracksNeed PublishesANeed OverrideStands
CHECK_DEADLOCK FALSE

SPECIFICATION Spec
CONSTANTS
  One = 2
  Tdfs <- MCTdfs
  Epoch = 4
  Writers <- MCVTAndIo
  Overlap = FALSE
  GuestReads = TRUE
  MaxHost = 2
  MaxCalls = 2
PROPERTIES ImplementsVirtualClock QuietReadsAreRight
CHECK_DEADLOCK FALSE

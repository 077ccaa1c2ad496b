SPECIFICATION Spec
CONSTANTS
  One = 2
  Tdfs <- MCTdfs
  Epoch = 4
  Writers <- MCVTOnly
  Overlap = FALSE
  GuestReads = TRUE
  MaxHost = 4
  MaxCalls = 2
PROPERTY GuestMonotonic
CHECK_DEADLOCK FALSE

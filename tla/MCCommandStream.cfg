SPECIFICATION Spec
CONSTANTS
  a = a
  text = text
  empty = empty
  garbled = garbled
  close = close
  Clients <- MCClients
  Texts <- MCTexts
  Empty <- empty
  Close <- close
  Garbled <- garbled
  MaxLines = 3
  MaxBreaks = 1
PROPERTIES ImplementsPipe TypedIsProcessed ClosedClientsLeave
CHECK_DEADLOCK FALSE

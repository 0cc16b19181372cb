CONSTANTS
  Endpoints = {0, 1}
  OutputCapacity = 1
  MaxWrites <- MCMaxWrites
  MaxFrames <- MCMaxFrames
  None = None
SPECIFICATION FairTransportSpec
INVARIANTS
  WritesInOrder
PROPERTIES
  NoEventAfterStop
  StopReturns
  WritesSettle
  ShutdownJoins
CHECK_DEADLOCK FALSE

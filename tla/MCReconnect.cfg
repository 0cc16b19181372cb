CONSTANTS
  MaxConnections = 2
  Commands <- MCCommands
  Responses <- MCResponses
  Queried = {"battery"}
  WireCapacity = 1
  WaitsForClients = TRUE
  Scenarios = {"completed-drop", "single-timeout", "contacts-timeout"}
  Conducts = {"good", "any"}
  Modes = {"test", "unscoped"}
SPECIFICATION FairCheckSpec
INVARIANTS
  FaultShown
  ScopeOrderShown
PROPERTIES
  CompanionIsExclusive
  CleanupCompletes
  GoodMuxPasses
CHECK_DEADLOCK FALSE

CONSTANTS
  Port <- MCPort
  Settings <- MCSettings
SPECIFICATION DedicatedSpec
INVARIANTS
  EvidenceInOrder
  NothingElse
  SendsAreFenced
  LeavesNothing
PROPERTIES
  GoodRunPasses
CHECK_DEADLOCK FALSE

CONSTANTS
  SelfReplies = 4
  RetainedFrames = 3
  StaleCodes = {"self_info", "device_info", "ok"}
  MaxContacts = 2
  MaxPushes = 1
  MaxConnections = 2
SPECIFICATION FairStartupSpec
INVARIANTS
  FreshIdentity
  ReadyIsClean
PROPERTIES
  StartupCompletes
CHECK_DEADLOCK FALSE

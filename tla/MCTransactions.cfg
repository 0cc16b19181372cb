CONSTANTS
  Slots = {}
  Items = {}
  Commands <- MCCommands
  Frames <- SentFrames
  Disabled = {}
  CommandLimit = 2
  InboxEntries = 1
  OutputFrames = 2
  Deadlines = {"age", "signing"}
  DmCapacity = 1
  ChannelItems = {}
  OfflineQueueSize = 1
  Text <- MCText
  HistoryCapacity = 1
  Deduplicate = FALSE
  MaxArrivals = 0
  Refused <- MCRefused
  Token = 1
  MaxSessions = 2
  MaxRequests = 3
  Faults = {"client closed"}
SPECIFICATION MuxSpec
INVARIANTS
  RepliesInOrder
  ReplyOwnership
  ClockStartsAfterWrite
  ScopeIsolated
  HealthyEpochSurvives
  SigningUninterrupted

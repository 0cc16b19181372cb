CONSTANTS
  Slots = {1}
  Items = {1, 2}
  Commands <- MCCommands
  Frames <- SentFrames
  Disabled = {}
  CommandLimit = 2
  InboxEntries = 2
  OutputFrames = 2
  Deadlines = {"response", "upstream write", "sync"}
  DmCapacity = 1
  ChannelItems = {}
  OfflineQueueSize = 2
  Text <- MCText
  HistoryCapacity = 1
  Deduplicate = FALSE
  MaxArrivals = 2
  Refused = {}
  Token = 1
  MaxSessions = 2
  MaxRequests = 2
  Faults = {"client closed"}
SPECIFICATION MuxSpec
INVARIANTS
  InboxInOrder
  SlotsMissNothing
PROPERTIES
  PopIsKept

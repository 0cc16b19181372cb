CONSTANTS
  Slots = {}
  Items = {1}
  Commands <- MCCommands
  Frames <- SentFrames
  Disabled = {}
  CommandLimit = 2
  InboxEntries = 1
  OutputFrames = 2
  Deadlines = {"poll"}
  DmCapacity = 1
  ChannelItems = {}
  OfflineQueueSize = 1
  Text <- MCText
  HistoryCapacity = 1
  Deduplicate = FALSE
  MaxArrivals = 1
  Refused = {}
  Token = 1
  MaxSessions = 2
  MaxRequests = 2
  Faults = {"client closed"}
SPECIFICATION FairMuxSpec
PROPERTIES
  EveryCommandAnswered

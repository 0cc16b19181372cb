CONSTANTS
  Slots = {1}
  Items = {1, 2}
  Commands <- MCCommands
  Frames <- MCFrames
  Disabled = {}
  CommandLimit = 2
  InboxEntries = 1
  OutputFrames = 2
  Deadlines = {"sync", "late frame", "remote"}
  DmCapacity = 1
  ChannelItems = {1}
  OfflineQueueSize = 1
  Text <- MCText
  HistoryCapacity = 1
  Deduplicate = TRUE
  MaxSessions = 2
  MaxPops = 2
  MaxGeneration = 3
  MaxWrites = 2
SPECIFICATION BoundedSpec
INVARIANTS
  TypeOK
  SyncWaitsOnEmptyInbox
  NoLostWakeup
  SlotAttachment
  OrphanIsFree
PROPERTIES
  EmptyIsHonest
  DirectsSurvive

CONSTANTS
  Slots = {}
  Items = {}
  Commands <- MCCommands
  Frames <- SentFrames
  Disabled = {"factory_reset"}
  CommandLimit = 2
  InboxEntries = 1
  OutputFrames = 2
  Deadlines = {"output", "response", "dm", "late frame", "quarantine"}
  DmCapacity = 1
  ChannelItems = {}
  OfflineQueueSize = 1
  Text <- MCText
  HistoryCapacity = 1
  Deduplicate = FALSE
  MaxArrivals = 0
  Refused <- MCRefused
  Token = 1
  MaxSessions = 2
  MaxRequests = 3
  Faults = {"client closed", "client writer", "upstream writer",
            "upstream closed", "debt unpaid", "new identity"}
SPECIFICATION MuxSpec
INVARIANTS
  VirtualNeverForwarded
  ReservationInFlight
  OneRemoteOutstanding
  MaintenanceExclusive
PROPERTIES
  ResultToRequester

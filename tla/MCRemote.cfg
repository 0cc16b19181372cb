CONSTANTS
  Targets = 1
  Timeout = 3
  Limits = {2, 3, 4}
  MaxTime = 8
SPECIFICATION RemoteSpec
INVARIANT
  NoEarlyCompetitor
CHECK_DEADLOCK FALSE

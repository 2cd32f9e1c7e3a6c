CONSTANTS
  Replica = {r1}
  MaxEvents = 2
  MaxSessions = 3
  Batch = 1
  MaxFaults = 2
  Nobody = nobody
SPECIFICATION FairSpec
CHECK_DEADLOCK FALSE
PROPERTIES
  EventuallyClaimed

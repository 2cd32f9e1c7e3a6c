CONSTANTS
  Replica = {r1, r2}
  Nobody = nobody
  EventId <- MCEventId
  Scripts <- MCScripts
  NoText = ""
  Fallback = "fallback"
  Home = r1
  MaxFaults = 1
SPECIFICATION Spec
CHECK_DEADLOCK FALSE
INVARIANT
  BrowserSeesHandled

CONSTANTS
  Replica = {r1, r2}
  Nobody = nobody
  EventId <- MCEventId
  Scripts <- MCScripts
  NoText = ""
  Fallback = "fallback"
  Home = r1
  MaxFaults = 1
SPECIFICATION FairSpec
CHECK_DEADLOCK FALSE
INVARIANTS
  ReadyHasWelcome
  ShownIsStored
  SerialIsReplay
PROPERTIES
  CompleteSettles

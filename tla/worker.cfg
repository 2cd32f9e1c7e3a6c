SPECIFICATION Spec
CONSTANTS
  HasPdf = {TRUE, FALSE}
  Worker = {w1}
  Nobody = Nobody
  MaxDeliveries = 2
  MaxFaults = 1
INVARIANTS
  AckedHasVerdict
  WelcomeBeforeComplete
  RejectedLeavesNoChunks
CHECK_DEADLOCK FALSE

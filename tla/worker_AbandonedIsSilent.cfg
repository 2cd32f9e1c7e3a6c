SPECIFICATION Spec
CONSTANTS
  HasPdf = {FALSE}
  Worker = {w1}
  Nobody = Nobody
  MaxDeliveries = 1
  MaxFaults = 0
PROPERTY AbandonedIsSilent
CHECK_DEADLOCK FALSE

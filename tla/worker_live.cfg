SPECIFICATION FairSpec
CONSTANTS
  HasPdf = {FALSE}
  Worker = {w1, w2}
  Nobody = Nobody
  MaxDeliveries = 2
  MaxFaults = 1
PROPERTY MessageSettles
CHECK_DEADLOCK FALSE

CONSTANTS
  Replica = {r1, r2}
  MaxEvents = 2
  MaxSessions = 2
  Batch = 1
  MaxFaults = 1
  Nobody = nobody
SPECIFICATION Spec
CHECK_DEADLOCK FALSE
SYMMETRY Symmetry
INVARIANTS
  ListenerComesBack
  NoOrphan
PROPERTIES
  ImplementsLog

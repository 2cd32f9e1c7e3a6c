CONSTANTS
  AccessRequest = {q1, q2}
  Approval = {p1, p2}
  MaxAccessFaults = 0
SPECIFICATION AccessSpec
CHECK_DEADLOCK FALSE
INVARIANT EditorsCanBeApproved

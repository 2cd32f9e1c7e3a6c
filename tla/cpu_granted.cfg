CONSTANTS
  Job = {j1, j2, j3, j4, j5}
  CpuCount = 6
  ReservedForBackend = 1
  CpuMainMax = 3
SPECIFICATION Spec
CHECK_DEADLOCK FALSE
SYMMETRY Symmetry
INVARIANT
  GrantedWithinBudget

\* Two processes, two adapters, crashes, failing calls and a foreign edit.
SPECIFICATION Spec
CONSTANTS
  p = p
  q = q
  a = a
  b = b
  Procs = {p, q}
  LUIDs = {l1, l2}
  Dests = {a, b}
  Plan <- MCPlan
  MaxIndex = 2
  MaxStarts = 2
  MaxFaults = 2
  MaxCrashes = 1
SYMMETRY MCSymmetry
INVARIANTS
  OwnershipKept
  ForeignUnclaimed
  RecoveryComplete
PROPERTIES
  LiveRoutesKept
CHECK_DEADLOCK FALSE

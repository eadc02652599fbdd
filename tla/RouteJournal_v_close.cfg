\* One process: a delete fails and its readback fails too.
SPECIFICATION FairSpec
CONSTANTS
  p = p
  q = q
  a = a
  b = b
  Procs = {p}
  LUIDs = {l1}
  Dests = {a, b}
  Plan <- MCPlanOne
  MaxIndex = 1
  MaxStarts = 3
  MaxFaults = 2
  MaxCrashes = 0
PROPERTIES
  CloseReturns
CHECK_DEADLOCK FALSE

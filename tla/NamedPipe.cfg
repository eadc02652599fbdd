\* Two callers, two connections, one delivering goroutine, a queue of one.
SPECIFICATION FairSpec
CONSTANTS
  Callers = {c1, c2}
  Pingers = {c1}
  Deliverers = {d}
  QueueSize = 1
  MaxDeliveries = 1
  MaxPending = 2
  ReconnectMin = 2
  ReconnectMax = 3
  MaxId = 3
  MaxConns = 2
  MaxFaults = 1
INVARIANTS
  PipeSound
  AnswerMatches
  RevokedBeforeNext
PROPERTIES
  EveryoneReturns
CHECK_DEADLOCK FALSE

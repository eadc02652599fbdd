\* The pipeline and one more caller, two dials, interrupts and failures at any time.
SPECIFICATION FairRuntimeSpec
CONSTANTS
  Callers = {p, q}
  Pipeline = p
  MaxDials = 2
INVARIANTS
  SingleFlight
  ReturnedMeansQuiet
  ClientSound
PROPERTIES
  FailureIsLocal
  EverybodyReleased
CHECK_DEADLOCK FALSE

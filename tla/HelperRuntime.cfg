SPECIFICATION FairSpec
INVARIANTS
  StopSound
PROPERTIES
  CleanupForward
  HelperEnds
CHECK_DEADLOCK FALSE

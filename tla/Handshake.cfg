SPECIFICATION FairSpec
CONSTANTS
    Paths = {p1, p2}
    MaxNonce = 2
    MaxHandshakeAttempts = 2
INVARIANTS
  TransportSound
  OutcomeSound
PROPERTIES
  EverybodyTold
CHECK_DEADLOCK FALSE

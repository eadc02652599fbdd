\* Two transports and controllers in turn, two generations, leases over a table of one, two buffer leases, stale clock readings.
SPECIFICATION Spec
SYMMETRY MCSymmetry
CONSTANTS
  Attachments = {a1, a2}
  Controllers = {c1, c2}
  FlowIDs = {f1, f2}
  Endpoints = {"v4"}
  BufferSlots = {b1, b2}
  Nobody = Nobody
  MaxGeneration = 2
  MaxTransactions = 2
  MaxNonce = 2
  MaxSequence = 1
  MaxClock = 2
  MaxDelay = 2
  Sizes = {3, 4}
  MaxFlows = 1
  FlowTTL = 1
  MaxDatagramSize = 3
  PayloadLimit <- MCPayloadLimit
  MaxBufferedBytes = 6
  MinReservation = 2
  MaxObjects = 3
  MaxObjectsPerDir = 1
  MaxMetadata = 15
  MaxMetadataPerDir = 10
  MetaSize = 5
INVARIANTS
  AuthorityBound
  FlowsOfActiveGeneration
  PreparedIsCurrent
  CountersExact
PROPERTIES
  ImplementsAuthority
  LeaseHonoured
CHECK_DEADLOCK FALSE

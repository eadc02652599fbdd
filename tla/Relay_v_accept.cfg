\* A Hello that the router refuses to register.
SPECIFICATION RelaySpec
SYMMETRY MCSymmetry
CONSTANTS
  Conns = {k, l}
  IDs = {i, j}
  Addrs = {a, b}
  None = None
  AllowPaths = FALSE
  MaxPaths = 2
  MaxUsed = 1
  Burst = 1
  Rate = 1
  RequestLife = 0
  CookieLife = 1
  PathLife = 2
  TombLife = 2
  MaxTombstones = 2
  MaxPackets = 0
  MaxChallenges = 2
  MaxClock = 2
  WindowStarts = {}
  MaxSessions = 2
  HandshakeQueue = 1
  ReplayLimit = 1
  MaxHellos = 2
  MaxSkew = 0
  MaxStall = 1

PROPERTIES
  KeepsAccepting
CHECK_DEADLOCK FALSE

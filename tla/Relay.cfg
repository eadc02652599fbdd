\* One Hello is repeated and delayed, before and after its session ends; Close at any time.
SPECIFICATION FairRelaySpec
CONSTANTS
  Conns = {k, l}
  IDs = {i}
  Addrs = {a, b}
  None = None
  AllowPaths = FALSE
  MaxPaths = 2
  MaxUsed = 1
  Burst = 1
  Rate = 1
  RequestLife = 0
  CookieLife = 1
  PathLife = 2
  TombLife = 2
  MaxTombstones = 2
  MaxPackets = 0
  MaxChallenges = 2
  MaxClock = 4
  WindowStarts = {}
  MaxSessions = 1
  HandshakeQueue = 1
  ReplayLimit = 1
  MaxHellos = 1
  MaxSkew = 1
  MaxStall = 1
INVARIANTS
  HelloSound
  NoOrphanConnection
PROPERTIES
  CloseReleases
CHECK_DEADLOCK FALSE

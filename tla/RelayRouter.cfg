\* Two sessions contend for three sources, of which each may hold two; two challenges, a burst of two, one data packet at a time.
SPECIFICATION Spec
SYMMETRY MCSymmetry
VIEW MCView
CONSTANTS
  Conns = {k, l}
  IDs = {i, j}
  Addrs = {a, b, c}
  None = None
  AllowPaths = TRUE
  MaxPaths = 2
  MaxUsed = 2
  Burst = 2
  Rate = 1
  RequestLife = 0
  CookieLife = 2
  PathLife = 1
  TombLife = 2
  MaxTombstones = 1
  MaxPackets = 1
  MaxChallenges = 2
  MaxClock = 3
  WindowStarts = {3}
INVARIANTS
  PathsSound
  ChallengesBounded
PROPERTIES
  ReturnPathProven
  NoTheft
CHECK_DEADLOCK FALSE

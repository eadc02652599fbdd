SPECIFICATION FairSpec
CONSTANTS
    s1 = s1
    s2 = s2
    k1 = k1
    k2 = k2
    k3 = k3
    k4 = k4
    Callers = {c1, c2}
    Keys <- MCKeys
    SessionOf <- MCSessionOf
    RemoteOf <- MCRemoteOf
    Rules <- MCRules
    MaxFlows = 2
    MaxFlowsPerSession = 2
    MaxSlots = 3
INVARIANTS
  PoolSound
  ReaderReachable
PROPERTIES
  CloseDrains

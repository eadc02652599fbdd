\* Adaptive parity, a payload too long for a shard, one pending group, a byte budget of two shards.
SPECIFICATION FairSpec
CONSTANTS
  Streams = {s1}
  DataShards = 2
  InitialParity = 1
  MaxParityShards = 16
  Dynamic = TRUE
  AdaptWindow = 1
  GroupTimeout = 1
  Sizes = {1, 2}
  Prefix = 2
  MaxShardSize = 3
  Window = 2
  MaxGroups = 1
  MaxCompleted = 3
  MaxBufferedBytes = 8
  GroupLifetime = 2
  MaxAge = 1
  MaxPayloads = 2
  MaxClock = 2
INVARIANTS
  DeliveredOnce
  RefusedNotDelivered
  NeverGarbage
  BufferSound
PROPERTIES
  GroupFlushed
CHECK_DEADLOCK FALSE

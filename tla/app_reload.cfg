SPECIFICATION Spec
CONSTANTS
  Dev <- PairDev
  Host <- MCHost
  Port <- MCPort
  Link <- NoLink
  HostAt <- MCHostAt
  Interface <- PairInterface
  Key <- PairKey
  Gid <- MCGid
  BroadcastKey = "bcast"
  BroadcastGid = "gid255"
  Script <- PairScript
  RetryTimes = 2
  Preset <- OnlyS1
  MaxLosses = 0
  MaxStops = 1
  MaxQueue = 0
INVARIANTS
  HostsLearned
  BroadcastComplete
  CommandsKept
PROPERTY
  StartsClean
CHECK_DEADLOCK FALSE

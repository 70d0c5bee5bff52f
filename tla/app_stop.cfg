SPECIFICATION Spec
CONSTANTS
  Dev <- PairDev
  Host <- MCHost
  Port <- MCPort
  Link <- OneWay
  HostAt <- MCHostAt
  Interface <- PairInterface
  Key <- PairKey
  Gid <- MCGid
  BroadcastKey = "bcast"
  BroadcastGid = "gid255"
  Script <- NoScript
  RetryTimes = 2
  Preset <- OnlyS1
  MaxLosses = 0
  MaxStops = 1
  MaxQueue = 1
INVARIANT
  StopsClean
CHECK_DEADLOCK FALSE

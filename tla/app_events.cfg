SPECIFICATION FairSpec
CONSTANTS
  Dev <- PairDev
  Host <- NoHost
  Port <- MCPort
  Link <- OneWay
  HostAt <- NoHostAt
  Interface <- OneInterface
  Key <- PairKey
  Gid <- MCGid
  BroadcastKey = "bcast"
  BroadcastGid = "gid255"
  Script <- NoScript
  RetryTimes = 2
  Preset <- OnlyS1
  MaxLosses = 1
  MaxStops = 1
  MaxQueue = 0
INVARIANTS
  TypeOK
  LinksServedOnceConfigured
PROPERTIES
  ActivationEnds
  LinksGetServed
CHECK_DEADLOCK FALSE

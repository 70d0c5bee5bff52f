SPECIFICATION Spec
CONSTANTS
  Switch <- MCSwitch
  Host <- MCHost
  Port <- MCPort
  Addr <- MCAddr
  L4Kind <- MCL4Kind
  NoL4 = "none"
  Config <- MCConfigListed
  MaxTtl = 64
  Link <- MCLink
  HostAt <- MCHostAt
  Members <- MCMembers
  Offered <- OfferRollout
  MaxSent = 1
  Mixed <- NoneMixed
  MaxTrace = 8
  Lossy = TRUE
  Probes <- SomeProbes
  Push <- PushSfc
INVARIANTS
  ChainConsistent
  LinksInferredExist
  FirewallHolds
CHECK_DEADLOCK FALSE

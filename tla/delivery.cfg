SPECIFICATION FairSpec
CONSTANTS
  Switch <- MCSwitch
  Host <- MCHost
  Port <- MCPort
  Addr <- MCAddr
  L4Kind <- MCL4Kind
  NoL4 = "none"
  Config <- MCConfig
  MaxTtl = 64
  Link <- MCLink
  HostAt <- MCHostAt
  Members <- MCMembers
  Offered <- OfferFlows
  MaxSent = 2
  Mixed <- OfferFlows
  MaxTrace = 8
  Lossy = FALSE
  Probes <- NoProbes
  Push <- NoPush
PROPERTIES
  Drains
  AllDelivered
CHECK_DEADLOCK FALSE

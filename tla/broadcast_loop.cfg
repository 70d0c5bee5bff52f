SPECIFICATION Spec
CONSTANTS
  Switch <- MCSwitch
  Host <- MCHost
  Port <- MCPort
  Addr <- MCAddr
  L4Kind <- MCL4Kind
  NoL4 = "none"
  Config <- MCConfig
  MaxTtl = 64
  Link <- MCLink
  HostAt <- MCHostAt
  Members <- MCMembers
  Offered <- OfferBroadcast
  MaxSent = 1
  Mixed <- NoneMixed
  MaxTrace = 8
  Lossy = FALSE
  Probes <- NoProbes
  Push <- NoPush
INVARIANTS
  BroadcastHasNoLoop
CHECK_DEADLOCK FALSE

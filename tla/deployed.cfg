SPECIFICATION Spec
CONSTANTS
  Switch <- MCSwitch
  Host <- MCHost
  Port <- MCPort
  Addr <- MCAddr
  L4Kind <- MCL4Kind
  NoL4 = "none"
  Config <- MCConfig
  MaxTtl = 64
  Link <- MCLink
  HostAt <- MCHostAt
  Members <- MCMembers
  Offered <- OfferAll
  MaxSent = 3
  Mixed <- OfferFlows
  MaxTrace = 8
  Lossy = TRUE
  Probes <- NoProbes
  Push <- NoPush
INVARIANTS
  TypeOK
  ServedBeforeDelivery
  RightReceiver
  HostSeesOriginal
  ReportedPathIsActual
  OneReportPerSink
  TtlAccounts
  ReportsNumbered
PROPERTIES
  ImplementsService
CHECK_DEADLOCK FALSE

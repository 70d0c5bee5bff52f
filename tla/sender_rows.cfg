SPECIFICATION MSpec
CONSTANTS
  Host = {"h1", "h2"}
  Flow = {"m"}
  Members <- MCMembers
  SentTo <- MCSentTo
  SeenAt <- MCSeenAt
  Dscp <- MCDscp
  Count <- MCCount
  Duration = 300
  SenderReceiverGap = 5
  ExportResultsGap = 5
  NumIterations = 1
  StartUp = 4
  Transit = 10
  ExportTime = 20
  Reorders = FALSE
  MaxTests = 1
  MaxPackets = 2
  Earlier = {}
  DscpIps <- MCDscpIps
  ScenarioDscps <- MCScenarioDscps
  NumSwitches = 5
  Baseline <- MCBaseline
INVARIANT SenderRowsTrue
CHECK_DEADLOCK FALSE

SPECIFICATION MSpec
CONSTANTS
  Host = {"h1", "h2"}
  Flow = {"m"}
  Members <- MCMembers
  SentTo <- MCSentTo
  SeenAt <- MCSeenAt
  Dscp <- MCDscp
  Count <- MCCount
  Duration = 300
  SenderReceiverGap = 5
  ExportResultsGap = 5
  NumIterations = 2
  StartUp = 4
  Transit = 10
  ExportTime = 20
  Reorders = TRUE
  MaxTests = 1
  MaxPackets = 2
  Earlier <- MCEarlier
  DscpIps <- MCDscpIps
  ScenarioDscps <- MCScenarioDscps
  NumSwitches = 5
  Baseline <- MCBaseline
INVARIANTS
  FileWellFormed
  SniffedWhileSent
  EndedBeforeNext
  RowsTellWhatArrived
  MergedInAnyOrder
  LossOfItsFlow
  AveragesTellFiles
  ComparisonInItsBlock
  PlotsShowWhatIsAveraged
  FailsOnlyWithoutData
PROPERTY TestEnds
CHECK_DEADLOCK FALSE

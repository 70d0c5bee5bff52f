SPECIFICATION TSpec
CONSTANTS
  Flow <- MCFlow
  Sizes <- MCSizes
  Instructions <- MCInstructions
  HopMetaLength = 11
  ClockStart <- MCClockStart
  WriteTime = 1
  MaxPackets = 2
  LastReport = 1
  Horizon = 12
  MaxOutages = 1
  NumSwitches = 5
  Colors <- MCColors
  AnyColor = {"blue"}
  PollTimes = {2}
  Before <- MCBefore
INVARIANTS
  FinishedNotDrawn
CHECK_DEADLOCK FALSE

SPECIFICATION Spec
CONSTANTS
  Dev <- MCDev
  Objective <- MCObjective
  IssuedBy <- MCIssuedBy
  Treatment <- MCTreatment
  OwnApp = "srv6_usid"
  NoGroup = "none"
  MaxRemovals = 2
INVARIANT DiscoverySurvives

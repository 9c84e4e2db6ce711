SPECIFICATION RSpec
CONSTANTS
  Request = {r1, r2}
  HasLimitFn = TRUE
  MaxInflight = 0
  limits <- MCLimits
  Capacities <- MCCapacities
  NumBackends = 2
  Model = {"m1", "m2"}
  Conversation = {"c1"}
  none = none
  maxConcurrent <- MCHalfAuto
  Models <- MCRestricted
  MaxLimit = 1
  AutoLimits = {0, 1}
  ScrapedStates <- MCScraped
  HealthReports = {"up"}
  Inputs <- MCTalk
SYMMETRY Symm
INVARIANTS HardCap PinServesModel
PROPERTY ImplementsGate

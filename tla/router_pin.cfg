SPECIFICATION RSpec
CONSTANTS
  Request = {r1, r2}
  HasLimitFn = TRUE
  MaxInflight = 0
  limits <- MCLimits
  Capacities <- MCCapacities
  NumBackends = 2
  Model = {"m1", "m2"}
  Conversation = {"c1"}
  none = none
  maxConcurrent <- MCCapped
  Models <- MCAnyModel
  MaxLimit = 1
  AutoLimits = {0}
  ScrapedStates <- MCWarm
  HealthReports = {"up"}
  Inputs <- MCTalk
SYMMETRY Symm
PROPERTY PinnedOnSuccess

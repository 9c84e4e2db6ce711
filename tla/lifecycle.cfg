SPECIFICATION LSpec
CONSTANTS
  Request = {r1, r2}
  HasLimitFn = TRUE
  MaxInflight = 0
  limits <- MCLimits
  Capacities <- MCCapacities
  NumBackends = 2
  Model = {"m1"}
  Conversation = {}
  none = none
  maxConcurrent <- MCCapped
  Models <- MCAnyModel
  MaxLimit = 1
  AutoLimits = {0}
  ScrapedStates <- MCWarm
  HealthReports = {"up", "down"}
  Inputs <- MCPlain
INVARIANT CleanStop
PROPERTIES DrainEnds AdmittedReturns DisconnectReturns
CHECK_DEADLOCK FALSE

SPECIFICATION RSpec
CONSTANTS
  Request = {r1, r2, r3, r4}
  HasLimitFn = TRUE
  MaxInflight = 0
  limits <- MCLimits
  Capacities <- MCCapacities
  NumBackends = 2
  Model = {"m1", "m2"}
  Conversation = {}
  none = none
  maxConcurrent <- MCCapped
  Models <- MCAnyModel
  MaxLimit = 1
  AutoLimits = {0}
  ScrapedStates <- MCWarm
  HealthReports = {"up"}
  Inputs <- MCPlain
SYMMETRY Symm
INVARIANTS RTypeOK BackendSlots SlotPaired AdmittedFits

SPECIFICATION FairSpec
CONSTANTS
  Request = {r1, r2, r3}
  HasLimitFn = TRUE
  MaxInflight = 0
  limits <- MCLimits
  Capacities = {1, 2}
INVARIANTS TypeOK SlotsAccounted QueueDiscipline NoStrandedWaiter WithinLimits
PROPERTIES PriorityOrder InteractiveServed CancelledLeaves

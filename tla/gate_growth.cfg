SPECIFICATION Spec
CONSTANTS
  Request = {r1, r2, r3}
  HasLimitFn = TRUE
  MaxInflight = 0
  limits <- MCNarrow
  Capacities = {1, 2}
PROPERTY RejectsOnlyWhenFull

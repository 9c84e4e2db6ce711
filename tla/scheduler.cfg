SPECIFICATION SSpec
CONSTANTS
  NumBackends = 3
  Snapshots <- MCSnapshots
  Overrides = {none, 1, reject}
  none = none
  reject = reject
  error = error
INVARIANTS OnlyEligible GivesUpLast StickyFirst
PROPERTIES TakesTheBest FastWarmWins

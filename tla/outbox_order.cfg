SPECIFICATION SafetySpec
CONSTANTS
  NoRow = NoRow
  Events <- MCEvents
  Flushers = {f1}
  BatchSize = 2
  MaxTime = 1
  Fraction = 2
INVARIANTS
  BatchChronological
CHECK_DEADLOCK FALSE

SPECIFICATION Spec
CONSTANTS
  NoRow = NoRow
  Events <- MCEvents
  Flushers = {f1, f2}
  BatchSize = 2
  MaxTime = 1
  Fraction = 2
INVARIANTS
  TypeOK
  LogMatchesOutbox
PROPERTIES
  ImplementsDelivery
CHECK_DEADLOCK FALSE

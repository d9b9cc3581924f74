SPECIFICATION Spec
CONSTANTS
  NoEntry = NoEntry
  Keys = {k1}
  FailureLimit = 2
  FailureWindow = 2
  Lockout = 2
  TrackedLimit = 1
  MaxTime = 4
  MaxInFlight = 4
  ClockLag = 0
SYMMETRY Symmetric
INVARIANTS
  BurstBounded
CHECK_DEADLOCK FALSE

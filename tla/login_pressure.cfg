SPECIFICATION Spec
CONSTANTS
  NoEntry = NoEntry
  Keys = {k1, k2, k3}
  FailureLimit = 2
  FailureWindow = 2
  Lockout = 2
  TrackedLimit = 2
  MaxTime = 5
  MaxInFlight = 3
  ClockLag = 1
SYMMETRY Symmetric
INVARIANTS
  TypeOK
  CapacityBounded
  PendingIsInFlight
  BudgetHeld
PROPERTIES
  PressureSparesLiveEntries
CHECK_DEADLOCK FALSE

SPECIFICATION Spec
CONSTANTS
  s1 = s1
  s2 = s2
  Sessions = {s1, s2}
  Setups <- SmallSetups
  MaxFailures = 1
INVARIANTS TypeOK RemovalLeavesNothing NoMissedReload
PROPERTY DeletesOwnRules
CHECK_DEADLOCK FALSE

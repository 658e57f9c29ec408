SPECIFICATION FairSpec
CONSTANTS
  in1 = in1
  in2 = in2
  NoInner = NoInner
  Inners = {in1, in2}
  MinBackoff = 2
  MaxBackoff = 3
  MaxAttempts = 2
  HealthEnabled = TRUE
  MSSMode = "monitor"
  EnsureLeaves = TRUE
  RemoveMayFail = TRUE
INVARIANTS AsksForLastAddress BackoffGrowsAndResets TunnelOnlyInSession
           DialFollowsSourceRules
PROPERTIES NoGoroutineLeaks CancelReturns
CHECK_DEADLOCK FALSE

SPECIFICATION Spec
CONSTANTS
  in1 = in1
  in2 = in2
  NoInner = NoInner
  Inners = {in1}
  MinBackoff = 1
  MaxBackoff = 2
  MaxAttempts = 2
  HealthEnabled = FALSE
  MSSMode = "off"
  EnsureLeaves = FALSE
  RemoveMayFail = FALSE
INVARIANT StopsOnlyIfRefused
CHECK_DEADLOCK FALSE

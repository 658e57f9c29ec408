SPECIFICATION Spec
CONSTANTS
  c1 = c1
  c2 = c2
  c3 = c3
  near = near
  far = far
  NoConn = NoConn
  IPs = {near, far}
  Conns = {c1, c2, c3}
  ip <- ThreeConns
  MaxPendingHandshakes = 2
  MaxPendingPerIP = 1
  AcceptMayFail = TRUE
INVARIANTS SlotsMatchHandshakes OneTeardownPerGrant CleanShutdown
CHECK_DEADLOCK FALSE

SPECIFICATION FairSystem
CONSTANTS
  c1 = c1
  c2 = c2
  k1 = k1
  k2 = k2
  near = near
  far = far
  alice = alice
  bob = bob
  tun0 = tun0
  NoConn = NoConn
  NoClient = NoClient
  NoKey = NoKey
  NoName = NoName
  IPs = {near, far}
  Conns = {c1, c2}
  ip <- TwoConns
  MaxPendingHandshakes = 1
  MaxPendingPerIP = 1
  AcceptMayFail = FALSE
  Keys = {k1, k2}
  Clients = {alice, bob}
  Prefix <- TinyPrefix
  NetworkAddr = 1
  Reserved <- MCReserved
  PinNames = {tun0}
  StaticLease <- NoStatics
  PinnedName <- AlicePin
  Requests = {0}
  MaxNameLen = 6
  LeaseTTL = 0
  MSSClamp = TRUE
  EnsureFailures = {"unwound"}
  RemoveMayFail = FALSE
  RandomMayFail = TRUE
  DistinctDraws = TRUE
INVARIANTS AcceptedConfigsUsable TornDownUnlessOvertaken ShutdownLeavesNothing
PROPERTIES HandshakesResolve SilentPeersDropped ShutdownEnds
CHECK_DEADLOCK FALSE

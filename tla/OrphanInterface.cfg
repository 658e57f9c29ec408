SPECIFICATION Spec
CONSTANTS
  c1 = c1
  c2 = c2
  c3 = c3
  k1 = k1
  k2 = k2
  k3 = k3
  alice = alice
  bob = bob
  carol = carol
  NoConn = NoConn
  NoClient = NoClient
  NoKey = NoKey
  NoName = NoName
  Conns = {c1, c2}
  Keys = {k1, k2}
  Clients = {alice}
  Prefix <- MCPrefix
  NetworkAddr = 1
  Reserved <- MCReserved
  PinNames = {}
  StaticLease <- NoStatics
  PinnedName <- NoPins
  Requests = {0}
  LeaseTTL = 0
  MSSClamp = FALSE
  EnsureFailures = {}
  RemoveMayFail = FALSE
  RandomMayFail = FALSE
  DistinctDraws = TRUE
INVARIANT NoOrphanInterface
SYMMETRY Symmetry
CHECK_DEADLOCK FALSE

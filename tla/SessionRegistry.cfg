SPECIFICATION Spec
CONSTANTS
  c1 = c1
  c2 = c2
  c3 = c3
  k1 = k1
  k2 = k2
  k3 = k3
  alice = alice
  bob = bob
  carol = carol
  NoConn = NoConn
  NoClient = NoClient
  NoKey = NoKey
  NoName = NoName
  Conns = {c1, c2, c3}
  Keys = {k1, k2, k3}
  Clients = {alice, bob, carol}
  Prefix <- MCPrefix
  NetworkAddr = 1
  Reserved <- MCReserved
  PinNames = {}
  StaticLease <- AliceStatic
  PinnedName <- NoPins
  Requests = {0, 1, 2, 3}
  LeaseTTL = 1
  MSSClamp = TRUE
  EnsureFailures = {"unwound", "unreached", "created"}
  RemoveMayFail = TRUE
  RandomMayFail = FALSE
  DistinctDraws = TRUE
INVARIANT RegistryConsistent
INVARIANT LiveSessionIntact
PROPERTY ReconnectKeepsAddress
PROPERTY RefusalEvictsNothing
PROPERTY EndedByOwnerOrSuccessor
PROPERTY ImplementsAddressLeases
SYMMETRY Symmetry
CHECK_DEADLOCK FALSE

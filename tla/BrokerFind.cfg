SPECIFICATION Spec
CONSTANTS
  a1 = a1
  a2 = a2
  a3 = a3
  n1 = n1
  j1 = j1
  p1 = p1
  p2 = p2
  Addr = {a1, a2, a3}
  Name = {n1}
  Junk = {j1}
  Provider = {p1, p2}
  Offer <- MCOffer
  Abroad = {a3}
  Calls <- MCBoundedCalls
  MaxConn = 2
  MaxProviders = 1
  CheckId = {t1, t2, t3}
  MaxPasses = 1
  MaxStops = 1
  None = None
SYMMETRY MCChecks
CHECK_DEADLOCK FALSE
INVARIANTS
  SlotAccounting
  FunnelConservation
  OncePerPass
PROPERTIES
  PersistedAtEnd
  ImplementsStream

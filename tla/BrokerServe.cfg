SPECIFICATION Spec
CONSTANTS
  a1 = a1
  a2 = a2
  a3 = a3
  n1 = n1
  j1 = j1
  p1 = p1
  p2 = p2
  Addr = {a1, a2}
  Name = {n1}
  Junk = {j1}
  Provider = {p1, p2}
  Offer <- MCServeOffer
  Abroad = {}
  Calls <- MCEndlessCalls
  MaxConn = 1
  MaxProviders = 1
  CheckId = {t1, t2}
  MaxPasses = 2
  MaxStops = 0
  None = None
SYMMETRY MCChecks
CHECK_DEADLOCK FALSE
INVARIANTS
  NoLostWakeup
  BacklogBounded

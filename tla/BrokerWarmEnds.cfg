SPECIFICATION Spec
CONSTANTS
  a1 = a1
  a2 = a2
  a3 = a3
  n1 = n1
  j1 = j1
  p1 = p1
  p2 = p2
  Addr = {a1, a2}
  Name = {n1}
  Junk = {j1}
  Provider = {p1, p2}
  Offer <- MCServeOffer
  Abroad = {}
  Calls <- MCForeverCalls
  MaxConn = 2
  MaxProviders = 1
  CheckId = {t1, t2, t3}
  MaxPasses = 1
  MaxStops = 0
  None = None
CHECK_DEADLOCK FALSE
INVARIANTS
  ForeverNeverEnds

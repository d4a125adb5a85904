SPECIFICATION IntakeSpec
CONSTANTS
  k1 = k1
  k2 = k2
  bad = bad
  k3 = k3
  n1 = n1
  p1 = p1
  p2 = p2
  Key = {k1, k2, k3, bad}
  Garbage = {bad}
  Name = {n1}
  Provider = {p1, p2}
  Offer <- MCOffer
  Stored = {k2}
  Slots = 1
  MaxPasses = 2
  Ttl = 1
  MaxEntries = 2
  MaxNow = 2
  MaxSerial = 3
  None = None
CHECK_DEADLOCK FALSE
INVARIANTS
  Bounded
  NeverWrong
PROPERTIES
  ImplementsDeadSet
  NoRecheck
  CreditedRight

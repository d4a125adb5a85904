SPECIFICATION FairSpec
CONSTANTS
  p1 = p1
  p2 = p2
  p3 = p3
  Proxy = {p1, p2}
  Schemes <- MCTwoSchemes
  HostPort <- MCHostPort
  Times = {1, 2}
  MinQueue = 1
  MaxImportRetries = 2
  Client = {c1, c2}
  MaxTries = 2
  None = None
CHECK_DEADLOCK FALSE
INVARIANTS
  Custody
  PoolIsCurrent
PROPERTIES
  RequestEnds

SPECIFICATION CliFairSpec
CONSTANTS
  Endpoints = 3
  None = None
  Proxy = {x}
  x = x
  MaxQueued = 3
  MaxSigints = 2
CHECK_DEADLOCK FALSE
INVARIANTS
  NoProbeLeft
  FoundIsComplete
  DocumentComplete
PROPERTIES
  BlackholeIsBounded
  StopEnds

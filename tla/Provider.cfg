SPECIFICATION FairSpec
CONSTANTS
  None = None
  Sources <- MCSources
  MaxTries = 2
  MaxConn = 2
  Fetches = 2
CHECK_DEADLOCK FALSE
INVARIANTS
  ConnectionsBounded
  StraysAreOfFailures
  HandsOver
  NothingInvented
PROPERTIES
  FetchesEnd

SPECIFICATION LookupFairSpec
CONSTANTS
  c1 = c1
  c2 = c2
  c3 = c3
  h1 = h1
  h2 = h2
  Caller = {c1, c2}
  Host = {h1}
  None = None
CHECK_DEADLOCK FALSE
INVARIANTS
  NoQueryLeft
  PinIsHonoured
PROPERTIES
  FirstAnswerSuffices

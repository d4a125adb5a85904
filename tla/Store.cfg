SPECIFICATION Spec
CONSTANTS
  r1 = r1
  r2 = r2
  a1 = a1
  a2 = a2
  Run = {r1, r2}
  Addr = {a1, a2}
  Abroad = {a2}
  Ttl = 0
  MaxTime = 1
CHECK_DEADLOCK FALSE
PROPERTIES
  PoolSurvives
  ImplementsRegister

SPECIFICATION FairSpec
CONSTANTS
  web = web
  secure = secure
  mail = mail
  k1 = k1
  k2 = k2
  Judge = {web, secure}
  OldJudge = {mail}
  JudgeScheme <- MCScheme
  Fragile = {web}
  Task = {k1, k2}
  Types <- MCTypes
  Expected <- MCExpected
  Strict = TRUE
  Dnsbl = TRUE
  VerifyUrl = TRUE
  MaxTries = 2
  None = None
CHECK_DEADLOCK FALSE
INVARIANTS
  VerdictSound
  NoWaitInVain
  JudgesBeforeChecks
PROPERTIES
  ChecksEnd

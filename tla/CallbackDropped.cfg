\* What the client's callback bridge says a callback needs.
CONSTANTS
  t1 = t1
  s1 = s1
  Thread = {t1}
  Server = {s1}
  Style = "posix"
  AllocFails = TRUE
  MaxId = 3
  MaxConn = 2
  MaxCb = 1
  MaxFaults = 1
SPECIFICATION FairSpec
PROPERTY CallbackEnds
CHECK_DEADLOCK FALSE
